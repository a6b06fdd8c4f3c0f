----------------------------- MODULE HostProofs -----------------------------
(***************************************************************************)
(* Proofs about what the bot does by itself on its host: start and         *)
(* shutdown, the status panel, the traffic it counts, the alerts it sends, *)
(* the backups and the database connection that all tasks share.           *)
(***************************************************************************)
EXTENDS Lifecycle, HostStatus, Traffic, Anomaly, Backups, Database, FiniteSetTheorems,
        WellFoundedInduction, TLAPS

-----------------------------------------------------------------------------
(* Start and shutdown                                                      *)

Opened == {"build", "start", "serve", "polling", "runner", "drain", "loops", "servers", "database"}
Ending == {"loops", "servers", "database", "session"}
Before == {"off", "connect", "build", "start"}

LifeTypes ==
  /\ main \in [Procs -> Before \cup {"serve", "polling", "runner", "drain"} \cup Ending]
  /\ dbOpen \in SUBSET Procs /\ handlers \in SUBSET Procs
  /\ loopAt \in [Procs -> [Loops -> {"off", "work", "sleep"}]]
  /\ cancelling \in [Procs -> 0 .. Len(LoopOrder)]
  /\ bulk \in [Procs -> {"none", "bundle", "between"}]
  /\ DOMAIN lateBulk = Procs

\* Whoever runs holds the instance lock, and the database is open from create_app
\* to its place in `finally'.
LockInv ==
  /\ \A p \in Procs : main[p] # "off" => flock = p
  /\ dbOpen = {p \in Procs : main[p] \in Opened}

\* The loops run between their start and their cancellation, and while they are
\* cancelled the ones before the current one have ended.
LoopInv == \A p \in Procs :
  /\ main[p] \in Before \cup (Ending \ {"loops"}) => \A l \in Loops : loopAt[p][l] = "off"
  /\ main[p] \notin Ending => cancelling[p] = NoCancel
  /\ main[p] = "loops" => \A i \in 1 .. Len(LoopOrder) :
       i < cancelling[p] => loopAt[p][LoopOrder[i]] = "off"

\* Beyond the runner's shutdown only a run that began after it is left.
BulkInv == \A p \in Procs :
  /\ main[p] \in Before \cup {"serve"} => bulk[p] = "none" /\ p \notin handlers
  /\ main[p] \in Ending /\ bulk[p] # "none" => lateBulk[p]

\* Until the application is built nothing has been marked.
MarkInv ==
  /\ DOMAIN marked = Procs
  /\ \A p \in Procs : /\ DOMAIN marked[p] = {"degraded", "uninstalled"}
                      /\ ~(marked[p].degraded /\ marked[p].uninstalled)
                      /\ main[p] \in {"connect", "build"} => marked[p] = Clean

LifeFrame == LifeTypes /\ LockInv

LifeInv == LifeFrame /\ LoopInv /\ BulkInv /\ MarkInv /\ NoBundleCutShort

\* Before the first start nothing runs.
LEMMA LifeStarts == LifeInit => LifeInv
<1> SUFFICES ASSUME LifeInit PROVE LifeInv
  OBVIOUS
<1>1. LifeTypes
  BY LifecycleAssumption DEF LifeInit, LifeTypes, AllOff, NoCancel, Before
<1>2. LockInv
  BY DEF LifeInit, LockInv, Opened
<1>3. LoopInv
  BY DEF LifeInit, LoopInv, AllOff, Before, Ending
<1>4. BulkInv
  BY DEF LifeInit, BulkInv, Ending
<1>5. MarkInv /\ NoBundleCutShort
  BY DEF LifeInit, MarkInv, NoBundleCutShort, Clean
<1>. QED BY <1>1, <1>2, <1>3, <1>4, <1>5 DEF LifeInv, LifeFrame

\* A process that is gone leaves nothing of it behind.
LEMMA GoneKeeps ==
  ASSUME LifeInv, NEW p \in Procs, ProcessGone(p) PROVE LifeFrame' /\ LoopInv' /\ BulkInv' /\ MarkInv'
<1>0. LifeTypes /\ LockInv
  BY DEF LifeInv, LifeFrame
<1>g. /\ main' = [main EXCEPT ![p] = "off"] /\ dbOpen' = dbOpen \ {p}
      /\ loopAt' = [loopAt EXCEPT ![p] = AllOff] /\ cancelling' = [cancelling EXCEPT ![p] = NoCancel]
      /\ handlers' = handlers \ {p} /\ bulk' = [bulk EXCEPT ![p] = "none"]
      /\ lateBulk' = [lateBulk EXCEPT ![p] = FALSE] /\ marked' = marked
      /\ flock' = IF flock = p THEN "free" ELSE flock
  BY DEF ProcessGone, MainTo
<1>1. LifeTypes'
  BY <1>0, <1>g, LifecycleAssumption DEF LifeTypes, AllOff, NoCancel, Before
<1>2. LockInv'
  BY <1>0, <1>g DEF LifeTypes, LockInv, Opened
<1>3. LoopInv'
  BY <1>0, <1>g DEF LifeInv, LifeTypes, LoopInv, AllOff, NoCancel
<1>4. BulkInv'
  BY <1>0, <1>g DEF LifeInv, LifeTypes, BulkInv, Ending
<1>5. MarkInv'
  BY <1>0, <1>g DEF LifeInv, LifeTypes, MarkInv
<1>. QED BY <1>1, <1>2, <1>3, <1>4, <1>5 DEF LifeFrame

\* The steps of main that stay in the process, and where they lead.
MainStep(p) ==
  \/ Enter(p) \/ StartLoops(p) \/ StopPolling(p) \/ ShutdownRunner(p) \/ RunnerDrained(p)
  \/ RunnerTimeout(p) \/ LoopsEnded(p) \/ StopServers(p) \/ CloseDatabase(p)
  \/ \E ok \in BOOLEAN : Serve(p, ok)
  \/ ConnectDb(p, TRUE) \/ BuildApp(p, TRUE)

\* The steps of the loops, of the bulk runs and of their handlers.
LoopStep(p) ==
  \/ RemoveProtocol(p) \/ ConfirmBulk(p) \/ StartBulk(p) \/ NextBundle(p) \/ BundleDone(p)
  \/ CancelLoop(p) \/ LoopEnds(p)
  \/ \E l \in Loops : PassBegins(p, l) \/ \E ok \in BOOLEAN : PassEnds(p, l, ok)

\* main goes from one place to the next, and keeps the lock and the database to it.
LEMMA MainFrame ==
  ASSUME LifeInv, NEW p \in Procs, MainStep(p) PROVE LifeFrame'
<1> USE DEF LifeInv, LifeFrame, LifeTypes, LockInv, Opened, Before, Ending, MainTo
<1>1. CASE Enter(p)
  BY <1>1, LifecycleAssumption DEF Enter, InstanceFree
<1>2. CASE StartLoops(p)
  BY <1>2 DEF StartLoops
<1>3. CASE StopPolling(p)
  BY <1>3 DEF StopPolling
<1>4. CASE ShutdownRunner(p)
  BY <1>4 DEF ShutdownRunner
<1>5. CASE RunnerDrained(p)
  BY <1>5 DEF RunnerDrained
<1>6. CASE RunnerTimeout(p)
  BY <1>6 DEF RunnerTimeout
<1>7. CASE LoopsEnded(p)
  BY <1>7 DEF LoopsEnded
<1>8. CASE StopServers(p)
  BY <1>8 DEF StopServers
<1>9. CASE CloseDatabase(p)
  BY <1>9 DEF CloseDatabase
<1>10. ASSUME NEW ok \in BOOLEAN, Serve(p, ok) PROVE LifeFrame'
  BY <1>10 DEF Serve
<1>11. CASE ConnectDb(p, TRUE)
  BY <1>11 DEF ConnectDb
<1>12. CASE BuildApp(p, TRUE)
  <2>1. main' = [main EXCEPT ![p] = "start"] /\ main[p] = "build"
    BY <1>12 DEF BuildApp
  <2>2. UNCHANGED <<flock, dbOpen, loopAt, cancelling, handlers, bulk, lateBulk>>
    BY <1>12 DEF BuildApp
  <2>. QED BY <2>1, <2>2
<1>. QED BY <1>1, <1>2, <1>3, <1>4, <1>5, <1>6, <1>7, <1>8, <1>9, <1>10, <1>11, <1>12 DEF MainStep

\* The loops start together, and main leaves "loops" when the last one has ended.
LEMMA MainLoops ==
  ASSUME LifeInv, NEW p \in Procs, MainStep(p) PROVE LoopInv'
<1> USE DEF LifeInv, LifeFrame, LifeTypes, LoopInv, Before, Ending, MainTo
<1>1. CASE Enter(p) \/ ConnectDb(p, TRUE) \/ BuildApp(p, TRUE)
  BY <1>1 DEF Enter, ConnectDb, BuildApp
<1>2. CASE StartLoops(p)
  BY <1>2 DEF StartLoops
<1>3. CASE StopPolling(p) \/ ShutdownRunner(p) \/ RunnerDrained(p) \/ RunnerTimeout(p)
  <2>1. PICK spot \in {"runner", "drain", "loops"} : main' = [main EXCEPT ![p] = spot]
    BY <1>3 DEF StopPolling, ShutdownRunner, RunnerDrained, RunnerTimeout
  <2>2. main[p] \in {"polling", "runner", "drain"} /\ UNCHANGED <<loopAt, cancelling>>
    BY <1>3 DEF StopPolling, ShutdownRunner, RunnerDrained, RunnerTimeout
  <2>3. cancelling[p] = 0 /\ \A i \in 1 .. Len(LoopOrder) : ~(i < 0)
    BY <2>2, LifecycleAssumption, SMTT(30) DEF NoCancel
  <2>. QED BY <2>1, <2>2, <2>3
<1>4. CASE LoopsEnded(p)
  <2>1. \A l \in Loops : loopAt[p][l] = "off"
    <3>1. SUFFICES ASSUME NEW i \in 1 .. Len(LoopOrder) PROVE loopAt[p][LoopOrder[i]] = "off"
      BY LifecycleAssumption DEF Loops, ToSet
    <3>2. CASE i < cancelling[p]
      BY <1>4, <3>2 DEF LoopsEnded
    <3>3. CASE i = Len(LoopOrder)
      BY <1>4, <3>3 DEF LoopsEnded
    <3>. QED BY <1>4, <3>2, <3>3, LifecycleAssumption DEF LoopsEnded
  <2>. QED BY <1>4, <2>1 DEF LoopsEnded
<1>5. CASE StopServers(p) \/ CloseDatabase(p)
  BY <1>5 DEF StopServers, CloseDatabase
<1>6. ASSUME NEW ok \in BOOLEAN, Serve(p, ok) PROVE LoopInv'
  BY <1>6 DEF Serve
<1>. QED BY <1>1, <1>2, <1>3, <1>4, <1>5, <1>6 DEF MainStep

\* The runner's shutdown waits for the run, or cancels it.
LEMMA MainBulks ==
  ASSUME LifeInv, NEW p \in Procs, MainStep(p) PROVE BulkInv'
<1> USE DEF LifeInv, LifeFrame, LifeTypes, BulkInv, Before, Ending, MainTo
<1>1. CASE Enter(p) \/ ConnectDb(p, TRUE) \/ BuildApp(p, TRUE) \/ StartLoops(p)
  BY <1>1 DEF Enter, ConnectDb, BuildApp, StartLoops
<1>2. CASE StopPolling(p) \/ ShutdownRunner(p)
  BY <1>2 DEF StopPolling, ShutdownRunner
<1>3. CASE RunnerDrained(p)
  BY <1>3 DEF RunnerDrained, Drained
<1>4. CASE RunnerTimeout(p)
  BY <1>4 DEF RunnerTimeout
<1>5. CASE LoopsEnded(p) \/ StopServers(p) \/ CloseDatabase(p)
  BY <1>5 DEF LoopsEnded, StopServers, CloseDatabase
<1>6. ASSUME NEW ok \in BOOLEAN, Serve(p, ok) PROVE BulkInv'
  BY <1>6 DEF Serve
<1>. QED BY <1>1, <1>2, <1>3, <1>4, <1>5, <1>6 DEF MainStep

\* A start marks a protocol removed on a clean slate; a run cancelled by the
\* shutdown is not one cut short by the exit.
LEMMA MainMarks ==
  ASSUME LifeInv, NEW p \in Procs, MainStep(p) PROVE MarkInv' /\ NoBundleCutShort'
<1> USE DEF LifeInv, LifeFrame, LifeTypes, MarkInv, NoBundleCutShort, MainTo
<1>1. CASE Enter(p)
  BY <1>1 DEF Enter, Clean
<1>2. CASE BuildApp(p, TRUE)
  <2>1. marked[p] = Clean /\ marked' = [marked EXCEPT ![p].uninstalled = hostRemoved] /\ halfBuilt' = halfBuilt
    BY <1>2 DEF BuildApp
  <2>2. main' = [main EXCEPT ![p] = "start"]
    BY <1>2 DEF BuildApp
  <2>3. marked'[p].degraded = FALSE /\ DOMAIN marked'[p] = {"degraded", "uninstalled"}
    BY <2>1 DEF Clean
  <2>4. \A q \in Procs : q # p => marked'[q] = marked[q] /\ main'[q] = main[q]
    BY <2>1, <2>2
  <2>. QED BY <2>1, <2>2, <2>3, <2>4
<1>3. CASE MainStep(p) /\ ~Enter(p) /\ ~BuildApp(p, TRUE)
  <2>1. marked' = marked
    BY <1>3 DEF MainStep, StartLoops, StopPolling, ShutdownRunner, RunnerDrained, RunnerTimeout,
                LoopsEnded, StopServers, CloseDatabase, Serve, ConnectDb
  <2>2. halfBuilt' \in {halfBuilt, halfBuilt \cup {"timeout"}}
    <3>1. CASE RunnerTimeout(p)
      BY <3>1 DEF RunnerTimeout
    <3>2. CASE ~RunnerTimeout(p)
      BY <1>3, <3>2 DEF MainStep, StartLoops, StopPolling, ShutdownRunner, RunnerDrained,
                        LoopsEnded, StopServers, CloseDatabase, Serve, ConnectDb
    <3>. QED BY <3>1, <3>2
  <2>3. main'[p] \in {"connect", "build"} => main[p] = "connect"
    <3>1. CASE ConnectDb(p, TRUE)
      BY <3>1 DEF ConnectDb
    <3>2. CASE ~ConnectDb(p, TRUE)
      <4>1. \E spot \in {"serve", "polling", "runner", "drain", "loops", "servers", "database", "session"} :
               main' = [main EXCEPT ![p] = spot]
        BY <1>3, <3>2 DEF MainStep, StartLoops, StopPolling, ShutdownRunner, RunnerDrained, RunnerTimeout,
                          LoopsEnded, StopServers, CloseDatabase, Serve
      <4>. QED BY <4>1
    <3>. QED BY <3>1, <3>2
  <2>4. \A q \in Procs : q # p => main'[q] = main[q]
    BY <1>3 DEF MainStep, StartLoops, StopPolling, ShutdownRunner, RunnerDrained, RunnerTimeout,
                LoopsEnded, StopServers, CloseDatabase, Serve, ConnectDb
  <2>. QED BY <2>1, <2>2, <2>3, <2>4
<1>. QED BY <1>1, <1>2, <1>3

\* No step of a loop or a run moves main, the lock or the connection.
LEMMA LoopStepFrame ==
  ASSUME LifeInv, NEW p \in Procs, LoopStep(p)
  PROVE  LifeFrame' /\ UNCHANGED <<main, flock, dbOpen, halfBuilt>>
<1>1. UNCHANGED <<main, flock, dbOpen, halfBuilt>>
  BY DEF LoopStep, RemoveProtocol, ConfirmBulk, StartBulk, NextBundle, BundleDone, CancelLoop,
         LoopEnds, PassBegins, PassEnds
<1> USE DEF LifeInv, LifeFrame, LifeTypes
<1>2. handlers' \in SUBSET Procs
  BY DEF LoopStep, RemoveProtocol, ConfirmBulk, StartBulk, NextBundle, BundleDone, CancelLoop,
         LoopEnds, PassBegins, PassEnds
<1>3. cancelling' \in [Procs -> 0 .. Len(LoopOrder)]
  <2>1. CASE CancelLoop(p)
    BY <2>1, LifecycleAssumption DEF CancelLoop
  <2>2. CASE ~CancelLoop(p)
    BY <2>2 DEF LoopStep, RemoveProtocol, ConfirmBulk, StartBulk, NextBundle, BundleDone,
                LoopEnds, PassBegins, PassEnds
  <2>. QED BY <2>1, <2>2
<1>4. bulk' \in [Procs -> {"none", "bundle", "between"}]
  <2>1. \E b \in {"none", "bundle", "between"} : bulk' \in {bulk, [bulk EXCEPT ![p] = b]}
    BY DEF LoopStep, RemoveProtocol, ConfirmBulk, StartBulk, NextBundle, BundleDone, CancelLoop,
           LoopEnds, PassBegins, PassEnds
  <2>. QED BY <2>1
<1>5. DOMAIN lateBulk' = Procs
  <2>1. CASE StartBulk(p)
    BY <2>1 DEF StartBulk
  <2>2. CASE ~StartBulk(p)
    BY <2>2 DEF LoopStep, RemoveProtocol, ConfirmBulk, NextBundle, BundleDone, CancelLoop,
                LoopEnds, PassBegins, PassEnds
  <2>. QED BY <2>1, <2>2
<1>6. loopAt' \in [Procs -> [Loops -> {"off", "work", "sleep"}]]
  <2>1. CASE LoopEnds(p)
    <3>1. PICK l : loopAt' = [loopAt EXCEPT ![p] = [loopAt[p] EXCEPT ![l] = "off"]]
      BY <2>1 DEF LoopEnds
    <3>2. [loopAt[p] EXCEPT ![l] = "off"] \in [Loops -> {"off", "work", "sleep"}]
      OBVIOUS
    <3>. QED BY <3>1, <3>2
  <2>2. ASSUME NEW l \in Loops, PassBegins(p, l) PROVE loopAt' \in [Procs -> [Loops -> {"off", "work", "sleep"}]]
    <3>1. loopAt' \in {loopAt, [loopAt EXCEPT ![p] = [loopAt[p] EXCEPT ![l] = "work"]]}
      BY <2>2 DEF PassBegins
    <3>2. [loopAt[p] EXCEPT ![l] = "work"] \in [Loops -> {"off", "work", "sleep"}]
      OBVIOUS
    <3>. QED BY <3>1, <3>2
  <2>3. ASSUME NEW l \in Loops, NEW ok \in BOOLEAN, PassEnds(p, l, ok)
        PROVE  loopAt' \in [Procs -> [Loops -> {"off", "work", "sleep"}]]
    <3>1. loopAt' = [loopAt EXCEPT ![p] = [loopAt[p] EXCEPT ![l] = "sleep"]]
      BY <2>3 DEF PassEnds
    <3>2. [loopAt[p] EXCEPT ![l] = "sleep"] \in [Loops -> {"off", "work", "sleep"}]
      OBVIOUS
    <3>. QED BY <3>1, <3>2
  <2>4. CASE RemoveProtocol(p) \/ ConfirmBulk(p) \/ StartBulk(p) \/ NextBundle(p) \/ BundleDone(p) \/ CancelLoop(p)
    BY <2>4 DEF RemoveProtocol, ConfirmBulk, StartBulk, NextBundle, BundleDone, CancelLoop
  <2>. QED BY <2>1, <2>2, <2>3, <2>4 DEF LoopStep
<1>. QED BY <1>1, <1>2, <1>3, <1>4, <1>5, <1>6 DEF LockInv

\* A loop that has ended does not begin another pass, and the next one is
\* cancelled when the one before it has ended.
LEMMA LoopStepLoops ==
  ASSUME LifeInv, NEW p \in Procs, LoopStep(p) PROVE LoopInv'
<1>0. LifeTypes /\ LoopInv /\ LifeTypes' /\ main' = main
  BY LoopStepFrame DEF LifeInv, LifeFrame
<1>1. CASE CancelLoop(p)
  <2>1. /\ main[p] = "loops" /\ loopAt' = loopAt /\ cancelling' = [cancelling EXCEPT ![p] = @ + 1]
        /\ cancelling[p] # 0 => loopAt[p][LoopOrder[cancelling[p]]] = "off"
    BY <1>1 DEF CancelLoop, NoCancel
  <2>2. ASSUME NEW i \in 1 .. Len(LoopOrder), i < cancelling'[p] PROVE loopAt[p][LoopOrder[i]] = "off"
    <3>1. i < cancelling[p] \/ i = cancelling[p]
      BY <1>0, <2>1, <2>2, LifecycleAssumption DEF LifeTypes
    <3>2. cancelling[p] # 0
      BY <1>0, <3>1, LifecycleAssumption DEF LifeTypes
    <3>. QED BY <1>0, <2>1, <3>1, <3>2 DEF LoopInv
  <2>3. \A q \in Procs : q # p => cancelling'[q] = cancelling[q]
    BY <2>1, <1>0 DEF LifeTypes
  <2>. QED BY <1>0, <2>1, <2>2, <2>3 DEF LoopInv, Ending, Before
<1>2. CASE LoopEnds(p)
  <2>1. main[p] = "loops" /\ cancelling' = cancelling
    BY <1>2 DEF LoopEnds
  <2>2. \A q \in Procs, l \in Loops : loopAt'[q][l] \in {loopAt[q][l], "off"}
    BY <1>2, <1>0 DEF LoopEnds, LifeTypes
  <2>3. \A i \in 1 .. Len(LoopOrder) : LoopOrder[i] \in Loops
    BY LifecycleAssumption DEF Loops
  <2>. QED BY <1>0, <2>1, <2>2, <2>3 DEF LoopInv
<1>3. ASSUME NEW l \in Loops, PassBegins(p, l) \/ \E ok \in BOOLEAN : PassEnds(p, l, ok) PROVE LoopInv'
  <2>1. cancelling' = cancelling /\ loopAt[p][l] # "off"
    BY <1>3 DEF PassBegins, PassEnds
  <2>2. \A q \in Procs, m \in Loops : loopAt[q][m] = "off" => loopAt'[q][m] = "off"
    BY <1>3, <1>0, <2>1 DEF PassBegins, PassEnds, LifeTypes
  <2>3. \A i \in 1 .. Len(LoopOrder) : LoopOrder[i] \in Loops
    BY LifecycleAssumption DEF Loops
  <2>. QED BY <1>0, <2>1, <2>2, <2>3 DEF LoopInv
<1>4. CASE RemoveProtocol(p) \/ ConfirmBulk(p) \/ StartBulk(p) \/ NextBundle(p) \/ BundleDone(p)
  <2>1. UNCHANGED <<loopAt, cancelling>>
    BY <1>4 DEF RemoveProtocol, ConfirmBulk, StartBulk, NextBundle, BundleDone
  <2>. QED BY <1>0, <2>1 DEF LoopInv
<1>. QED BY <1>1, <1>2, <1>3, <1>4 DEF LoopStep

\* A run that begins beyond the runner's shutdown is known to be late.
LEMMA LoopStepBulks ==
  ASSUME LifeInv, NEW p \in Procs, LoopStep(p) PROVE BulkInv'
<1>0. LifeTypes /\ BulkInv /\ main' = main
  BY LoopStepFrame DEF LifeInv, LifeFrame
<1>1. CASE StartBulk(p)
  <2>1. p \in handlers /\ handlers' = handlers \ {p} /\ main[p] \notin Before \cup {"serve"}
    BY <1>1, <1>0 DEF StartBulk, BulkInv
  <2>2. CASE bulk[p] = "none"
    <3>1. /\ bulk' = [bulk EXCEPT ![p] = "between"]
          /\ lateBulk' = [lateBulk EXCEPT ![p] = main[p] \in Closing \ {"runner"}]
      BY <1>1, <2>2 DEF StartBulk
    <3>2. main[p] \in Ending => lateBulk'[p]
      BY <3>1, <1>0 DEF Ending, Closing, LifeTypes
    <3>3. \A q \in Procs : q # p => bulk'[q] = bulk[q] /\ lateBulk'[q] = lateBulk[q]
      BY <3>1, <1>0 DEF LifeTypes
    <3>. QED BY <1>0, <2>1, <3>2, <3>3 DEF BulkInv
  <2>3. CASE bulk[p] # "none"
    <3>1. UNCHANGED <<bulk, lateBulk>>
      BY <1>1, <2>3 DEF StartBulk
    <3>. QED BY <1>0, <2>1, <3>1 DEF BulkInv
  <2>. QED BY <2>2, <2>3
<1>2. CASE NextBundle(p) \/ BundleDone(p)
  <2>1. UNCHANGED <<handlers, lateBulk>> /\ bulk[p] # "none"
    BY <1>2 DEF NextBundle, BundleDone
  <2>2. \A q \in Procs : q # p => bulk'[q] = bulk[q]
    BY <1>2, <1>0 DEF NextBundle, BundleDone, LifeTypes
  <2>. QED BY <1>0, <2>1, <2>2 DEF BulkInv
<1>3. CASE ConfirmBulk(p)
  <2>1. main[p] = "polling" /\ handlers' = handlers \cup {p} /\ UNCHANGED <<bulk, lateBulk>>
    BY <1>3 DEF ConfirmBulk
  <2>. QED BY <1>0, <2>1 DEF BulkInv, Before, Ending
<1>4. CASE LoopStep(p) /\ ~StartBulk(p) /\ ~NextBundle(p) /\ ~BundleDone(p) /\ ~ConfirmBulk(p)
  <2>1. UNCHANGED <<handlers, bulk, lateBulk>>
    BY <1>4 DEF LoopStep, RemoveProtocol, CancelLoop, LoopEnds, PassBegins, PassEnds
  <2>. QED BY <1>0, <2>1 DEF BulkInv
<1>. QED BY <1>1, <1>2, <1>3, <1>4

\* A probe that was in flight when its protocol was removed does not mark it.
LEMMA LoopStepMarks ==
  ASSUME LifeInv, NEW p \in Procs, LoopStep(p) PROVE MarkInv'
<1>0. LifeTypes /\ MarkInv /\ LoopInv /\ main' = main
  BY LoopStepFrame DEF LifeInv, LifeFrame
<1>1. CASE marked' = marked
  BY <1>0, <1>1 DEF MarkInv
<1>2. CASE RemoveProtocol(p)
  <2>1. /\ main[p] = "polling"
        /\ marked' = [marked EXCEPT ![p] = [degraded |-> FALSE, uninstalled |-> TRUE]]
    BY <1>2 DEF RemoveProtocol
  <2>. QED BY <1>0, <2>1 DEF MarkInv
<1>3. ASSUME NEW l \in Loops, PassBegins(p, l) PROVE MarkInv'
  <2>1. marked' \in {marked, [marked EXCEPT ![p] = [degraded |-> FALSE, uninstalled |-> TRUE]]}
    BY <1>3 DEF PassBegins
  <2>2. main[p] \notin {"connect", "build"}
    BY <1>0, <1>3 DEF PassBegins, LoopInv, Before
  <2>. QED BY <1>0, <2>1, <2>2 DEF MarkInv
<1>4. ASSUME NEW l \in Loops, NEW ok \in BOOLEAN, PassEnds(p, l, ok) PROVE MarkInv'
  <2>1. main[p] \notin {"connect", "build"}
    BY <1>0, <1>4 DEF PassEnds, LoopInv, Before
  <2>2. \A q \in Procs : q # p => marked'[q] = marked[q]
    BY <1>0, <1>4 DEF PassEnds, MarkInv
  <2>3. DOMAIN marked' = Procs
    BY <1>0, <1>4 DEF PassEnds, MarkInv
  <2>4. \/ marked'[p] = marked[p]
        \/ marked'[p] = [marked[p] EXCEPT !.degraded = FALSE]
        \/ ~marked[p].uninstalled /\ marked'[p] = [marked[p] EXCEPT !.degraded = TRUE]
    BY <1>0, <1>4 DEF PassEnds, MarkInv, MarkDegraded
  <2>5. DOMAIN marked'[p] = {"degraded", "uninstalled"} /\ ~(marked'[p].degraded /\ marked'[p].uninstalled)
    BY <1>0, <2>4 DEF MarkInv
  <2>. QED BY <1>0, <2>1, <2>2, <2>3, <2>5 DEF MarkInv
<1>. QED BY <1>1, <1>2, <1>3, <1>4
     DEF LoopStep, ConfirmBulk, StartBulk, NextBundle, BundleDone, CancelLoop, LoopEnds

\* Only a late run is abandoned by the exit: the others ended before the loops did.
LEMMA ExitCutsNothing ==
  ASSUME LifeInv, NEW p \in Procs,
         Exit(p) \/ KillProcess(p) \/ ConnectDb(p, FALSE) \/ BuildApp(p, FALSE)
  PROVE  ProcessGone(p) /\ NoBundleCutShort'
<1>1. ProcessGone(p)
  BY DEF Exit, KillProcess, ConnectDb, BuildApp
<1>2. "exit" \notin halfBuilt'
  <2>1. CASE Exit(p)
    <3>1. main[p] = "session" /\ (bulk[p] = "bundle" => lateBulk[p])
      BY <2>1 DEF Exit, LifeInv, BulkInv, Ending
    <3>2. halfBuilt' \in {halfBuilt, halfBuilt \cup {"late"}}
      BY <2>1, <3>1 DEF Exit
    <3>. QED BY <3>2 DEF LifeInv, NoBundleCutShort
  <2>2. CASE ~Exit(p)
    BY <2>2 DEF KillProcess, ConnectDb, BuildApp, LifeInv, NoBundleCutShort
  <2>. QED BY <2>1, <2>2
<1>. QED BY <1>1, <1>2 DEF NoBundleCutShort

\* Every step keeps the invariant.
LEMMA LifeStepKeeps == ASSUME LifeInv, [LifeNext]_lifeVars PROVE LifeInv'
<1>1. ASSUME NEW p \in Procs, MainStep(p) PROVE LifeInv'
  BY <1>1, MainFrame, MainLoops, MainBulks, MainMarks DEF LifeInv
<1>2. ASSUME NEW p \in Procs, LoopStep(p) PROVE LifeInv'
  <2>1. NoBundleCutShort'
    BY <1>2, LoopStepFrame DEF LifeInv, NoBundleCutShort
  <2>. QED BY <1>2, <2>1, LoopStepFrame, LoopStepLoops, LoopStepBulks, LoopStepMarks DEF LifeInv
<1>3. ASSUME NEW p \in Procs, Exit(p) \/ KillProcess(p) \/ ConnectDb(p, FALSE) \/ BuildApp(p, FALSE)
      PROVE  LifeInv'
  <2>1. ProcessGone(p) /\ NoBundleCutShort'
    BY <1>3, ExitCutsNothing
  <2>. QED BY <2>1, GoneKeeps DEF LifeInv
<1>4. CASE UNCHANGED lifeVars
  BY <1>4 DEF lifeVars, LifeInv, LifeFrame, LifeTypes, LockInv, LoopInv, BulkInv, MarkInv, NoBundleCutShort
<1>5. LifeNext => \E p \in Procs : MainStep(p) \/ LoopStep(p) \/ Exit(p) \/ KillProcess(p)
                                   \/ ConnectDb(p, FALSE) \/ BuildApp(p, FALSE)
  BY DEF LifeNext, MainStep, LoopStep
<1>. QED BY <1>1, <1>2, <1>3, <1>4, <1>5

\* However two processes start, stop and die beside each other: the database is
\* open in one of them at most, nothing main started uses it once it is closed,
\* no bundle is cut short by the exit but one begun after the shutdown had looked,
\* and a removed protocol is never reported degraded (main.py, SingleInstanceLock,
\* ReconcileRunner.shutdown, BackendHealth.mark_degraded).
THEOREM Shutdown == LifeSpec => []ShutdownIsOrderly
<1>1. LifeInit => LifeInv
  BY LifeStarts
<1>2. LifeInv /\ [LifeNext]_lifeVars => LifeInv'
  BY LifeStepKeeps
<1>3. LifeInv => ShutdownIsOrderly
  <2>1. ASSUME LifeInv PROVE DatabaseOutlivesItsUsers
    <3>1. \A p, q \in dbOpen : p = q
      BY <2>1 DEF LifeInv, LifeFrame, LockInv, Opened
    <3>2. ASSUME NEW p \in Procs \ dbOpen PROVE loopAt[p] = AllOff /\ (bulk[p] # "none" => lateBulk[p])
      <4>1. main[p] \in {"off", "connect", "session"}
        BY <2>1, <3>2 DEF LifeInv, LifeFrame, LifeTypes, LockInv, Opened, Before, Ending
      <4>2. \A l \in Loops : loopAt[p][l] = "off"
        BY <2>1, <4>1 DEF LifeInv, LoopInv, Before, Ending
      <4>3. loopAt[p] = AllOff
        BY <2>1, <4>2 DEF LifeInv, LifeFrame, LifeTypes, AllOff
      <4>. QED BY <2>1, <4>1, <4>3 DEF LifeInv, BulkInv, Before, Ending
    <3>. QED BY <3>1, <3>2 DEF DatabaseOutlivesItsUsers
  <2>. QED BY <2>1 DEF LifeInv, MarkInv, ShutdownIsOrderly, RemovedIsNotDegraded
<1>. QED BY <1>1, <1>2, <1>3, PTL DEF LifeSpec

-----------------------------------------------------------------------------
(* The status panel                                                        *)

ViewPcs == {"off", "ended", "row", "render", "online", "lock", "poll", "store", "edit", "sleep"}
ViewState == [kind : {"none", "open", "toggle", "loop", "done"}, panel : Panels \cup {""}, pc : ViewPcs,
              want : BOOLEAN, cancelled : BOOLEAN]

\* A view that was never started is off, one that is over has ended.
ViewTypes ==
  /\ views \in [ViewIds -> ViewState] /\ registry \in [Panels -> Nat]
  /\ \A v \in ViewIds : /\ views[v].kind = "none" => views[v].pc = "off"
                        /\ views[v].kind = "done" => views[v].pc = "ended"
                        /\ views[v].kind \in {"open", "toggle", "loop"} => views[v].panel \in Panels

\* A view takes one more step: nothing but its place changes.
LEMMA ViewMoves ==
  ASSUME ViewTypes, NEW v \in ViewIds, views[v].kind \notin {"none", "done"}, NEW spot \in ViewPcs, ViewAt(v, spot), registry' = registry
  PROVE  /\ ViewTypes'
         /\ views'[v].pc = spot /\ views'[v].kind = views[v].kind /\ views'[v].panel = views[v].panel
         /\ views'[v].cancelled = views[v].cancelled
         /\ \A u \in ViewIds : u # v => views'[u] = views[u]
<1>1. PICK w : w = [views[v] EXCEPT !.pc = spot]
  OBVIOUS
<1>2. views[v] \in ViewState
  BY DEF ViewTypes
<1>3. w \in ViewState /\ w.pc = spot /\ w.kind = views[v].kind /\ w.panel = views[v].panel /\ w.cancelled = views[v].cancelled
  BY <1>1, <1>2 DEF ViewState
<1>4. views' = [views EXCEPT ![v] = w]
  BY <1>1 DEF ViewAt
<1>5. views'[v] = w /\ \A u \in ViewIds : u # v => views'[u] = views[u]
  BY <1>4 DEF ViewTypes
<1>6. ViewTypes'
  BY <1>3, <1>4, <1>5 DEF ViewTypes
<1>. QED BY <1>3, <1>5, <1>6

\* A view that is over.
LEMMA ViewOver == EndedView \in ViewState /\ EndedView.kind = "done" /\ EndedView.pc = "ended"
BY DEF EndedView, NoView, ViewState, ViewPcs

\* A cancellation marks the loop of the message, and changes nothing else.
LEMMA Cancels ==
  ASSUME ViewTypes, NEW p \in Panels
  PROVE  /\ CancelIn(views, p) \in [ViewIds -> ViewState]
         /\ \A u \in ViewIds : /\ CancelIn(views, p)[u].pc = views[u].pc /\ CancelIn(views, p)[u].kind = views[u].kind
                               /\ CancelIn(views, p)[u].panel = views[u].panel
                               /\ u = registry[p] => CancelIn(views, p)[u].cancelled
                               /\ u # registry[p] => CancelIn(views, p)[u] = views[u]
<1>1. CASE registry[p] = 0
  BY <1>1 DEF CancelIn, ViewTypes, ViewIds
<1>2. CASE registry[p] # 0
  <2>1. PICK r : r = registry[p]
    OBVIOUS
  <2>2. PICK w : w = [views[r] EXCEPT !.cancelled = TRUE]
    OBVIOUS
  <2>3. PICK g : g = [views EXCEPT ![r] = w]
    OBVIOUS
  <2>4. CancelIn(views, p) = g
    BY <1>2, <2>1, <2>2, <2>3 DEF CancelIn
  <2>5. r \in ViewIds => w \in ViewState /\ w.pc = views[r].pc /\ w.kind = views[r].kind /\ w.panel = views[r].panel /\ w.cancelled
    <3>1. r \in ViewIds => views[r] \in ViewState
      BY DEF ViewTypes
    <3>. QED BY <2>2, <3>1 DEF ViewState
  <2>6. g \in [ViewIds -> ViewState] /\ \A u \in ViewIds : g[u] = IF u = r THEN w ELSE views[u]
    BY <2>3, <2>5 DEF ViewTypes
  <2>. QED BY <2>1, <2>4, <2>5, <2>6
<1>. QED BY <1>1, <1>2

LoopsInv == ViewTypes /\ OneLoopPerPanel

\* What the others do leaves the loops alone.
LEMMA LoopsMove ==
  ASSUME LoopsInv, NEW v \in StartedViews, NEW from \in ViewPcs \ {"off", "ended"}, NEW to \in ViewPcs,
         ViewIsAt(v, from), ViewAt(v, to), registry' = registry
  PROVE  LoopsInv'
<1>0. ViewTypes /\ OneLoopPerPanel /\ v \in ViewIds /\ views[v].kind \notin {"none", "done"}
  BY DEF LoopsInv, StartedViews, ViewIsAt, ViewTypes
<1>1. /\ ViewTypes'
      /\ views'[v].kind = views[v].kind /\ views'[v].panel = views[v].panel /\ views'[v].cancelled = views[v].cancelled
      /\ \A u \in ViewIds : u # v => views'[u] = views[u]
  BY <1>0, ViewMoves
<1>2. ASSUME NEW u \in ViewIds, views'[u].kind = "loop", LiveView(u)'
      PROVE  registry'[views'[u].panel] = u
  <2>1. CASE u = v
    BY <1>0, <1>1, <1>2, <2>1 DEF OneLoopPerPanel, LiveView, ViewIsAt, StartedViews
  <2>2. CASE u # v
    BY <1>0, <1>1, <1>2, <2>2 DEF OneLoopPerPanel, LiveView, StartedViews
  <2>. QED BY <2>1, <2>2
<1>3. OneLoopPerPanel'
  BY <1>2 DEF OneLoopPerPanel, StartedViews
<1>. QED BY <1>1, <1>3 DEF LoopsInv

\* A handler begins, or ends without a loop.
LEMMA LoopsPut ==
  ASSUME LoopsInv, NEW v \in ViewIds, NEW w \in ViewState, w.kind \in {"open", "toggle", "done"},
         w.kind \in {"open", "toggle"} => w.panel \in Panels, w.kind = "done" => w.pc = "ended",
         views' = [views EXCEPT ![v] = w],
         \/ registry' = registry
         \/ views[v].panel \in Panels /\ registry' = [registry EXCEPT ![views[v].panel] = IF @ = v THEN 0 ELSE @]
  PROVE  LoopsInv'
<1>0. ViewTypes /\ OneLoopPerPanel
  BY DEF LoopsInv
<1>1. registry' \in [Panels -> Nat]
      /\ \A p \in Panels : registry'[p] # registry[p] => registry[p] = v
  BY <1>0 DEF ViewTypes
<1>2. /\ views' \in [ViewIds -> ViewState] /\ views'[v] = w /\ \A u \in ViewIds : u # v => views'[u] = views[u]
      /\ \A u \in ViewIds : /\ views'[u].kind = "none" => views'[u].pc = "off"
                            /\ views'[u].kind = "done" => views'[u].pc = "ended"
                            /\ views'[u].kind \in {"open", "toggle", "loop"} => views'[u].panel \in Panels
  <2>1. w.kind # "none" /\ (w.kind \in {"open", "toggle", "loop"} => w.panel \in Panels)
    OBVIOUS
  <2>2. PICK g : g = views'
    OBVIOUS
  <2>3. g = [views EXCEPT ![v] = w]
    BY <2>2
  <2>4. /\ g \in [ViewIds -> ViewState] /\ g[v] = w /\ \A u \in ViewIds : u # v => g[u] = views[u]
        /\ \A u \in ViewIds : /\ g[u].kind = "none" => g[u].pc = "off"
                              /\ g[u].kind = "done" => g[u].pc = "ended"
                              /\ g[u].kind \in {"open", "toggle", "loop"} => g[u].panel \in Panels
    <3>1. g \in [ViewIds -> ViewState] /\ g[v] = w /\ \A u \in ViewIds : u # v => g[u] = views[u]
      BY <1>0, <2>3 DEF ViewTypes
    <3>. QED BY <1>0, <2>1, <3>1 DEF ViewTypes
  <2>. QED BY <2>2, <2>4
<1>3. ViewTypes'
  BY <1>1, <1>2 DEF ViewTypes
<1>4. ASSUME NEW u \in ViewIds, views'[u].kind = "loop", LiveView(u)'
      PROVE  registry'[views'[u].panel] = u
  <2>1. u # v /\ views'[u] = views[u]
    BY <1>2, <1>4
  <2>2. registry[views[u].panel] = u /\ views[u].panel \in Panels
    BY <1>0, <1>4, <2>1 DEF OneLoopPerPanel, LiveView, StartedViews, ViewTypes
  <2>. QED BY <1>1, <2>1, <2>2
<1>5. OneLoopPerPanel'
  BY <1>4 DEF OneLoopPerPanel, StartedViews
<1>. QED BY <1>3, <1>5 DEF LoopsInv

\* The loop a handler starts takes the place of the one it cancels.
LEMMA LoopsStart ==
  ASSUME LoopsInv, NEW v \in StartedViews, StartRefresh(v)
  PROVE  LoopsInv'
<1>0. ViewTypes /\ OneLoopPerPanel /\ v \in ViewIds /\ views[v].kind # "none"
  BY DEF LoopsInv, StartedViews
<1>p. PICK p : p = views[v].panel
  OBVIOUS
<1>1. PICK new \in FreeView :
        /\ p = views[v].panel /\ ViewIsAt(v, "edit") /\ views[v].kind # "loop"
        /\ views' = [CancelIn(views, p) EXCEPT ![v] = EndedView, ![new] = NewView("loop", p, "sleep", FALSE)]
        /\ registry' = [registry EXCEPT ![p] = new]
  BY <1>p DEF StartRefresh
<1>2. new \in ViewIds /\ views[new].kind = "none" /\ new # v /\ new \in Nat
  BY <1>0, <1>1, StatusAssumption DEF FreeView, ViewIds
<1>3. p \in Panels
  BY <1>0, <1>1 DEF ViewTypes, ViewState, ViewIsAt
<1>4. PICK g, w : g = CancelIn(views, p) /\ w = NewView("loop", p, "sleep", FALSE)
  OBVIOUS
<1>5. /\ g \in [ViewIds -> ViewState]
      /\ \A u \in ViewIds : /\ g[u].pc = views[u].pc /\ g[u].kind = views[u].kind /\ g[u].panel = views[u].panel
                            /\ u = registry[p] => g[u].cancelled
                            /\ u # registry[p] => g[u] = views[u]
  BY <1>0, <1>3, <1>4, Cancels
<1>6. w \in ViewState /\ w.kind = "loop" /\ w.panel = p /\ w.pc = "sleep"
  <2>2. \A q \in Panels : /\ NewView("loop", q, "sleep", FALSE) \in ViewState
                          /\ NewView("loop", q, "sleep", FALSE).kind = "loop"
                          /\ NewView("loop", q, "sleep", FALSE).panel = q
                          /\ NewView("loop", q, "sleep", FALSE).pc = "sleep"
    BY DEF NewView, ViewState, ViewPcs
  <2>. QED BY <1>3, <1>4, <2>2
<1>7. /\ views' \in [ViewIds -> ViewState] /\ views'[v] = EndedView /\ views'[new] = w
      /\ \A u \in ViewIds : u \notin {v, new} => views'[u] = g[u]
  <2>1. views' = [[g EXCEPT ![v] = EndedView] EXCEPT ![new] = w]
    BY <1>1, <1>4
  <2>. QED BY <1>0, <1>2, <1>5, <1>6, <2>1, ViewOver
<1>8. registry' \in [Panels -> Nat] /\ registry'[p] = new /\ \A q \in Panels : q # p => registry'[q] = registry[q]
  BY <1>0, <1>1, <1>2, <1>3 DEF ViewTypes
<1>9. ViewTypes'
  <2>1. ASSUME NEW u \in ViewIds
        PROVE  /\ views'[u].kind = "none" => views'[u].pc = "off"
               /\ views'[u].kind = "done" => views'[u].pc = "ended"
               /\ views'[u].kind \in {"open", "toggle", "loop"} => views'[u].panel \in Panels
    <3>1. CASE u = v
      BY <1>7, <3>1, ViewOver
    <3>2. CASE u = new
      BY <1>3, <1>6, <1>7, <3>2
    <3>3. CASE u \notin {v, new}
      BY <1>0, <1>5, <1>7, <3>3 DEF ViewTypes
    <3>. QED BY <3>1, <3>2, <3>3
  <2>. QED BY <1>7, <1>8, <2>1 DEF ViewTypes
<1>10. ASSUME NEW u \in ViewIds, views'[u].kind = "loop", LiveView(u)'
       PROVE  registry'[views'[u].panel] = u
  <2>1. CASE u = v
    BY <1>7, <1>10, <2>1, ViewOver
  <2>2. CASE u = new
    BY <1>6, <1>7, <1>8, <2>2
  <2>3. CASE u \notin {v, new}
    <3>1. views'[u] = g[u] /\ ~g[u].cancelled /\ g[u].pc \notin {"off", "ended"} /\ g[u].kind = "loop"
      BY <1>7, <1>10, <2>3 DEF LiveView
    <3>2. u # registry[p] /\ g[u] = views[u]
      BY <1>5, <3>1
    <3>3. registry[views[u].panel] = u /\ views[u].panel \in Panels
      BY <1>0, <3>1, <3>2 DEF OneLoopPerPanel, StartedViews, LiveView, ViewTypes
    <3>. QED BY <1>8, <3>1, <3>2, <3>3
  <2>. QED BY <2>1, <2>2, <2>3
<1>11. OneLoopPerPanel'
  BY <1>10 DEF OneLoopPerPanel, StartedViews
<1>. QED BY <1>9, <1>11 DEF LoopsInv

\* Leaving the screen cancels the loop it forgets.
LEMMA LoopsLeft ==
  ASSUME LoopsInv, NEW p \in Panels, NavigateAway(p)
  PROVE  LoopsInv'
<1>0. ViewTypes /\ OneLoopPerPanel
  BY DEF LoopsInv
<1>1. views' = CancelIn(views, p) /\ registry' = [registry EXCEPT ![p] = 0]
  BY DEF NavigateAway
<1>2. /\ views' \in [ViewIds -> ViewState]
      /\ \A u \in ViewIds : /\ views'[u].pc = views[u].pc /\ views'[u].kind = views[u].kind /\ views'[u].panel = views[u].panel
                            /\ u = registry[p] => views'[u].cancelled
                            /\ u # registry[p] => views'[u] = views[u]
  BY <1>0, <1>1, Cancels
<1>3. registry' \in [Panels -> Nat] /\ \A q \in Panels : q # p => registry'[q] = registry[q]
  BY <1>0, <1>1 DEF ViewTypes
<1>4. ViewTypes'
  BY <1>0, <1>2, <1>3 DEF ViewTypes
<1>5. ASSUME NEW u \in ViewIds, views'[u].kind = "loop", LiveView(u)'
      PROVE  registry'[views'[u].panel] = u
  <2>1. u # registry[p] /\ views'[u] = views[u]
    BY <1>2, <1>5 DEF LiveView
  <2>2. registry[views[u].panel] = u /\ views[u].panel \in Panels
    BY <1>0, <1>5, <2>1 DEF OneLoopPerPanel, StartedViews, LiveView, ViewTypes
  <2>. QED BY <1>3, <2>1, <2>2
<1>6. OneLoopPerPanel'
  BY <1>5 DEF OneLoopPerPanel, StartedViews
<1>. QED BY <1>4, <1>6 DEF LoopsInv

\* At the start no view is open.
LEMMA LoopsStarts == StatusInit => LoopsInv
<1> SUFFICES ASSUME StatusInit PROVE LoopsInv
  OBVIOUS
<1>1. NoView \in ViewState /\ NoView.kind = "none" /\ NoView.pc = "off"
  BY DEF NoView, ViewState, ViewPcs
<1>2. ViewTypes
  BY <1>1 DEF StatusInit, ViewTypes
<1>3. OneLoopPerPanel
  BY <1>1 DEF StatusInit, OneLoopPerPanel, StartedViews
<1>. QED BY <1>2, <1>3 DEF LoopsInv

\* Every step keeps one loop per panel.
LEMMA LoopsStep == LoopsInv /\ [StatusNext]_statusVars => LoopsInv'
<1> SUFFICES ASSUME LoopsInv, [StatusNext]_statusVars PROVE LoopsInv'
  OBVIOUS
<1>0. ViewTypes
  BY DEF LoopsInv
<1>1. ASSUME UNCHANGED <<views, registry>> PROVE LoopsInv'
  BY <1>1 DEF LoopsInv, ViewTypes, OneLoopPerPanel, StartedViews, LiveView
<1>2. ASSUME NEW p \in Panels, OpenStatus(p) \/ ToggleDetailed(p) PROVE LoopsInv'
  <2>1. PICK v \in FreeView, kind \in {"open", "toggle"}, spot \in ViewPcs, want \in BOOLEAN :
          views' = [views EXCEPT ![v] = NewView(kind, p, spot, want)] /\ registry' = registry
    BY <1>2 DEF OpenStatus, ToggleDetailed, ViewPcs
  <2>2. v \in ViewIds
    BY DEF FreeView
  <2>3. PICK w : w = NewView(kind, p, spot, want)
    OBVIOUS
  <2>4. w \in ViewState /\ w.kind = kind /\ w.panel = p
    BY <2>1, <2>3 DEF NewView, ViewState
  <2>. QED BY <2>1, <2>2, <2>3, <2>4, LoopsPut
<1>3. ASSUME NEW v \in StartedViews,
             \/ ToggleSet(v) \/ RenderStatus(v) \/ OnlineCached(v) \/ OnlineWait(v) \/ OnlineLocked(v)
             \/ StoreOnline(v) \/ RefreshAgain(v) \/ \E ok \in BOOLEAN : CountIncreased(v, ok)
      PROVE  LoopsInv'
  <2>1. PICK from \in ViewPcs \ {"off", "ended"}, to \in ViewPcs :
          ViewIsAt(v, from) /\ ViewAt(v, to) /\ registry' = registry
    BY <1>3 DEF ToggleSet, RenderStatus, OnlineCached, OnlineWait, OnlineLocked, StoreOnline, RefreshAgain,
                CountIncreased, AfterLock, ViewPcs
  <2>. QED BY <2>1, LoopsMove
<1>4. ASSUME NEW v \in StartedViews, HandlerFails(v) \/ RefreshEnds(v) PROVE LoopsInv'
  <2>1. v \in ViewIds
    BY DEF StartedViews
  <2>2. /\ views' = [views EXCEPT ![v] = EndedView]
        /\ \/ registry' = registry
           \/ views[v].panel \in Panels /\ registry' = [registry EXCEPT ![views[v].panel] = IF @ = v THEN 0 ELSE @]
    BY <1>0, <1>4, <2>1 DEF HandlerFails, RefreshEnds, Forget, ViewTypes
  <2>. QED BY <2>1, <2>2, ViewOver, LoopsPut
<1>5. ASSUME NEW v \in StartedViews, StartRefresh(v) PROVE LoopsInv'
  BY <1>5, LoopsStart
<1>6. ASSUME NEW p \in Panels, NavigateAway(p) PROVE LoopsInv'
  BY <1>6, LoopsLeft
<1>7. CASE UNCHANGED statusVars
  BY <1>1, <1>7 DEF statusVars
<1>8. ASSUME NEW readable \in BOOLEAN, Sample(readable) PROVE LoopsInv'
  BY <1>1, <1>8 DEF Sample
<1>. QED BY <1>2, <1>3, <1>4, <1>5, <1>6, <1>7, <1>8 DEF StatusNext

OnlineTypes ==
  /\ second \in Nat /\ cachedAt \in Int /\ baseline \in Int /\ shortest \in Int /\ cutOff \in BOOLEAN
  /\ cachedAt <= second /\ baseline <= second

\* Who polls or is about to store has the lock, and the lock was given to him with
\* an old count in the cache.
PollerInv ==
  \A v \in ViewIds : /\ views[v].pc \in {"poll", "store"} => onlineLock = v
                     /\ views[v].pc = "poll" => ~FreshCount

\* The cache is at least as new as the baseline, unless a count is on its way
\* there or was lost with its panel.
BaselineInv ==
  baseline # NotRead /\ ~cutOff =>
    (\E v \in ViewIds : views[v].pc = "store") \/ (cachedAt # NotRead /\ baseline <= cachedAt)

PollInv == OnlineTypes /\ PollerInv /\ BaselineInv /\ OnlineWindow

\* Nobody begins or ends a poll.
LEMMA PollFrame ==
  ASSUME PollInv, UNCHANGED <<second, onlineVars>>,
         \A u \in ViewIds : \A x \in {"poll", "store"} : views'[u].pc = x <=> views[u].pc = x
  PROVE  PollInv'
<1>1. OnlineTypes' /\ OnlineWindow'
  BY DEF PollInv, OnlineTypes, OnlineWindow, onlineVars
<1>2. FreshCount' <=> FreshCount
  BY DEF FreshCount, onlineVars
<1>3. PollerInv'
  BY <1>2 DEF PollInv, PollerInv, onlineVars
<1>4. BaselineInv'
  BY DEF PollInv, BaselineInv, onlineVars
<1>. QED BY <1>1, <1>3, <1>4 DEF PollInv

\* An old count does not get younger.
LEMMA PollTime ==
  ASSUME PollInv, second' = second + 1, UNCHANGED <<views, onlineVars>>
  PROVE  PollInv'
<1>1. OnlineTypes' /\ OnlineWindow'
  BY DEF PollInv, OnlineTypes, OnlineWindow, onlineVars
<1>2. ~FreshCount => ~FreshCount'
  BY StatusAssumption DEF FreshCount, onlineVars, PollInv, OnlineTypes
<1>3. PollerInv'
  BY <1>2 DEF PollInv, PollerInv, onlineVars
<1>4. BaselineInv'
  BY DEF PollInv, BaselineInv, onlineVars
<1>. QED BY <1>1, <1>3, <1>4 DEF PollInv

\* The lock is given, the cache looked at again.
LEMMA PollBegins ==
  ASSUME ViewTypes, PollInv, NEW v \in StartedViews, OnlineLocked(v)
  PROVE  PollInv'
<1>0. OnlineTypes /\ PollerInv /\ BaselineInv /\ OnlineWindow
  BY DEF PollInv
<1>1. /\ v \in ViewIds /\ views[v].kind \notin {"none", "done"} /\ views[v].pc = "lock" /\ onlineLock = 0
      /\ AfterLock \in ViewPcs /\ ViewAt(v, AfterLock)
      /\ UNCHANGED <<second, cachedAt, baseline, shortest, cutOff, registry>>
  BY DEF OnlineLocked, ViewIsAt, StartedViews, ViewTypes, AfterLock, ViewPcs
<1>2. views'[v].pc = AfterLock /\ \A u \in ViewIds : u # v => views'[u] = views[u]
  BY <1>1, ViewMoves
<1>3. \A u \in ViewIds : views[u].pc \notin {"poll", "store"}
  BY <1>0, <1>1 DEF PollerInv, ViewIds
<1>4. FreshCount' <=> FreshCount
  BY <1>1 DEF FreshCount
<1>5. PollerInv'
  <2>1. AfterLock = "poll" => onlineLock' = v /\ ~FreshCount
    BY DEF OnlineLocked, AfterLock
  <2>2. AfterLock # "store"
    BY DEF AfterLock
  <2>. QED BY <1>2, <1>3, <1>4, <2>1, <2>2 DEF PollerInv
<1>6. BaselineInv'
  BY <1>0, <1>1, <1>3 DEF BaselineInv
<1>7. OnlineTypes' /\ OnlineWindow'
  BY <1>0, <1>1 DEF OnlineTypes, OnlineWindow
<1>. QED BY <1>5, <1>6, <1>7 DEF PollInv

\* A poll compares with a baseline that is as old as the cache.
LEMMA PollCounts ==
  ASSUME ViewTypes, PollInv, NEW v \in StartedViews, NEW ok \in BOOLEAN, CountIncreased(v, ok)
  PROVE  PollInv'
<1>0. OnlineTypes /\ PollerInv /\ BaselineInv /\ OnlineWindow
  BY DEF PollInv
<1>1. /\ v \in ViewIds /\ views[v].kind \notin {"none", "done"} /\ views[v].pc = "poll"
      /\ "store" \in ViewPcs /\ ViewAt(v, "store")
      /\ UNCHANGED <<second, cachedAt, registry, onlineLock>>
  BY DEF CountIncreased, ViewIsAt, StartedViews, ViewTypes, ViewPcs
<1>2. views'[v].pc = "store" /\ \A u \in ViewIds : u # v => views'[u] = views[u]
  BY <1>1, ViewMoves
<1>3. onlineLock = v /\ ~FreshCount /\ \A u \in ViewIds : u # v => views[u].pc \notin {"poll", "store"}
  BY <1>0, <1>1 DEF PollerInv
<1>4. baseline # NotRead /\ ~cutOff => second - baseline >= Ttl
  <2>1. baseline # NotRead /\ ~cutOff => cachedAt # NotRead /\ baseline <= cachedAt
    BY <1>0, <1>1, <1>3 DEF BaselineInv
  <2>2. cachedAt # NotRead => second - cachedAt >= Ttl
    BY <1>0, <1>3, StatusAssumption DEF FreshCount, OnlineTypes
  <2>. QED BY <1>0, <2>1, <2>2, StatusAssumption DEF OnlineTypes
<1>5. shortest' \in Int /\ OnlineWindow'
  BY <1>0, <1>4 DEF CountIncreased, OnlineWindow, OnlineTypes
<1>6. baseline' \in Int /\ baseline' <= second /\ cutOff' \in BOOLEAN
  BY <1>0 DEF CountIncreased, OnlineTypes
<1>7. OnlineTypes'
  BY <1>0, <1>1, <1>5, <1>6 DEF OnlineTypes
<1>8. PollerInv' /\ BaselineInv'
  BY <1>1, <1>2, <1>3 DEF PollerInv, BaselineInv
<1>. QED BY <1>5, <1>7, <1>8 DEF PollInv

\* The count reaches the cache.
LEMMA PollStores ==
  ASSUME ViewTypes, PollInv, NEW v \in StartedViews, StoreOnline(v)
  PROVE  PollInv'
<1>0. OnlineTypes /\ PollerInv /\ BaselineInv /\ OnlineWindow
  BY DEF PollInv
<1>1. /\ v \in ViewIds /\ views[v].kind \notin {"none", "done"} /\ views[v].pc = "store"
      /\ "edit" \in ViewPcs /\ ViewAt(v, "edit") /\ cachedAt' = second
      /\ UNCHANGED <<second, baseline, shortest, cutOff, registry>>
  BY DEF StoreOnline, ViewIsAt, StartedViews, ViewTypes, ViewPcs
<1>2. views'[v].pc = "edit" /\ \A u \in ViewIds : u # v => views'[u] = views[u]
  BY <1>1, ViewMoves
<1>3. \A u \in ViewIds : u # v => views[u].pc \notin {"poll", "store"}
  BY <1>0, <1>1 DEF PollerInv
<1>4. PollerInv'
  BY <1>2, <1>3 DEF PollerInv
<1>5. second # NotRead
  BY <1>0 DEF OnlineTypes, NotRead
<1>6. BaselineInv'
  BY <1>0, <1>1, <1>5 DEF BaselineInv, OnlineTypes
<1>7. OnlineTypes' /\ OnlineWindow'
  BY <1>0, <1>1 DEF OnlineTypes, OnlineWindow
<1>. QED BY <1>4, <1>6, <1>7 DEF PollInv

\* A loop that ends gives back the lock it holds.
LEMMA PollEnds ==
  ASSUME ViewTypes, PollInv, NEW v \in StartedViews, RefreshEnds(v)
  PROVE  PollInv'
<1>0. OnlineTypes /\ PollerInv /\ BaselineInv /\ OnlineWindow
  BY DEF PollInv
<1>1. /\ v \in ViewIds /\ views' = [views EXCEPT ![v] = EndedView]
      /\ onlineLock' = (IF onlineLock = v THEN 0 ELSE onlineLock) /\ cutOff' = (cutOff \/ views[v].pc = "store")
      /\ UNCHANGED <<second, cachedAt, baseline, shortest>>
  BY DEF RefreshEnds, StartedViews
<1>2. views'[v].pc = "ended" /\ \A u \in ViewIds : u # v => views'[u] = views[u]
  BY <1>1, ViewOver DEF ViewTypes
<1>3. FreshCount' <=> FreshCount
  BY <1>1 DEF FreshCount
<1>4. PollerInv'
  BY <1>0, <1>1, <1>2, <1>3 DEF PollerInv
<1>5. BaselineInv'
  BY <1>0, <1>1, <1>2 DEF BaselineInv
<1>6. cutOff' \in BOOLEAN
  BY <1>0, <1>1, Zenon DEF OnlineTypes
<1>7. OnlineTypes' /\ OnlineWindow'
  BY <1>0, <1>1, <1>6 DEF OnlineTypes, OnlineWindow
<1>. QED BY <1>4, <1>5, <1>7 DEF PollInv

\* Every step keeps the order of polls and cache.
LEMMA PollStep == LoopsInv /\ PollInv /\ [StatusNext]_statusVars => PollInv'
<1> SUFFICES ASSUME LoopsInv, PollInv, [StatusNext]_statusVars PROVE PollInv'
  OBVIOUS
<1>0. ViewTypes
  BY DEF LoopsInv
<1>2. ASSUME NEW p \in Panels, OpenStatus(p) \/ ToggleDetailed(p) PROVE PollInv'
  <2>1. PICK v \in FreeView, kind \in {"open", "toggle"}, spot \in {"render", "row"}, want \in BOOLEAN :
          views' = [views EXCEPT ![v] = NewView(kind, p, spot, want)]
    BY <1>2 DEF OpenStatus, ToggleDetailed
  <2>2. v \in ViewIds /\ views[v].pc = "off"
    BY <1>0 DEF FreeView, ViewTypes
  <2>3. views'[v].pc = spot /\ \A u \in ViewIds : u # v => views'[u] = views[u]
    BY <1>0, <2>1, <2>2 DEF ViewTypes, NewView
  <2>4. UNCHANGED <<second, onlineVars>>
    BY <1>2 DEF OpenStatus, ToggleDetailed
  <2>. QED BY <2>2, <2>3, <2>4, PollFrame
<1>3. ASSUME NEW v \in StartedViews,
             ToggleSet(v) \/ RenderStatus(v) \/ OnlineCached(v) \/ OnlineWait(v) \/ RefreshAgain(v)
      PROVE  PollInv'
  <2>1. PICK from \in ViewPcs \ {"off", "ended", "poll", "store"}, to \in ViewPcs \ {"poll", "store"} :
          ViewIsAt(v, from) /\ ViewAt(v, to) /\ registry' = registry /\ UNCHANGED <<second, onlineVars>>
    BY <1>3 DEF ToggleSet, RenderStatus, OnlineCached, OnlineWait, RefreshAgain, ViewPcs
  <2>2. v \in ViewIds /\ views[v].kind \notin {"none", "done"} /\ views[v].pc = from
    BY <1>0, <2>1 DEF StartedViews, ViewIsAt, ViewTypes
  <2>3. views'[v].pc = to /\ \A u \in ViewIds : u # v => views'[u] = views[u]
    BY <1>0, <2>1, <2>2, ViewMoves
  <2>. QED BY <2>1, <2>2, <2>3, PollFrame
<1>4. ASSUME NEW v \in StartedViews, HandlerFails(v) PROVE PollInv'
  <2>1. v \in ViewIds /\ views[v].pc = "edit" /\ views' = [views EXCEPT ![v] = EndedView] /\ UNCHANGED <<second, onlineVars>>
    BY <1>4 DEF HandlerFails, StartedViews, ViewIsAt
  <2>2. views'[v].pc = "ended" /\ \A u \in ViewIds : u # v => views'[u] = views[u]
    BY <1>0, <2>1, ViewOver DEF ViewTypes
  <2>. QED BY <2>1, <2>2, PollFrame
<1>5. ASSUME NEW v \in StartedViews, StartRefresh(v) PROVE PollInv'
  <2>p. PICK p : p = views[v].panel
    OBVIOUS
  <2>1. PICK new \in FreeView :
          /\ p = views[v].panel /\ ViewIsAt(v, "edit") /\ views[v].kind # "loop"
          /\ views' = [CancelIn(views, p) EXCEPT ![v] = EndedView, ![new] = NewView("loop", p, "sleep", FALSE)]
    BY <1>5, <2>p DEF StartRefresh
  <2>2. /\ v \in ViewIds /\ new \in ViewIds /\ new # v /\ views[new].pc = "off" /\ views[v].pc = "edit" /\ p \in Panels
        /\ UNCHANGED <<second, onlineVars>>
    BY <1>0, <1>5, <2>1 DEF StartRefresh, FreeView, ViewTypes, ViewState, ViewIsAt, StartedViews
  <2>3. PICK g : g = CancelIn(views, p)
    OBVIOUS
  <2>4. g \in [ViewIds -> ViewState] /\ \A u \in ViewIds : g[u].pc = views[u].pc
    BY <1>0, <2>2, <2>3, Cancels
  <2>5. /\ views'[v] = EndedView /\ views'[new].pc = "sleep"
        /\ \A u \in ViewIds : u \notin {v, new} => views'[u] = g[u]
    <3>1. views' = [[g EXCEPT ![v] = EndedView] EXCEPT ![new] = NewView("loop", p, "sleep", FALSE)]
      BY <2>1, <2>3
    <3>. QED BY <2>2, <2>4, <3>1 DEF NewView
  <2>. QED BY <2>2, <2>4, <2>5, ViewOver, PollFrame
<1>6. ASSUME NEW p \in Panels, NavigateAway(p) PROVE PollInv'
  <2>1. views' = CancelIn(views, p) /\ UNCHANGED <<second, onlineVars>>
    BY <1>6 DEF NavigateAway
  <2>. QED BY <1>0, <2>1, Cancels, PollFrame
<1>7. CASE UNCHANGED statusVars
  BY <1>7, PollFrame DEF statusVars
<1>8. ASSUME NEW readable \in BOOLEAN, Sample(readable) PROVE PollInv'
  BY <1>8, PollTime DEF Sample
<1>. QED BY <1>0, <1>2, <1>3, <1>4, <1>5, <1>6, <1>7, <1>8, PollBegins, PollCounts, PollStores, PollEnds DEF StatusNext

-----------------------------------------------------------------------------
(* Columns *)

NextOf(cols, a, num, j) == IF j < Len(cols) THEN Head(cols[j + 1]) ELSE num - Len(a) + 1

\* The columns and the one in progress hold consecutive samples, up to the num-th.
Tiled(cols, a, num) ==
  /\ \A i \in DOMAIN a : a[i] = num - Len(a) + i
  /\ \A j \in DOMAIN cols :
       /\ cols[j] # <<>>
       /\ \A i \in DOMAIN cols[j] : cols[j][i] = NextOf(cols, a, num, j) - 1 - Len(cols[j]) + i

\* A sample joins the column in progress.
LEMMA TiledGrows ==
  ASSUME NEW cols \in Seq(Seq(Int)), NEW a \in Seq(Int), NEW num \in Int, Tiled(cols, a, num)
  PROVE  Tiled(cols, Append(a, num + 1), num + 1)
<1>1. /\ Len(Append(a, num + 1)) = Len(a) + 1 /\ Len(a) \in Nat
      /\ DOMAIN a = 1 .. Len(a) /\ DOMAIN Append(a, num + 1) = 1 .. Len(a) + 1
      /\ Append(a, num + 1)[Len(a) + 1] = num + 1
      /\ \A i \in 1 .. Len(a) : Append(a, num + 1)[i] = a[i]
  OBVIOUS
<1>2. \A i \in DOMAIN Append(a, num + 1) : Append(a, num + 1)[i] = (num + 1) - Len(Append(a, num + 1)) + i
  BY <1>1 DEF Tiled
<1>3. \A j \in DOMAIN cols : NextOf(cols, Append(a, num + 1), num + 1, j) = NextOf(cols, a, num, j)
  BY <1>1 DEF NextOf
<1>. QED BY <1>2, <1>3 DEF Tiled

\* The column in progress is frozen.
LEMMA TiledFreezes ==
  ASSUME NEW cols \in Seq(Seq(Int)), NEW a \in Seq(Int), NEW num \in Int, Tiled(cols, a, num), a # <<>>
  PROVE  Tiled(Append(cols, a), <<>>, num)
<1>1. PICK c : c = Append(cols, a)
  OBVIOUS
<1>2. /\ Len(c) = Len(cols) + 1 /\ Len(cols) \in Nat /\ DOMAIN cols = 1 .. Len(cols) /\ DOMAIN c = 1 .. Len(cols) + 1
      /\ c[Len(cols) + 1] = a /\ \A j \in 1 .. Len(cols) : c[j] = cols[j]
  BY <1>1
<1>3. Len(a) \in Nat /\ Len(a) >= 1 /\ DOMAIN a = 1 .. Len(a) /\ Head(a) = a[1]
  OBVIOUS
<1>4. Head(a) = num - Len(a) + 1
  BY <1>3, SMTT(30) DEF Tiled
<1>5. \A j \in 1 .. Len(cols) : NextOf(c, <<>>, num, j) = NextOf(cols, a, num, j)
  BY <1>2, <1>4 DEF NextOf
<1>6. NextOf(c, <<>>, num, Len(cols) + 1) = num + 1
  BY <1>2 DEF NextOf
<1>7. ASSUME NEW j \in DOMAIN c
      PROVE  c[j] # <<>> /\ \A i \in DOMAIN c[j] : c[j][i] = NextOf(c, <<>>, num, j) - 1 - Len(c[j]) + i
  <2>. DEFINE m == Len(cols)
  <2>0. m \in Nat /\ j \in 1 .. m + 1
    BY <1>2, Zenon
  <2>1. CASE j \in 1 .. Len(cols)
    BY <1>2, <1>5, <2>1 DEF Tiled
  <2>2. CASE j = Len(cols) + 1
    <3>1. c[j] = a /\ NextOf(c, <<>>, num, j) = num + 1
      BY <1>2, <1>6, <2>2
    <3>2. \A i \in DOMAIN a : a[i] = (num + 1) - 1 - Len(a) + i
      BY <1>3 DEF Tiled
    <3>. QED BY <3>1, <3>2
  <2>3. j \in 1 .. m \/ j = m + 1
    <3>. HIDE DEF m
    <3>. QED BY <2>0
  <2>. QED BY <2>1, <2>2, <2>3, Zenon
<1>8. Tiled(c, <<>>, num)
  BY <1>7 DEF Tiled
<1>. QED BY <1>1, <1>8

\* Only the oldest columns are dropped.
LEMMA TiledDrops ==
  ASSUME NEW cols \in Seq(Seq(Int)), NEW a \in Seq(Int), NEW num \in Int, Tiled(cols, a, num), NEW m \in Nat
  PROVE  LastOf(cols, m) \in Seq(Seq(Int)) /\ Tiled(LastOf(cols, m), a, num)
<1>1. CASE Len(cols) <= m
  BY <1>1 DEF LastOf
<1>2. CASE Len(cols) > m
  <2>1. PICK d \in Nat : d = Len(cols) - m
    <3>1. Len(cols) \in Nat
      OBVIOUS
    <3>2. Len(cols) - m \in Nat
      BY <1>2, <3>1
    <3>. QED BY <3>2
  <2>2. PICK c : c = SubSeq(cols, d + 1, Len(cols))
    OBVIOUS
  <2>3. LastOf(cols, m) = c
    BY <1>2, <2>1, <2>2, SMTT(30) DEF LastOf
  <2>4. /\ c \in Seq(Seq(Int)) /\ Len(c) = m /\ DOMAIN c = 1 .. m /\ DOMAIN cols = 1 .. Len(cols)
        /\ \A j \in 1 .. m : c[j] = cols[d + j] /\ d + j \in DOMAIN cols
    <3>1. Len(cols) \in Nat /\ Len(cols) = d + m /\ DOMAIN cols = 1 .. Len(cols)
      BY <2>1
    <3>2. c \in Seq(Seq(Int))
      BY <2>2, <3>1
    <3>3. Len(c) = m /\ DOMAIN c = 1 .. m
      BY <2>2, <3>1
    <3>4. ASSUME NEW j \in 1 .. m PROVE c[j] = cols[d + j] /\ d + j \in DOMAIN cols
      <4>1. d + j \in 1 .. Len(cols) /\ (d + 1) + j - 1 = d + j
        BY <3>1
      <4>. QED BY <2>2, <3>1, <4>1
    <3>. QED BY <3>1, <3>2, <3>3, <3>4
  <2>5. \A j \in 1 .. m : NextOf(c, a, num, j) = NextOf(cols, a, num, d + j)
    <3>1. ASSUME NEW j \in 1 .. m PROVE NextOf(c, a, num, j) = NextOf(cols, a, num, d + j)
      <4>0. Len(cols) \in Nat /\ Len(cols) = d + m
        BY <2>1
      <4>1. CASE j < m
        <5>1. j + 1 \in 1 .. m /\ d + j < Len(cols) /\ d + (j + 1) = (d + j) + 1
          BY <4>0, <4>1
        <5>2. c[j + 1] = cols[(d + j) + 1]
          BY <2>4, <5>1
        <5>. QED BY <2>4, <4>1, <5>1, <5>2 DEF NextOf
      <4>2. CASE j = m
        BY <2>4, <4>0, <4>2 DEF NextOf
      <4>. QED BY <4>1, <4>2
    <3>. QED BY <3>1
  <2>6. \A j \in DOMAIN c : /\ c[j] # <<>>
                            /\ \A i \in DOMAIN c[j] : c[j][i] = NextOf(c, a, num, j) - 1 - Len(c[j]) + i
    <3>1. ASSUME NEW j \in 1 .. m
          PROVE  c[j] # <<>> /\ \A i \in DOMAIN c[j] : c[j][i] = NextOf(c, a, num, j) - 1 - Len(c[j]) + i
      <4>1. /\ cols[d + j] # <<>>
            /\ \A i \in DOMAIN cols[d + j] : cols[d + j][i] = NextOf(cols, a, num, d + j) - 1 - Len(cols[d + j]) + i
        BY <2>4 DEF Tiled
      <4>2. c[j] = cols[d + j] /\ NextOf(c, a, num, j) = NextOf(cols, a, num, d + j)
        BY <2>4, <2>5
      <4>. QED BY <4>1, <4>2
    <3>. QED BY <2>4, <3>1
  <2>7. Tiled(c, a, num)
    BY <2>6 DEF Tiled
  <2>. QED BY <2>3, <2>4, <2>7
<1>. QED BY <1>1, <1>2

\* What is kept of a sequence comes from it.
LEMMA Suffix ==
  ASSUME NEW S, NEW s \in Seq(S), NEW m \in Nat
  PROVE  /\ LastOf(s, m) \in Seq(S)
         /\ \A i \in DOMAIN LastOf(s, m) : \E k \in DOMAIN s : LastOf(s, m)[i] = s[k]
<1>1. CASE Len(s) <= m
  BY <1>1 DEF LastOf
<1>2. CASE Len(s) > m
  <2>1. PICK d \in Nat : d = Len(s) - m
    <3>1. Len(s) \in Nat
      OBVIOUS
    <3>2. Len(s) - m \in Nat
      BY <1>2, <3>1
    <3>. QED BY <3>2
  <2>2. PICK c : c = SubSeq(s, d + 1, Len(s))
    OBVIOUS
  <2>3. LastOf(s, m) = c
    BY <1>2, <2>1, <2>2 DEF LastOf
  <2>4. /\ c \in Seq(S) /\ DOMAIN c = 1 .. m /\ DOMAIN s = 1 .. Len(s)
        /\ \A j \in 1 .. m : c[j] = s[d + j] /\ d + j \in DOMAIN s
    BY <1>2, <2>1, <2>2, SMTT(30)
  <2>. QED BY <2>3, <2>4
<1>. QED BY <1>1, <1>2

\* The columns tile the samples, and the windows of the rates the bytes.
ColumnsInv ==
  /\ columns \in Seq(Seq(Int)) /\ acc \in Seq(Int) /\ sampleNo \in Int /\ Tiled(columns, acc, sampleNo)
  /\ hostBytes \in Nat /\ prevNet \in Int /\ firstNet \in Int /\ measured \in Int
  /\ prevNet = NotRead => measured = 0
  /\ prevNet # NotRead => measured = prevNet - firstNet

\* Without detailed mode there is nothing to freeze.
DetailInv ==
  /\ detailed \in BOOLEAN /\ recentOf \in Seq(BOOLEAN) /\ DetailIsGone

\* Nothing of the history changes.
LEMMA HistoryFrame ==
  ASSUME ColumnsInv, DetailInv, UNCHANGED <<samplerVars, historyVars, detailed>>
  PROVE  ColumnsInv' /\ DetailInv'
BY DEF ColumnsInv, DetailInv, DetailIsGone, samplerVars, historyVars, Tiled, NextOf

\* The history starts anew.
LEMMA HistoryReset ==
  ASSUME ColumnsInv, DetailInv, ResetNetworkHistory, UNCHANGED <<samplerVars, recentOf, detailed>>
  PROVE  ColumnsInv' /\ DetailInv'
<1>1. acc' = <<>> /\ columns' = <<>>
  BY DEF ResetNetworkHistory
<1>2. Tiled(columns', acc', sampleNo')
  BY <1>1 DEF Tiled
<1>3. ColumnsInv'
  BY <1>1, <1>2 DEF ColumnsInv, samplerVars
<1>4. DetailInv'
  BY <1>1 DEF DetailInv, DetailIsGone
<1>. QED BY <1>3, <1>4

\* A render freezes a column, in detailed mode.
LEMMA HistoryFlush ==
  ASSUME ColumnsInv, DetailInv, Flush, UNCHANGED <<samplerVars, recentOf, detailed>>
  PROVE  ColumnsInv' /\ DetailInv'
<1>1. CASE UNCHANGED <<columns, acc>>
  BY <1>1, HistoryFrame DEF historyVars
<1>2. CASE /\ recentOf # <<>> /\ Last(recentOf) /\ acc # <<>>
           /\ columns' = LastOf(Append(columns, acc), Points) /\ acc' = <<>>
  <2>1. Append(columns, acc) \in Seq(Seq(Int)) /\ <<>> \in Seq(Int) /\ Points \in Nat
    BY StatusAssumption DEF ColumnsInv
  <2>2. Tiled(Append(columns, acc), <<>>, sampleNo)
    BY <1>2, TiledFreezes DEF ColumnsInv
  <2>3. columns' \in Seq(Seq(Int)) /\ Tiled(columns', <<>>, sampleNo)
    BY <1>2, <2>1, <2>2, TiledDrops DEF ColumnsInv
  <2>4. ColumnsInv'
    BY <1>2, <2>1, <2>3 DEF ColumnsInv, samplerVars
  <2>5. detailed
    <3>1. Len(recentOf) \in DOMAIN recentOf /\ recentOf[Len(recentOf)]
      BY <1>2 DEF Last, DetailInv
    <3>. QED BY <3>1 DEF DetailInv, DetailIsGone
  <2>6. DetailInv'
    BY <2>5 DEF DetailInv, DetailIsGone
  <2>. QED BY <2>4, <2>6
<1>. QED BY <1>1, <1>2 DEF Flush

\* A second is sampled.
LEMMA HistorySample ==
  ASSUME ColumnsInv, DetailInv, NEW readable \in BOOLEAN, Sample(readable)
  PROVE  ColumnsInv' /\ DetailInv'
<1>1. /\ hostBytes' = hostBytes + 1 /\ columns' = columns /\ detailed' = detailed
      /\ prevNet' = IF readable THEN hostBytes + 1 ELSE prevNet
      /\ firstNet' = IF readable /\ prevNet = NotRead THEN hostBytes + 1 ELSE firstNet
      /\ measured' = IF readable /\ prevNet # NotRead THEN measured + (hostBytes + 1) - prevNet ELSE measured
      /\ recentOf' = LastOf(Append(recentOf, detailed), SampleWin)
      /\ \/ detailed /\ sampleNo' = sampleNo + 1 /\ acc' = Append(acc, sampleNo + 1)
         \/ sampleNo' = sampleNo /\ acc' = acc
  BY DEF Sample, modeVars
<1>2. columns' \in Seq(Seq(Int)) /\ acc' \in Seq(Int) /\ sampleNo' \in Int /\ Tiled(columns', acc', sampleNo')
  <2>1. CASE sampleNo' = sampleNo + 1 /\ acc' = Append(acc, sampleNo + 1)
    <3>1. Tiled(columns, Append(acc, sampleNo + 1), sampleNo + 1)
      BY TiledGrows DEF ColumnsInv
    <3>2. Append(acc, sampleNo + 1) \in Seq(Int) /\ sampleNo + 1 \in Int
      BY DEF ColumnsInv
    <3>. QED BY <1>1, <2>1, <3>1, <3>2 DEF ColumnsInv
  <2>2. CASE sampleNo' = sampleNo /\ acc' = acc
    BY <1>1, <2>2 DEF ColumnsInv
  <2>. QED BY <1>1, <2>1, <2>2
<1>3. /\ hostBytes' \in Nat /\ prevNet' \in Int /\ firstNet' \in Int /\ measured' \in Int
      /\ prevNet' = NotRead => measured' = 0
      /\ prevNet' # NotRead => measured' = prevNet' - firstNet'
  BY <1>1 DEF ColumnsInv, NotRead
<1>4. ColumnsInv'
  BY <1>2, <1>3 DEF ColumnsInv
<1>5. recentOf' \in Seq(BOOLEAN) /\ ((~detailed /\ \A i \in DOMAIN recentOf : ~recentOf[i]) => \A i \in DOMAIN recentOf' : ~recentOf'[i])
  <2>1. PICK r : r = Append(recentOf, detailed)
    OBVIOUS
  <2>2. /\ r \in Seq(BOOLEAN) /\ Len(r) = Len(recentOf) + 1 /\ Len(recentOf) \in Nat
        /\ DOMAIN r = 1 .. Len(r) /\ DOMAIN recentOf = 1 .. Len(recentOf)
        /\ r[Len(recentOf) + 1] = detailed /\ \A i \in 1 .. Len(recentOf) : r[i] = recentOf[i]
    BY <2>1 DEF DetailInv
  <2>3. (~detailed /\ \A i \in DOMAIN recentOf : ~recentOf[i]) => \A i \in DOMAIN r : ~r[i]
    BY <2>2
  <2>4. recentOf' = LastOf(r, SampleWin) /\ SampleWin \in Nat
    BY <1>1, <2>1, StatusAssumption
  <2>5. recentOf' \in Seq(BOOLEAN) /\ \A i \in DOMAIN recentOf' : \E k \in DOMAIN r : recentOf'[i] = r[k]
    <3>1. r \in Seq(BOOLEAN)
      BY <2>2
    <3>2. /\ LastOf(r, SampleWin) \in Seq(BOOLEAN)
          /\ \A i \in DOMAIN LastOf(r, SampleWin) : \E k \in DOMAIN r : LastOf(r, SampleWin)[i] = r[k]
      <4>1. PICK S : S = BOOLEAN
        OBVIOUS
      <4>2. r \in Seq(S)
        BY <3>1, <4>1
      <4>3. /\ LastOf(r, SampleWin) \in Seq(S)
            /\ \A i \in DOMAIN LastOf(r, SampleWin) : \E k \in DOMAIN r : LastOf(r, SampleWin)[i] = r[k]
        BY <2>4, <4>2, Suffix
      <4>. QED BY <4>1, <4>3
    <3>. QED BY <2>4, <3>2, Zenon
  <2>. QED BY <2>3, <2>5
<1>6. ~detailed => acc' = acc
  BY <1>1
<1>7. DetailInv'
  BY <1>1, <1>5, <1>6 DEF DetailInv, DetailIsGone
<1>. QED BY <1>4, <1>7

\* Detailed mode is switched.
LEMMA HistorySwitch ==
  ASSUME ColumnsInv, DetailInv, NEW on \in BOOLEAN, SetDetailed(on), UNCHANGED samplerVars
  PROVE  ColumnsInv' /\ DetailInv'
<1>1. CASE detailed /\ ~on
  <2>1. acc' = <<>> /\ columns' = <<>> /\ detailed' = on /\ recentOf' = [i \in DOMAIN recentOf |-> FALSE]
    BY <1>1 DEF SetDetailed, ResetNetworkHistory
  <2>2. Tiled(columns', acc', sampleNo')
    BY <2>1 DEF Tiled
  <2>3. ColumnsInv'
    BY <2>1, <2>2 DEF ColumnsInv, samplerVars
  <2>4. recentOf' \in Seq(BOOLEAN) /\ \A i \in DOMAIN recentOf' : ~recentOf'[i]
    <3>1. DOMAIN recentOf = 1 .. Len(recentOf) /\ Len(recentOf) \in Nat
      BY DEF DetailInv
    <3>. QED BY <2>1, <3>1
  <2>5. DetailInv'
    BY <2>1, <2>4 DEF DetailInv, DetailIsGone
  <2>. QED BY <2>3, <2>5
<1>2. CASE ~(detailed /\ ~on)
  <2>1. UNCHANGED historyVars /\ detailed' = on
    BY <1>2 DEF SetDetailed
  <2>2. ColumnsInv'
    BY <2>1 DEF ColumnsInv, samplerVars, historyVars
  <2>3. DetailInv'
    BY <1>2, <2>1 DEF DetailInv, DetailIsGone, historyVars
  <2>. QED BY <2>2, <2>3
<1>. QED BY <1>1, <1>2

StatusInv == LoopsInv /\ PollInv /\ ColumnsInv /\ DetailInv

\* At the start nothing was read, sampled or counted.
LEMMA StatusStarts == StatusInit => StatusInv
<1> SUFFICES ASSUME StatusInit PROVE StatusInv
  OBVIOUS
<1>1. LoopsInv
  BY LoopsStarts
<1>2. \A v \in ViewIds : views[v].pc = "off"
  BY DEF StatusInit, NoView
<1>3. PollInv
  <2>1. OnlineTypes /\ OnlineWindow
    <3>1. /\ second = 0 /\ cachedAt = NotRead /\ baseline = NotRead /\ shortest = LastSecond /\ cutOff = FALSE
          /\ NotRead = -1
      BY DEF StatusInit, NotRead
    <3>2. cutOff \in BOOLEAN
      BY <3>1
    <3>3. LastSecond \in Nat /\ Ttl <= LastSecond
      BY StatusAssumption
    <3>. QED BY <3>1, <3>2, <3>3 DEF OnlineTypes, OnlineWindow
  <2>2. PollerInv
    BY <1>2 DEF PollerInv
  <2>3. BaselineInv
    BY DEF StatusInit, BaselineInv
  <2>. QED BY <2>1, <2>2, <2>3 DEF PollInv
<1>4. ColumnsInv
  BY DEF StatusInit, ColumnsInv, Tiled, NotRead
<1>5. DetailInv
  BY DEF StatusInit, DetailInv, DetailIsGone
<1>. QED BY <1>1, <1>3, <1>4, <1>5 DEF StatusInv

\* Every step keeps the history.
LEMMA StatusStep == StatusInv /\ [StatusNext]_statusVars => StatusInv'
<1> SUFFICES ASSUME StatusInv, [StatusNext]_statusVars PROVE StatusInv'
  OBVIOUS
<1>0. LoopsInv /\ PollInv /\ ColumnsInv /\ DetailInv /\ ViewTypes
  BY DEF StatusInv, LoopsInv
<1>1. LoopsInv' /\ PollInv'
  BY <1>0, LoopsStep, PollStep
<1>2. ASSUME NEW p \in Panels, OpenStatus(p) PROVE ColumnsInv' /\ DetailInv'
  BY <1>0, <1>2, HistoryReset DEF OpenStatus, modeVars
<1>3. ASSUME NEW p \in Panels, ToggleDetailed(p) \/ NavigateAway(p) PROVE ColumnsInv' /\ DetailInv'
  BY <1>0, <1>3, HistoryFrame DEF ToggleDetailed, NavigateAway, modeVars
<1>4. ASSUME NEW v \in StartedViews, ToggleSet(v) PROVE ColumnsInv' /\ DetailInv'
  <2>1. v \in ViewIds
    BY DEF StartedViews
  <2>2. views[v].want \in BOOLEAN
    BY <1>0, <2>1 DEF ViewTypes, ViewState
  <2>. QED BY <1>0, <1>4, <2>2, HistorySwitch DEF ToggleSet
<1>5. ASSUME NEW v \in StartedViews, RenderStatus(v) PROVE ColumnsInv' /\ DetailInv'
  BY <1>0, <1>5, HistoryFlush DEF RenderStatus, modeVars
<1>6. ASSUME NEW v \in StartedViews,
             \/ OnlineCached(v) \/ OnlineWait(v) \/ OnlineLocked(v) \/ StoreOnline(v) \/ StartRefresh(v)
             \/ HandlerFails(v) \/ RefreshAgain(v) \/ RefreshEnds(v) \/ \E ok \in BOOLEAN : CountIncreased(v, ok)
      PROVE  ColumnsInv' /\ DetailInv'
  <2>1. UNCHANGED <<samplerVars, historyVars, detailed>>
    BY <1>6 DEF OnlineCached, OnlineWait, OnlineLocked, StoreOnline, StartRefresh, HandlerFails, RefreshAgain,
                RefreshEnds, CountIncreased, modeVars
  <2>. QED BY <1>0, <2>1, HistoryFrame
<1>7. ASSUME UNCHANGED statusVars PROVE ColumnsInv' /\ DetailInv'
  <2>1. UNCHANGED <<samplerVars, historyVars, detailed>>
    BY <1>7 DEF statusVars, modeVars
  <2>. QED BY <1>0, <2>1, HistoryFrame
<1>8. ASSUME NEW readable \in BOOLEAN, Sample(readable) PROVE ColumnsInv' /\ DetailInv'
  BY <1>0, <1>8, HistorySample
<1>9. ColumnsInv' /\ DetailInv'
  BY <1>2, <1>3, <1>4, <1>5, <1>6, <1>7, <1>8 DEF StatusNext
<1>. QED BY <1>1, <1>9 DEF StatusInv

\* For any number of panels, views and seconds: every sample is in one column, the
\* rates tile the time, an online count compares polls a cache life apart, and a
\* panel has one loop (services/server_status.py, online_clients.py,
\* auto_refresh.py).
THEOREM Panel == StatusSpec => []PanelIsTrue
<1>1. StatusInv => PanelIsTrue
  <2> SUFFICES ASSUME StatusInv PROVE PanelIsTrue
    OBVIOUS
  <2>1. SamplesTile
    BY DEF StatusInv, ColumnsInv, SamplesTile, Tiled, NextOf
  <2>. QED BY <2>1 DEF StatusInv, LoopsInv, PollInv, DetailInv, PanelIsTrue
<1>. QED BY <1>1, StatusStarts, StatusStep, PTL DEF StatusSpec

-----------------------------------------------------------------------------
(* Traffic statistics                                                      *)

\* A set of naturals that is not empty has a least member.
LEMMA Least ==
  ASSUME NEW S \in SUBSET Nat, S # {}
  PROVE  \E x \in S : \A y \in S : x <= y
<1>1. PICK x \in S : \A y \in S : ~(<<y, x>> \in OpToRel(<, Nat))
  <2>1. IsWellFoundedOn(OpToRel(<, Nat), Nat)
    BY NatLessThanWellFounded
  <2>2. DEFINE R == OpToRel(<, Nat)
  <2> HIDE DEF R
  <2>3. IsWellFoundedOn(R, Nat)
    BY <2>1 DEF R
  <2>4. \E x \in S : \A y \in S : ~(<<y, x>> \in R)
    BY <2>3, WFMin
  <2>. QED BY <2>4 DEF R
<1>2. ASSUME NEW y \in S PROVE x <= y
  <2>1. ~(y < x)
    <3>1. ASSUME y < x PROVE FALSE
      <4>1. <<y, x>> \in Nat \X Nat
        OBVIOUS
      <4>2. <<y, x>> \in OpToRel(<, Nat)
        BY <4>1, <3>1 DEF OpToRel
      <4>. QED BY <4>2, <1>1
    <3>. QED BY <3>1
  <2>. QED BY <2>1
<1>. QED BY <1>2

\* Two functions that start alike and keep agreeing are the same on 0 .. num.
LEMMA Agree ==
  ASSUME NEW num \in Nat, NEW a, NEW b, a[0] = b[0],
         \A i \in 1 .. num : a[i - 1] = b[i - 1] => a[i] = b[i]
  PROVE  \A i \in 0 .. num : a[i] = b[i]
<1>1. SUFFICES ASSUME NEW i \in 0 .. num, a[i] # b[i] PROVE FALSE
  OBVIOUS
<1>2. DEFINE S == {j \in 0 .. num : a[j] # b[j]}
<1>3. S \in SUBSET Nat /\ S # {}
  BY <1>1
<1>4. PICK x \in S : \A y \in S : x <= y
  <2>. HIDE DEF S
  <2>. QED BY <1>3, Least
<1>5. x \in 0 .. num /\ x # 0
  BY <1>4
<1>6. x \in 1 .. num /\ x - 1 \in 0 .. num /\ ~(x <= x - 1)
  BY <1>5
<1>7. x - 1 \notin S
  <2>. HIDE DEF S
  <2>. QED BY <1>4, <1>6
<1>8. a[x - 1] = b[x - 1]
  BY <1>6, <1>7
<1>. QED BY <1>4, <1>6, <1>8

Buckets == [0 .. LastHour -> Int]
Sums(f, g, num) == g \in [0 .. num -> Int] /\ g[0] = 0 /\ \A i \in 1 .. num : g[i] = g[i - 1] + f[i - 1]

\* Buckets have prefix sums, up to any hour.
LEMMA SumsExist ==
  ASSUME NEW f \in Buckets, NEW num \in 0 .. LastHour + 1
  PROVE  \E g : Sums(f, g, num)
<1>1. SUFFICES ASSUME ~\E g : Sums(f, g, num) PROVE FALSE
  OBVIOUS
<1>2. DEFINE S == {j \in 0 .. LastHour + 1 : ~\E g : Sums(f, g, j)}
<1>3. S \in SUBSET Nat /\ S # {}
  BY <1>1, TrafficAssumption
<1>4. PICK x \in S : \A y \in S : x <= y
  <2>. HIDE DEF S
  <2>. QED BY <1>3, Least
<1>5. x # 0
  <2>1. Sums(f, [i \in 0 .. 0 |-> 0], 0)
    BY DEF Sums
  <2>. QED BY <2>1, <1>4
<1>6. x \in 1 .. LastHour + 1 /\ x - 1 \in 0 .. LastHour + 1 /\ ~(x <= x - 1)
  BY <1>4, <1>5, TrafficAssumption
<1>7. x - 1 \notin S
  <2>. HIDE DEF S
  <2>. QED BY <1>4, <1>6
<1>8. PICK g : Sums(f, g, x - 1)
  BY <1>6, <1>7
<1>9. PICK m : m = x - 1
  OBVIOUS
<1>10. m \in 0 .. LastHour /\ x = m + 1 /\ Sums(f, g, m)
  BY <1>6, <1>8, <1>9, TrafficAssumption
<1>11. PICK h : h = [i \in 0 .. x |-> IF i = x THEN g[m] + f[m] ELSE g[i]]
  OBVIOUS
<1>12. Sums(f, h, x)
  <2>1. h \in [0 .. x -> Int]
    BY <1>10, <1>11, TrafficAssumption DEF Sums, Buckets
  <2>2. h[0] = 0
    BY <1>5, <1>10, <1>11 DEF Sums
  <2>3. ASSUME NEW i \in 1 .. x PROVE h[i] = h[i - 1] + f[i - 1]
    <3>1. CASE i = x
      BY <3>1, <1>10, <1>11
    <3>2. CASE i # x
      BY <3>2, <1>10, <1>11 DEF Sums
    <3>. QED BY <3>1, <3>2
  <2>. QED BY <2>1, <2>2, <2>3 DEF Sums
<1>. QED BY <1>4, <1>12

\* So the recursion of Upto has a solution, and Upto is it.
LEMMA UptoSums ==
  ASSUME NEW f \in Buckets
  PROVE  Sums(f, Upto(f), LastHour + 1)
<1>0. LastHour + 1 \in 0 .. LastHour + 1 /\ LastHour + 1 \in Nat
  BY TrafficAssumption
<1>1. PICK g : Sums(f, g, LastHour + 1)
  BY <1>0, SumsExist
<1>2. g = [num \in 0 .. LastHour + 1 |-> IF num = 0 THEN 0 ELSE g[num - 1] + f[num - 1]]
  BY <1>0, <1>1 DEF Sums
<1>3. \E c : c = [num \in 0 .. LastHour + 1 |-> IF num = 0 THEN 0 ELSE c[num - 1] + f[num - 1]]
  BY <1>2
<1>4. Upto(f) = CHOOSE c : c = [num \in 0 .. LastHour + 1 |-> IF num = 0 THEN 0 ELSE c[num - 1] + f[num - 1]]
  BY Zenon DEF Upto
<1>5. Upto(f) = [num \in 0 .. LastHour + 1 |-> IF num = 0 THEN 0 ELSE Upto(f)[num - 1] + f[num - 1]]
  BY <1>3, <1>4, Zenon
<1>6. PICK u : u = Upto(f)
  OBVIOUS
<1>7. u = [num \in 0 .. LastHour + 1 |-> IF num = 0 THEN 0 ELSE u[num - 1] + f[num - 1]]
  BY <1>5, <1>6, Zenon
<1>8. u[0] = g[0] /\ \A i \in 1 .. LastHour + 1 : u[i - 1] = g[i - 1] => u[i] = g[i]
  <2>1. u[0] = 0
    BY <1>0, <1>7
  <2>2. \A i \in 1 .. LastHour + 1 : u[i] = u[i - 1] + f[i - 1]
    BY <1>0, <1>7
  <2>. QED BY <2>1, <2>2, <1>1 DEF Sums
<1>9. \A i \in 0 .. LastHour + 1 : u[i] = g[i]
  BY <1>0, <1>8, Agree
<1>10. u = [num \in 0 .. LastHour + 1 |-> u[num]]
  BY <1>7
<1>11. u = g
  BY <1>1, <1>9, <1>10 DEF Sums
<1>. QED BY <1>1, <1>6, <1>11

\* Without bytes the sums are zero.
LEMMA UptoZero ==
  ASSUME NEW num \in 0 .. LastHour + 1
  PROVE  Upto([h \in 0 .. LastHour |-> 0])[num] = 0
<1>1. PICK f : f = [h \in 0 .. LastHour |-> 0]
  OBVIOUS
<1>2. f \in Buckets /\ LastHour + 1 \in Nat
  BY <1>1, TrafficAssumption DEF Buckets
<1>3. PICK u : u = Upto(f)
  OBVIOUS
<1>4. Sums(f, u, LastHour + 1)
  BY <1>2, <1>3, UptoSums
<1>5. PICK z : z = [i \in 0 .. LastHour + 1 |-> 0]
  OBVIOUS
<1>6. u[0] = z[0] /\ \A i \in 1 .. LastHour + 1 : u[i - 1] = z[i - 1] => u[i] = z[i]
  BY <1>1, <1>4, <1>5, TrafficAssumption DEF Sums
<1>7. u[num] = z[num]
  BY <1>2, <1>6, Agree
<1>. QED BY <1>1, <1>3, <1>5, <1>7

\* Bytes added to a bucket are in the sums of the later hours only.
LEMMA UptoAdds ==
  ASSUME NEW f \in Buckets, NEW h \in 0 .. LastHour, NEW d \in Int, NEW num \in 0 .. LastHour + 1
  PROVE  /\ [f EXCEPT ![h] = @ + d] \in Buckets
         /\ Upto([f EXCEPT ![h] = @ + d])[num] = Upto(f)[num] + (IF h < num THEN d ELSE 0)
<1>1. PICK e : e = [f EXCEPT ![h] = @ + d]
  OBVIOUS
<1>2. e \in Buckets /\ LastHour + 1 \in Nat
  BY <1>1, TrafficAssumption DEF Buckets
<1>3. PICK u : u = Upto(f)
  OBVIOUS
<1>4. PICK v : v = Upto(e)
  OBVIOUS
<1>5. Sums(f, u, LastHour + 1) /\ Sums(e, v, LastHour + 1)
  BY <1>2, <1>3, <1>4, UptoSums
<1>6. PICK w : w = [i \in 0 .. LastHour + 1 |-> u[i] + (IF h < i THEN d ELSE 0)]
  OBVIOUS
<1>7. v[0] = w[0]
  BY <1>2, <1>5, <1>6 DEF Sums
<1>8. ASSUME NEW i \in 1 .. LastHour + 1, v[i - 1] = w[i - 1] PROVE v[i] = w[i]
  <2>1. i - 1 \in 0 .. LastHour /\ i - 1 \in 0 .. LastHour + 1 /\ i \in 0 .. LastHour + 1
    BY TrafficAssumption
  <2>2. e[i - 1] = f[i - 1] + (IF i - 1 = h THEN d ELSE 0)
    BY <1>1, <2>1 DEF Buckets
  <2>3. v[i] = v[i - 1] + e[i - 1] /\ u[i] = u[i - 1] + f[i - 1] /\ f[i - 1] \in Int /\ u[i - 1] \in Int
    BY <1>5, <2>1 DEF Sums, Buckets
  <2>4. w[i] = u[i] + (IF h < i THEN d ELSE 0) /\ w[i - 1] = u[i - 1] + (IF h < i - 1 THEN d ELSE 0)
    BY <1>6, <2>1
  <2>5. CASE i - 1 = h
    BY <2>1, <2>2, <2>3, <2>4, <2>5, <1>8
  <2>6. CASE i - 1 # h
    BY <2>1, <2>2, <2>3, <2>4, <2>6, <1>8
  <2>. QED BY <2>5, <2>6
<1>9. v[num] = w[num]
  BY <1>2, <1>7, <1>8, Agree
<1>. QED BY <1>1, <1>2, <1>3, <1>4, <1>6, <1>9

\* Without the buckets before p the sums lose what was before p.
LEMMA UptoDrops ==
  ASSUME NEW f \in Buckets, NEW p \in 0 .. LastHour + 1, NEW num \in p .. LastHour + 1,
         NEW e, e = [h \in 0 .. LastHour |-> IF h < p THEN 0 ELSE f[h]]
  PROVE  e \in Buckets /\ Upto(e)[num] = Upto(f)[num] - Upto(f)[p]
<1>2. e \in Buckets /\ LastHour + 1 \in Nat
  BY TrafficAssumption DEF Buckets
<1>3. PICK u : u = Upto(f)
  OBVIOUS
<1>4. PICK v : v = Upto(e)
  OBVIOUS
<1>5. Sums(f, u, LastHour + 1) /\ Sums(e, v, LastHour + 1)
  BY <1>2, <1>3, <1>4, UptoSums
<1>6. PICK w : w = [i \in 0 .. LastHour + 1 |-> IF i <= p THEN 0 ELSE u[i] - u[p]]
  OBVIOUS
<1>7. v[0] = w[0]
  BY <1>2, <1>5, <1>6 DEF Sums
<1>8. ASSUME NEW i \in 1 .. LastHour + 1, v[i - 1] = w[i - 1] PROVE v[i] = w[i]
  <2>1. i - 1 \in 0 .. LastHour /\ i - 1 \in 0 .. LastHour + 1 /\ i \in 0 .. LastHour + 1 /\ p \in Int
    BY TrafficAssumption
  <2>2. e[i - 1] = IF i - 1 < p THEN 0 ELSE f[i - 1]
    BY <2>1
  <2>3. /\ v[i] = v[i - 1] + e[i - 1] /\ u[i] = u[i - 1] + f[i - 1] /\ f[i - 1] \in Int /\ u[i - 1] \in Int
        /\ u[p] \in Int
    BY <1>5, <2>1 DEF Sums, Buckets
  <2>4. /\ w[i] = IF i <= p THEN 0 ELSE u[i] - u[p]
        /\ w[i - 1] = IF i - 1 <= p THEN 0 ELSE u[i - 1] - u[p]
    BY <1>6, <2>1
  <2>5. CASE i <= p
    BY <2>1, <2>2, <2>3, <2>4, <2>5, <1>8
  <2>6. CASE i - 1 = p
    BY <2>1, <2>2, <2>3, <2>4, <2>6, <1>8
  <2>7. CASE i - 1 > p
    BY <2>1, <2>2, <2>3, <2>4, <2>7, <1>8
  <2>. QED BY <2>1, <2>5, <2>6, <2>7
<1>9. v[num] = w[num]
  BY <1>2, <1>7, <1>8, Agree
<1>10. w[num] = u[num] - u[p]
  <2>1. num \in 0 .. LastHour + 1 /\ u[num] \in Int /\ u[p] \in Int
    BY <1>5, TrafficAssumption DEF Sums
  <2>. QED BY <1>6, <2>1
<1>. QED BY <1>2, <1>3, <1>4, <1>9, <1>10


Raws == Nat \cup {Unread}
Rows == [total : Nat, raw : Raws, there : BOOLEAN, available : BOOLEAN]
Samples == [raw : Raws, down : BOOLEAN]

\* What a counter of c still adds to a total whose last raw value is raw stays
\* within the bytes m: either all of it may be added, or the counter has not been
\* reset since and only the rest may.
Val(c) == IF c = Unread THEN 0 ELSE c
Fits(total, raw, c, m) ==
  \/ total + Val(c) <= m
  \/ raw # Unread /\ raw <= Val(c) /\ total + (Val(c) - raw) <= m

\* The larger of two numbers.
LEMMA MaxOfTwo ==
  ASSUME NEW a \in Int, NEW b \in Int
  PROVE  Max({a, b}) = IF a >= b THEN a ELSE b
<1>1. \E x \in {a, b} : \A y \in {a, b} : x >= y
  OBVIOUS
<1>2. PICK m : m = Max({a, b})
  OBVIOUS
<1>3. m \in {a, b} /\ \A y \in {a, b} : m >= y
  BY <1>1, <1>2 DEF Max
<1>. QED BY <1>2, <1>3

\* A sample of the counter is added once, and the new total is within the bytes.
LEMMA NextFits ==
  ASSUME NEW t \in Nat, NEW raw \in Raws, NEW c \in Nat, NEW m \in Nat, Fits(t, raw, c, m)
  PROVE  Fits(NextTotal(t, raw, c), c, c, m)
<1>1. c # Unread /\ Val(c) = c
  BY DEF Unread, Val
<1>2. CASE raw = Unread
  BY <1>1, <1>2, MaxOfTwo DEF Fits, NextTotal
<1>3. CASE raw # Unread
  BY <1>1, <1>3 DEF Fits, NextTotal, Raws
<1>. QED BY <1>2, <1>3

\* Totals only grow.
LEMMA NextGrows ==
  ASSUME NEW t \in Nat, NEW raw \in Raws, NEW c \in Nat
  PROVE  NextTotal(t, raw, c) \in Nat /\ t <= NextTotal(t, raw, c)
<1>1. CASE raw = Unread
  BY <1>1, MaxOfTwo DEF NextTotal
<1>2. CASE raw # Unread
  BY <1>2 DEF NextTotal, Raws
<1>. QED BY <1>1, <1>2

\* A byte that moves is counted, a restart loses what was not read yet.
LEMMA FitsMoves ==
  ASSUME NEW t \in Nat, NEW raw \in Raws, NEW c \in Raws, NEW m \in Nat, Fits(t, raw, c, m)
  PROVE  /\ Fits(t, raw, IF c = Unread THEN 1 ELSE c + 1, m + 1)
         /\ Fits(t, raw, 0, m) /\ Fits(t, raw, Unread, m) /\ t <= m
BY DEF Fits, Val, Raws, Unread

TrTypes ==
  /\ moved \in [TrKeys -> Nat] /\ counter \in [TrKeys -> Raws] /\ stat \in [TrKeys -> Rows]
  /\ hourly \in [TrKeys -> Buckets] /\ archived \in [TrKeys -> Nat] /\ forgotten \in [TrKeys -> Int]
  /\ hourNow \in 0 .. LastHour /\ prunedHour \in {Unread} \cup 0 .. hourNow
  /\ DOMAIN refresh = Refreshers

\* A live key can still be read without counting a byte twice; a deleted one has
\* left its total in the archive.
CountInv == \A k \in TrKeys :
  /\ k \notin deletedKeys => /\ archived[k] = 0
                             /\ Fits(stat[k].total, stat[k].raw, counter[k], moved[k])
  /\ k \in deletedKeys => stat[k] = NoStat /\ archived[k] <= moved[k]

\* A refresh under way holds the lock; its samples can be stored on the rows as they
\* are, and the rows it has read are still those.
Flight == {"sampled", "read"}
Holds(f) ==
  /\ f.snap \in [f.keys -> Samples]
  /\ \A k \in f.keys \ deletedKeys : Stored(f.snap[k]) =>
       Fits(NextTotal(stat[k].total, stat[k].raw, f.snap[k].raw), f.snap[k].raw, counter[k], moved[k])
  /\ f.at = "read" => \A k \in f.keys \ deletedKeys : f.rows[k] = stat[k]
FlightInv == \A r \in Refreshers :
  /\ refresh[r].keys \subseteq TrKeys
  /\ refresh[r] = [at |-> refresh[r].at, keys |-> refresh[r].keys, snap |-> refresh[r].snap, rows |-> refresh[r].rows]
  /\ refresh[r].at \in Flight => refreshLock = r /\ Holds(refresh[r])

\* The buckets and what retention took from them are the total, and after a pruning
\* nothing older than the retention is left.
HistoryInv == \A k \in TrKeys :
  /\ Upto(hourly[k])[LastHour + 1] + forgotten[k] = TrafficTotal(k)
  /\ prunedHour = hourNow => Upto(hourly[k])[OldHours] = 0

TrafficInv == TrTypes /\ CountInv /\ FlightInv /\ HistoryInv

\* Everything starts at zero.
LEMMA TrafficStarts == TrafficInit => TrafficInv
<1>. SUFFICES ASSUME TrafficInit PROVE TrafficInv
  OBVIOUS
<1>1. TrTypes
  BY TrafficAssumption DEF TrafficInit, TrTypes, Buckets, Rows, Raws, NoStat, Baseline, Unread
<1>2. CountInv
  BY DEF TrafficInit, CountInv, Fits, Val, NoStat, Baseline, Unread
<1>3. FlightInv
  BY DEF TrafficInit, FlightInv, IdleRefresh, Flight
<1>4. HistoryInv
  <2>1. LastHour + 1 \in 0 .. LastHour + 1
    BY TrafficAssumption
  <2>2. \A k \in TrKeys : Upto(hourly[k])[LastHour + 1] = 0
    BY <2>1, UptoZero DEF TrafficInit
  <2>3. prunedHour # hourNow
    BY DEF TrafficInit, Unread
  <2>. QED BY <2>2, <2>3 DEF TrafficInit, HistoryInv, TrafficTotal, NoStat
<1>. QED BY <1>1, <1>2, <1>3, <1>4 DEF TrafficInv

\* The backends count and restart between two reads.
LEMMA CountersMove ==
  ASSUME TrafficInv, UNCHANGED <<stat, hourly, archived, deletedKeys, hourNow, forgotten, prunedHour, refresh, refreshLock>>,
         moved' \in [TrKeys -> Nat], counter' \in [TrKeys -> Raws],
         \A k \in TrKeys : k \in deletedKeys => moved'[k] = moved[k],
         \A k \in TrKeys \ deletedKeys, t \in Nat, raw \in Raws :
            Fits(t, raw, counter[k], moved[k]) => Fits(t, raw, counter'[k], moved'[k])
  PROVE  TrafficInv'
<1>0. TrTypes /\ CountInv /\ FlightInv /\ HistoryInv
  BY DEF TrafficInv
<1>1. TrTypes'
  BY <1>0 DEF TrTypes
<1>2. CountInv'
  <2>1. \A k \in TrKeys : stat[k].total \in Nat /\ stat[k].raw \in Raws
    BY <1>0 DEF TrTypes, Rows
  <2>. QED BY <1>0, <2>1 DEF CountInv
<1>3. ASSUME NEW r \in Refreshers, Holds(refresh[r]) PROVE Holds(refresh[r])'
  <2>1. ASSUME NEW k \in refresh[r].keys \ deletedKeys, Stored(refresh[r].snap[k])
        PROVE  Fits(NextTotal(stat[k].total, stat[k].raw, refresh[r].snap[k].raw), refresh[r].snap[k].raw, counter'[k], moved'[k])
    <3>1. k \in TrKeys \ deletedKeys /\ stat[k].total \in Nat /\ stat[k].raw \in Raws
      BY <1>0, <2>1 DEF FlightInv, TrTypes, Rows
    <3>2. refresh[r].snap[k].raw \in Nat /\ refresh[r].snap[k].raw \in Raws
      BY <1>3, <2>1 DEF Holds, Samples, Stored, Raws
    <3>3. PICK t \in Nat : t = NextTotal(stat[k].total, stat[k].raw, refresh[r].snap[k].raw)
      BY <3>1, <3>2, NextGrows
    <3>4. Fits(t, refresh[r].snap[k].raw, counter[k], moved[k])
      BY <1>3, <2>1, <3>3 DEF Holds
    <3>. QED BY <3>1, <3>2, <3>3, <3>4
  <2>. QED BY <1>3, <2>1 DEF Holds, Stored
<1>4. FlightInv'
  BY <1>0, <1>3 DEF FlightInv
<1>5. HistoryInv'
  BY <1>0 DEF HistoryInv, TrafficTotal, OldHours
<1>. QED BY <1>1, <1>2, <1>4, <1>5 DEF TrafficInv

\* A byte moves.
LEMMA MoveKeeps ==
  ASSUME TrafficInv, NEW k \in TrKeys, MoveBytes(k)
  PROVE  TrafficInv'
<1>0. moved \in [TrKeys -> Nat] /\ counter \in [TrKeys -> Raws]
  BY DEF TrafficInv, TrTypes
<1>1. /\ moved' = [moved EXCEPT ![k] = @ + 1] /\ k \notin deletedKeys
      /\ counter' = [counter EXCEPT ![k] = IF counter[k] = Unread THEN 1 ELSE counter[k] + 1]
      /\ UNCHANGED <<stat, hourly, archived, deletedKeys, hourNow, forgotten, prunedHour, refresh, refreshLock>>
  BY DEF MoveBytes
<1>2. moved' \in [TrKeys -> Nat] /\ counter' \in [TrKeys -> Raws]
  BY <1>0, <1>1 DEF Raws, Unread
<1>3. \A j \in TrKeys : j \in deletedKeys => moved'[j] = moved[j]
  BY <1>0, <1>1
<1>4. ASSUME NEW j \in TrKeys \ deletedKeys, NEW t \in Nat, NEW raw \in Raws, Fits(t, raw, counter[j], moved[j])
      PROVE  Fits(t, raw, counter'[j], moved'[j])
  <2>1. CASE j = k
    <3>1. counter'[j] = (IF counter[j] = Unread THEN 1 ELSE counter[j] + 1) /\ moved'[j] = moved[j] + 1
      BY <1>0, <1>1, <2>1
    <3>2. counter[j] \in Raws /\ moved[j] \in Nat
      BY <1>0
    <3>. QED BY <1>4, <3>1, <3>2, FitsMoves
  <2>2. CASE j # k
    BY <1>0, <1>1, <1>4, <2>2
  <2>. QED BY <2>1, <2>2
<1>. QED BY <1>1, <1>2, <1>3, <1>4, CountersMove

\* A backend restarts.
LEMMA RestartKeeps ==
  ASSUME TrafficInv, NEW b, RestartBackend(b)
  PROVE  TrafficInv'
<1>0. moved \in [TrKeys -> Nat] /\ counter \in [TrKeys -> Raws]
  BY DEF TrafficInv, TrTypes
<1>1. /\ counter' = [k \in TrKeys |-> IF BackendOf[k] = b THEN Baseline(k) ELSE counter[k]]
      /\ UNCHANGED <<moved, stat, hourly, archived, deletedKeys, hourNow, forgotten, prunedHour, refresh, refreshLock>>
  BY DEF RestartBackend
<1>2. \A k \in TrKeys : counter'[k] \in {0, Unread, counter[k]}
  BY <1>1 DEF Baseline
<1>3. moved' \in [TrKeys -> Nat] /\ counter' \in [TrKeys -> Raws]
  BY <1>0, <1>1 DEF Raws, Baseline
<1>4. ASSUME NEW j \in TrKeys \ deletedKeys, NEW t \in Nat, NEW raw \in Raws, Fits(t, raw, counter[j], moved[j])
      PROVE  Fits(t, raw, counter'[j], moved'[j])
  <2>1. counter[j] \in Raws /\ moved[j] \in Nat /\ moved'[j] = moved[j]
    BY <1>0, <1>1
  <2>. QED BY <1>2, <1>4, <2>1, FitsMoves
<1>. QED BY <1>1, <1>3, <1>4, CountersMove

\* The clock: an hour that has just begun is not pruned yet.
LEMMA HourKeeps ==
  ASSUME TrafficInv, NextHour
  PROVE  TrafficInv'
<1>0. TrTypes /\ CountInv /\ FlightInv /\ HistoryInv
  BY DEF TrafficInv
<1>1. /\ hourNow' = hourNow + 1 /\ hourNow < LastHour
      /\ UNCHANGED <<moved, counter, stat, hourly, archived, deletedKeys, forgotten, prunedHour, refresh, refreshLock>>
  BY DEF NextHour
<1>2. TrTypes'
  BY <1>0, <1>1, TrafficAssumption DEF TrTypes
<1>3. CountInv'
  BY <1>0, <1>1 DEF CountInv
<1>4. FlightInv'
  BY <1>0, <1>1 DEF FlightInv, Holds
<1>5. prunedHour' # hourNow'
  BY <1>0, <1>1, TrafficAssumption DEF TrTypes, Unread
<1>6. HistoryInv'
  BY <1>0, <1>1, <1>5 DEF HistoryInv, TrafficTotal
<1>. QED BY <1>2, <1>3, <1>4, <1>6 DEF TrafficInv


\* A refresher goes on: the others are not under way beside it.
LEMMA RefresherMoves ==
  ASSUME TrafficInv, NEW r \in Refreshers, NEW f, refresh' = [refresh EXCEPT ![r] = f],
         UNCHANGED <<moved, counter, stat, hourly, archived, deletedKeys, hourNow, forgotten, prunedHour>>,
         f = [at |-> f.at, keys |-> f.keys, snap |-> f.snap, rows |-> f.rows], f.keys \subseteq TrKeys,
         f.at \in Flight => Holds(f) /\ refreshLock' = r,
         \A q \in Refreshers \ {r} : refresh[q].at \in Flight => refreshLock' = refreshLock
  PROVE  TrafficInv'
<1>0. TrTypes /\ CountInv /\ FlightInv /\ HistoryInv
  BY DEF TrafficInv
<1>1. TrTypes'
  BY <1>0 DEF TrTypes
<1>2. CountInv'
  BY <1>0 DEF CountInv
<1>3. \A q \in Refreshers : refresh'[q] = IF q = r THEN f ELSE refresh[q]
  BY <1>0 DEF TrTypes
<1>4. ASSUME NEW g, Holds(g) PROVE Holds(g)'
  BY <1>4 DEF Holds
<1>5. ASSUME NEW q \in Refreshers
      PROVE  /\ refresh'[q].keys \subseteq TrKeys
             /\ refresh'[q] = [at |-> refresh'[q].at, keys |-> refresh'[q].keys, snap |-> refresh'[q].snap, rows |-> refresh'[q].rows]
             /\ refresh'[q].at \in Flight => refreshLock' = q /\ Holds(refresh[q])'
  <2>1. PICK g : g = refresh'[q]
    OBVIOUS
  <2>2. g.at \in Flight => refreshLock' = q /\ Holds(g)
    <3>1. CASE q = r
      BY <1>3, <2>1, <3>1
    <3>2. CASE q # r
      BY <1>0, <1>3, <2>1, <3>2 DEF FlightInv
    <3>. QED BY <3>1, <3>2
  <2>3. g.at \in Flight => Holds(g)'
    BY <2>2, <1>4
  <2>4. Holds(g)' => Holds(refresh[q])'
    BY <2>1 DEF Holds
  <2>. QED BY <1>0, <1>3, <2>1, <2>2, <2>3, <2>4 DEF FlightInv
<1>6. FlightInv'
  BY <1>5 DEF FlightInv
<1>7. HistoryInv'
  BY <1>0 DEF HistoryInv, TrafficTotal, OldHours
<1>. QED BY <1>1, <1>2, <1>6, <1>7 DEF TrafficInv

\* Keys are listed without the lock.
LEMMA ListKeeps ==
  ASSUME TrafficInv, NEW r \in Refreshers, NEW K \in SUBSET TrKeys,
         refresh' = [refresh EXCEPT ![r] = [@ EXCEPT !.at = "listed", !.keys = K]],
         UNCHANGED <<moved, counter, stat, hourly, archived, deletedKeys, hourNow, forgotten, prunedHour, refreshLock>>
  PROVE  TrafficInv'
<1>0. TrTypes /\ FlightInv
  BY DEF TrafficInv
<1>1. refresh[r] = [at |-> refresh[r].at, keys |-> refresh[r].keys, snap |-> refresh[r].snap, rows |-> refresh[r].rows]
  BY <1>0 DEF FlightInv
<1>2. PICK f : f = [refresh[r] EXCEPT !.at = "listed", !.keys = K]
  OBVIOUS
<1>3. f = [at |-> "listed", keys |-> K, snap |-> refresh[r].snap, rows |-> refresh[r].rows]
  BY <1>1, <1>2
<1>4. refresh' = [refresh EXCEPT ![r] = f]
  BY <1>0, <1>2 DEF TrTypes
<1>5. f.at = "listed" /\ f.keys = K /\ f = [at |-> f.at, keys |-> f.keys, snap |-> f.snap, rows |-> f.rows] /\ f.at \notin Flight
  BY <1>3 DEF Flight
<1>. QED BY <1>4, <1>5, RefresherMoves

\* Counters are sampled under the lock, so that no other sample is on its way.
LEMMA LoadKeeps ==
  ASSUME TrafficInv, NEW r \in Refreshers, LoadCounters(r)
  PROVE  TrafficInv'
<1>0. TrTypes /\ CountInv /\ FlightInv
  BY DEF TrafficInv
<1>1. PICK down \in BOOLEAN :
        refresh' = [refresh EXCEPT ![r] = [@ EXCEPT
            !.at = "sampled", !.snap = [k \in refresh[r].keys |-> [raw |-> counter[k], down |-> down]]]]
  BY DEF LoadCounters
<1>2. /\ refreshLock = "free" /\ refreshLock' = r
      /\ UNCHANGED <<moved, counter, stat, hourly, archived, deletedKeys, hourNow, forgotten, prunedHour>>
  BY DEF LoadCounters, LockFreeToRefresh
<1>3. /\ refresh[r] = [at |-> refresh[r].at, keys |-> refresh[r].keys, snap |-> refresh[r].snap, rows |-> refresh[r].rows]
      /\ refresh[r].keys \subseteq TrKeys
  BY <1>0 DEF FlightInv
<1>4. PICK s : s = [k \in refresh[r].keys |-> [raw |-> counter[k], down |-> down]]
  OBVIOUS
<1>5. PICK f : f = [refresh[r] EXCEPT !.at = "sampled", !.snap = s]
  OBVIOUS
<1>6. f = [at |-> "sampled", keys |-> refresh[r].keys, snap |-> s, rows |-> refresh[r].rows]
  BY <1>3, <1>5
<1>7. refresh' = [refresh EXCEPT ![r] = f]
  BY <1>0, <1>1, <1>4, <1>5 DEF TrTypes
<1>8. /\ f.at = "sampled" /\ f.keys = refresh[r].keys /\ f.snap = s
      /\ f = [at |-> f.at, keys |-> f.keys, snap |-> f.snap, rows |-> f.rows]
  BY <1>6
<1>9. Holds(f)
  <2>1. f.snap \in [f.keys -> Samples]
    BY <1>0, <1>3, <1>4, <1>8 DEF Samples, TrTypes
  <2>2. ASSUME NEW k \in f.keys \ deletedKeys, Stored(f.snap[k])
        PROVE  Fits(NextTotal(stat[k].total, stat[k].raw, f.snap[k].raw), f.snap[k].raw, counter[k], moved[k])
    <3>1. k \in TrKeys /\ f.snap[k].raw = counter[k]
      BY <1>3, <1>4, <1>8
    <3>2. counter[k] \in Nat /\ moved[k] \in Nat /\ stat[k].total \in Nat /\ stat[k].raw \in Raws
      BY <1>0, <2>2, <3>1 DEF Stored, TrTypes, Raws, Rows
    <3>3. Fits(stat[k].total, stat[k].raw, counter[k], moved[k])
      BY <1>0, <3>1, <2>2 DEF CountInv
    <3>. QED BY <3>1, <3>2, <3>3, NextFits
  <2>. QED BY <1>8, <2>1, <2>2 DEF Holds
<1>10. \A q \in Refreshers : refresh[q].at \notin Flight
  BY <1>0, <1>2, TrafficAssumption DEF FlightInv
<1>. QED BY <1>2, <1>3, <1>7, <1>8, <1>9, <1>10, RefresherMoves

\* The rows are read under the same lock.
LEMMA ReadKeeps ==
  ASSUME TrafficInv, NEW r \in Refreshers, ReadRows(r)
  PROVE  TrafficInv'
<1>0. TrTypes /\ FlightInv
  BY DEF TrafficInv
<1>1. /\ refresh[r].at = "sampled"
      /\ refresh' = [refresh EXCEPT ![r] = [@ EXCEPT !.at = "read", !.rows = [k \in refresh[r].keys |-> stat[k]]]]
      /\ UNCHANGED <<moved, counter, stat, hourly, archived, deletedKeys, hourNow, forgotten, prunedHour, refreshLock>>
  BY DEF ReadRows
<1>2. /\ refresh[r] = [at |-> refresh[r].at, keys |-> refresh[r].keys, snap |-> refresh[r].snap, rows |-> refresh[r].rows]
      /\ refresh[r].keys \subseteq TrKeys /\ Holds(refresh[r]) /\ refreshLock = r
  BY <1>0, <1>1 DEF FlightInv, Flight
<1>3. PICK s : s = [k \in refresh[r].keys |-> stat[k]]
  OBVIOUS
<1>4. PICK f : f = [refresh[r] EXCEPT !.at = "read", !.rows = s]
  OBVIOUS
<1>5. f = [at |-> "read", keys |-> refresh[r].keys, snap |-> refresh[r].snap, rows |-> s]
  BY <1>2, <1>4
<1>6. refresh' = [refresh EXCEPT ![r] = f]
  BY <1>0, <1>1, <1>3, <1>4 DEF TrTypes
<1>7. /\ f.keys = refresh[r].keys /\ f.snap = refresh[r].snap /\ f.rows = s
      /\ f = [at |-> f.at, keys |-> f.keys, snap |-> f.snap, rows |-> f.rows]
  BY <1>5
<1>8. Holds(f)
  BY <1>2, <1>3, <1>7 DEF Holds
<1>. QED BY <1>1, <1>2, <1>6, <1>7, <1>8, RefresherMoves

\* A row is updated within the bytes, and its hour gets the difference.
LEMMA RowRefreshed ==
  ASSUME NEW k \in TrKeys, NEW row \in Rows, NEW s \in Samples, NEW c \in Raws, NEW m \in Nat,
         Fits(row.total, row.raw, c, m),
         Stored(s) => Fits(NextTotal(row.total, row.raw, s.raw), s.raw, c, m)
  PROVE  LET new == Refreshed(k, row, s)
         IN  /\ new \in Rows /\ Fits(new.total, new.raw, c, m)
             /\ Stored(s) => HourlyDelta(row, s.raw) \in Int /\ new.total = row.total + HourlyDelta(row, s.raw)
             /\ ~Stored(s) => new.total = row.total
<1>0. row.total \in Nat /\ row.raw \in Raws /\ row.available \in BOOLEAN /\ row.there \in BOOLEAN /\ s.raw \in Raws
  BY DEF Rows, Samples
<1>1. PICK new : new = Refreshed(k, row, s)
  OBVIOUS
<1>2. CASE Stored(s)
  <2>1. s.raw \in Nat
    BY <1>0, <1>2 DEF Stored, Raws
  <2>2. PICK t \in Nat : t = NextTotal(row.total, row.raw, s.raw)
    BY <1>0, <2>1, NextGrows
  <2>3. new = [total |-> t, raw |-> s.raw, there |-> TRUE, available |-> TRUE]
    BY <1>1, <1>2, <2>2 DEF Refreshed, Stored
  <2>4. new \in Rows /\ new.total = t /\ new.raw = s.raw
    BY <1>0, <2>2, <2>3 DEF Rows
  <2>5. HourlyDelta(row, s.raw) = t - row.total
    BY <2>2 DEF HourlyDelta
  <2>. QED BY <1>0, <1>1, <1>2, <2>2, <2>4, <2>5
<1>3. CASE ~Stored(s)
  <2>1. PICK a \in BOOLEAN : new = [row EXCEPT !.there = TRUE, !.available = a]
    <3>2. CASE s.down \/ (s.raw = Unread /\ BackendOf[k] = "awg")
      BY <1>1, <3>2 DEF Refreshed
    <3>3. CASE ~(s.down \/ (s.raw = Unread /\ BackendOf[k] = "awg"))
      <4>1. PICK a \in BOOLEAN : a = (row.available \/ ~row.there)
        BY Zenon
      <4>2. s.raw = Unread
        BY <1>3, <3>3 DEF Stored
      <4>. QED BY <1>1, <3>3, <4>1, <4>2 DEF Refreshed
    <3>. QED BY <3>2, <3>3
  <2>2. new \in Rows /\ new.total = row.total /\ new.raw = row.raw
    BY <2>1 DEF Rows
  <2>. QED BY <1>1, <1>3, <2>2
<1>. QED BY <1>2, <1>3


\* The transaction of a refresh: all its rows, or none.
LEMMA StoreKeeps ==
  ASSUME TrafficInv, NEW r \in Refreshers, StoreBatch(r)
  PROVE  TrafficInv'
<1>0. TrTypes /\ CountInv /\ FlightInv /\ HistoryInv
  BY DEF TrafficInv
<1>1. PICK f : f = refresh[r]
  OBVIOUS
<1>2. /\ f.at = "read" /\ refresh' = [refresh EXCEPT ![r] = IdleRefresh] /\ refreshLock' = "free"
      /\ UNCHANGED <<moved, counter, archived, deletedKeys, hourNow, forgotten, prunedHour>>
  BY <1>1 DEF StoreBatch
<1>3. Holds(f) /\ f.keys \subseteq TrKeys /\ refreshLock = r
  BY <1>0, <1>1, <1>2 DEF FlightInv, Flight
<1>4. \A q \in Refreshers : refresh'[q] = IF q = r THEN IdleRefresh ELSE refresh[q]
  BY <1>0, <1>2 DEF TrTypes
<1>5. FlightInv'
  <2>1. ASSUME NEW q \in Refreshers
        PROVE  /\ refresh'[q].keys \subseteq TrKeys /\ refresh'[q].at \notin Flight
               /\ refresh'[q] = [at |-> refresh'[q].at, keys |-> refresh'[q].keys, snap |-> refresh'[q].snap, rows |-> refresh'[q].rows]
    <3>1. CASE q = r
      BY <1>4, <3>1 DEF IdleRefresh, Flight
    <3>2. CASE q # r
      BY <1>0, <1>3, <1>4, <3>2 DEF FlightInv
    <3>. QED BY <3>1, <3>2
  <2>. QED BY <2>1 DEF FlightInv
<1>6. CASE f.keys \cap deletedKeys # {}
  <2>1. UNCHANGED <<stat, hourly>>
    BY <1>1, <1>6 DEF StoreBatch
  <2>2. TrTypes' /\ CountInv' /\ HistoryInv'
    BY <1>0, <1>2, <2>1 DEF TrTypes, CountInv, HistoryInv, TrafficTotal, OldHours
  <2>. QED BY <1>5, <2>2 DEF TrafficInv
<1>7. CASE f.keys \cap deletedKeys = {}
  <2>1. /\ stat' = [k \in TrKeys |-> IF k \in f.keys THEN Refreshed(k, f.rows[k], f.snap[k]) ELSE stat[k]]
        /\ hourly' = [k \in TrKeys |->
              IF k \in f.keys /\ Stored(f.snap[k])
              THEN [hourly[k] EXCEPT ![hourNow] = @ + HourlyDelta(f.rows[k], f.snap[k].raw)] ELSE hourly[k]]
    BY <1>1, <1>7 DEF StoreBatch
  <2>2. ASSUME NEW k \in f.keys
        PROVE  /\ k \in TrKeys \ deletedKeys /\ f.rows[k] = stat[k] /\ stat'[k] = Refreshed(k, stat[k], f.snap[k])
               /\ f.snap[k] \in Samples /\ stat'[k] \in Rows
               /\ Fits(stat'[k].total, stat'[k].raw, counter[k], moved[k])
               /\ Stored(f.snap[k]) => /\ HourlyDelta(stat[k], f.snap[k].raw) \in Int
                                       /\ stat'[k].total = stat[k].total + HourlyDelta(stat[k], f.snap[k].raw)
               /\ ~Stored(f.snap[k]) => stat'[k].total = stat[k].total
    <3>1. k \in TrKeys \ deletedKeys
      BY <1>3, <1>7
    <3>2. f.rows[k] = stat[k] /\ f.snap[k] \in Samples
      BY <1>2, <1>3, <3>1 DEF Holds
    <3>3. stat'[k] = Refreshed(k, stat[k], f.snap[k])
      BY <2>1, <3>1, <3>2
    <3>4. stat[k] \in Rows /\ counter[k] \in Raws /\ moved[k] \in Nat /\ Fits(stat[k].total, stat[k].raw, counter[k], moved[k])
      BY <1>0, <3>1 DEF TrTypes, CountInv
    <3>5. Stored(f.snap[k]) => Fits(NextTotal(stat[k].total, stat[k].raw, f.snap[k].raw), f.snap[k].raw, counter[k], moved[k])
      BY <1>3, <3>1 DEF Holds
    <3>. QED BY <3>1, <3>2, <3>3, <3>4, <3>5, RowRefreshed
  <2>3. ASSUME NEW k \in TrKeys
        PROVE  /\ hourly'[k] \in Buckets
               /\ Upto(hourly[k])'[LastHour + 1] = Upto(hourly[k])[LastHour + 1] + (stat'[k].total - stat[k].total)
               /\ Upto(hourly[k])'[OldHours] = Upto(hourly[k])[OldHours]
    <3>1. /\ hourly[k] \in Buckets /\ hourNow \in 0 .. LastHour /\ LastHour + 1 \in 0 .. LastHour + 1 /\ hourNow < LastHour + 1
          /\ OldHours \in 0 .. LastHour + 1 /\ ~(hourNow < OldHours) /\ stat[k].total \in Int
      BY <1>0, TrafficAssumption DEF TrTypes, OldHours, Rows
    <3>2. Upto(hourly[k])[LastHour + 1] \in Int /\ Upto(hourly[k])[OldHours] \in Int
      BY <3>1, UptoSums DEF Sums
    <3>3. PICK b : b = hourly'[k]
      OBVIOUS
    <3>4. CASE k \in f.keys /\ Stored(f.snap[k])
      <4>1. PICK d \in Int : d = HourlyDelta(stat[k], f.snap[k].raw) /\ stat'[k].total = stat[k].total + d
        BY <2>2, <3>4
      <4>2. b = [hourly[k] EXCEPT ![hourNow] = @ + d]
        BY <2>1, <2>2, <3>3, <3>4, <4>1
      <4>3. b \in Buckets
        BY <3>1, <4>2, UptoAdds
      <4>4. Upto(b)[LastHour + 1] = Upto(hourly[k])[LastHour + 1] + d
        BY <3>1, <4>2, UptoAdds
      <4>5. Upto(b)[OldHours] = Upto(hourly[k])[OldHours]
        <5>1. Upto(b)[OldHours] = Upto(hourly[k])[OldHours] + (IF hourNow < OldHours THEN d ELSE 0)
          BY <3>1, <4>2, UptoAdds
        <5>. QED BY <3>1, <3>2, <5>1
      <4>6. stat'[k].total - stat[k].total = d
        BY <3>1, <4>1
      <4>. QED BY <3>3, <4>3, <4>4, <4>5, <4>6, Zenon
    <3>5. CASE ~(k \in f.keys /\ Stored(f.snap[k]))
      <4>1. b = hourly[k] /\ stat'[k].total = stat[k].total
        BY <2>1, <2>2, <3>3, <3>5
      <4>2. stat'[k].total - stat[k].total = 0
        BY <3>1, <4>1
      <4>. QED BY <3>1, <3>2, <3>3, <4>1, <4>2
    <3>. QED BY <3>4, <3>5
  <2>4. TrTypes'
    <3>1. stat' \in [TrKeys -> Rows]
      BY <1>0, <2>1, <2>2 DEF TrTypes
    <3>2. hourly' \in [TrKeys -> Buckets]
      <4>1. hourly' = [k \in TrKeys |-> hourly'[k]]
        BY <2>1
      <4>. QED BY <2>3, <4>1
    <3>. QED BY <1>0, <1>2, <3>1, <3>2 DEF TrTypes
  <2>5. CountInv'
    <3>1. ASSUME NEW k \in TrKeys, k \notin f.keys PROVE stat'[k] = stat[k]
      BY <2>1, <3>1
    <3>. QED BY <1>0, <1>2, <1>7, <2>2, <3>1 DEF CountInv
  <2>6. HistoryInv'
    <3>1. OldHours' = OldHours
      BY <1>2 DEF OldHours
    <3>2. ASSUME NEW k \in TrKeys
          PROVE  /\ Upto(hourly[k])'[LastHour + 1] + forgotten'[k] = TrafficTotal(k)'
                 /\ prunedHour' = hourNow' => Upto(hourly[k])'[OldHours'] = 0
      <4>1. /\ stat[k].total \in Int /\ archived[k] \in Int /\ forgotten[k] \in Int /\ stat'[k].total \in Int
            /\ Upto(hourly[k])[LastHour + 1] \in Int
        <5>1. hourly[k] \in Buckets /\ LastHour + 1 \in 0 .. LastHour + 1
          BY <1>0, TrafficAssumption DEF TrTypes
        <5>. QED BY <1>0, <2>4, <5>1, UptoSums DEF TrTypes, Rows, Sums
      <4>2. /\ Upto(hourly[k])[LastHour + 1] + forgotten[k] = stat[k].total + archived[k]
            /\ prunedHour = hourNow => Upto(hourly[k])[OldHours] = 0
        BY <1>0 DEF HistoryInv, TrafficTotal
      <4>3. TrafficTotal(k)' = stat'[k].total + archived[k]
        BY <1>2 DEF TrafficTotal
      <4>4. PICK u \in Int : u = Upto(hourly[k])[LastHour + 1]
        BY <4>1
      <4>5. u + (stat'[k].total - stat[k].total) + forgotten[k] = stat'[k].total + archived[k]
        BY <4>1, <4>2, <4>4
      <4>. QED BY <1>2, <2>3, <3>1, <4>2, <4>3, <4>4, <4>5
    <3>. QED BY <3>2 DEF HistoryInv
  <2>. QED BY <1>5, <2>4, <2>5, <2>6 DEF TrafficInv
<1>. QED BY <1>6, <1>7

\* Pruning takes the old buckets, and remembers what they held.
LEMMA PruneKeeps ==
  ASSUME TrafficInv, PruneHourly
  PROVE  TrafficInv'
<1>0. TrTypes /\ CountInv /\ FlightInv /\ HistoryInv
  BY DEF TrafficInv
<1>1. UNCHANGED <<moved, counter, stat, archived, deletedKeys, hourNow, refresh, refreshLock>>
  BY DEF PruneHourly
<1>2. CountInv' /\ FlightInv'
  BY <1>0, <1>1 DEF CountInv, FlightInv, Holds
<1>3. CASE prunedHour' = Unread /\ UNCHANGED <<hourly, forgotten>>
  <2>1. prunedHour' # hourNow'
    BY <1>0, <1>1, <1>3 DEF TrTypes, Unread
  <2>2. TrTypes'
    BY <1>0, <1>1, <1>3 DEF TrTypes
  <2>3. HistoryInv'
    BY <1>0, <1>1, <1>3, <2>1 DEF HistoryInv, TrafficTotal
  <2>. QED BY <1>2, <2>2, <2>3 DEF TrafficInv
<1>4. CASE /\ prunedHour' = hourNow
           /\ forgotten' = [k \in TrKeys |-> forgotten[k] + Upto(hourly[k])[OldHours]]
           /\ hourly' = [k \in TrKeys |-> [h \in 0..LastHour |-> IF h <= hourNow - RetainHours THEN 0 ELSE hourly[k][h]]]
  <2>1. PICK p : p = OldHours
    OBVIOUS
  <2>2. hourNow \in 0 .. LastHour /\ p \in 0 .. LastHour + 1 /\ p \in p .. LastHour + 1 /\ LastHour + 1 \in p .. LastHour + 1
    BY <1>0, <2>1, TrafficAssumption DEF TrTypes, OldHours
  <2>3. \A h \in 0 .. LastHour : h <= hourNow - RetainHours <=> h < p
    BY <2>1, <2>2, TrafficAssumption DEF OldHours
  <2>4. ASSUME NEW k \in TrKeys
        PROVE  /\ hourly'[k] \in Buckets /\ forgotten'[k] \in Int
               /\ Upto(hourly[k])'[LastHour + 1] + forgotten'[k] = Upto(hourly[k])[LastHour + 1] + forgotten[k]
               /\ Upto(hourly[k])'[p] = 0
    <3>1. hourly[k] \in Buckets /\ forgotten[k] \in Int
      BY <1>0 DEF TrTypes
    <3>2. PICK e : e = hourly'[k]
      OBVIOUS
    <3>3. e = [h \in 0 .. LastHour |-> IF h < p THEN 0 ELSE hourly[k][h]]
      BY <1>4, <2>3, <3>2
    <3>4. /\ e \in Buckets /\ Upto(e)[p] = Upto(hourly[k])[p] - Upto(hourly[k])[p]
          /\ Upto(e)[LastHour + 1] = Upto(hourly[k])[LastHour + 1] - Upto(hourly[k])[p]
      BY <2>2, <3>1, <3>3, UptoDrops
    <3>5. Upto(hourly[k])[p] \in Int /\ Upto(hourly[k])[LastHour + 1] \in Int
      BY <2>2, <3>1, UptoSums, TrafficAssumption DEF Sums
    <3>6. forgotten'[k] = forgotten[k] + Upto(hourly[k])[p]
      BY <1>4, <2>1
    <3>7. PICK a \in Int, b \in Int : a = Upto(hourly[k])[p] /\ b = Upto(hourly[k])[LastHour + 1]
      BY <3>5
    <3>8. Upto(e)[p] = 0 /\ Upto(e)[LastHour + 1] + forgotten'[k] = b + forgotten[k] /\ forgotten'[k] \in Int
      BY <3>1, <3>4, <3>6, <3>7
    <3>. QED BY <3>2, <3>4, <3>7, <3>8
  <2>5. TrTypes'
    <3>1. forgotten' \in [TrKeys -> Int]
      BY <1>4, <2>4
    <3>2. hourly' \in [TrKeys -> Buckets]
      <4>1. hourly' = [k \in TrKeys |-> hourly'[k]]
        BY <1>4
      <4>. QED BY <2>4, <4>1
    <3>3. prunedHour' \in 0 .. hourNow'
      BY <1>1, <1>4, <2>2
    <3>. QED BY <1>0, <1>1, <3>1, <3>2, <3>3 DEF TrTypes
  <2>6. HistoryInv'
    <3>1. OldHours' = p
      BY <1>1, <2>1 DEF OldHours
    <3>2. \A k \in TrKeys : TrafficTotal(k)' = TrafficTotal(k)
      BY <1>1 DEF TrafficTotal
    <3>. QED BY <1>0, <2>4, <3>1, <3>2 DEF HistoryInv
  <2>. QED BY <1>2, <2>5, <2>6 DEF TrafficInv
<1>. QED BY <1>3, <1>4 DEF PruneHourly

\* A hard delete moves the total of a key to the archive, and a refresh that has
\* listed the key cannot store it any more.
LEMMA DeleteKeeps ==
  ASSUME TrafficInv, NEW k \in TrKeys, HardDelete(k)
  PROVE  TrafficInv'
<1>0. TrTypes /\ CountInv /\ FlightInv /\ HistoryInv
  BY DEF TrafficInv
<1>1. /\ k \notin deletedKeys /\ deletedKeys' = deletedKeys \cup {k}
      /\ archived' = [archived EXCEPT ![k] = stat[k].total]
      /\ stat' = [stat EXCEPT ![k] = NoStat] /\ counter' = [counter EXCEPT ![k] = Unread]
      /\ UNCHANGED <<moved, hourly, hourNow, forgotten, prunedHour, refresh, refreshLock>>
  BY DEF HardDelete
<1>2. NoStat \in Rows /\ NoStat.total = 0
  BY DEF NoStat, Rows, Raws
<1>3. stat[k].total \in Nat /\ stat[k].raw \in Raws /\ moved[k] \in Nat /\ counter[k] \in Raws
  BY <1>0 DEF TrTypes, Rows
<1>4. TrTypes'
  BY <1>0, <1>1, <1>2, <1>3 DEF TrTypes, Raws
<1>5. \A j \in TrKeys : j # k => stat'[j] = stat[j] /\ archived'[j] = archived[j] /\ counter'[j] = counter[j]
  BY <1>0, <1>1 DEF TrTypes
<1>6. stat'[k] = NoStat /\ archived'[k] = stat[k].total /\ archived[k] = 0 /\ stat[k].total <= moved[k]
  <2>1. archived[k] = 0 /\ Fits(stat[k].total, stat[k].raw, counter[k], moved[k])
    BY <1>0, <1>1 DEF CountInv
  <2>2. stat[k].total <= moved[k]
    BY <1>3, <2>1, FitsMoves
  <2>. QED BY <1>0, <1>1, <2>1, <2>2 DEF TrTypes
<1>7. CountInv'
  BY <1>0, <1>1, <1>5, <1>6 DEF CountInv
<1>8. ASSUME NEW f, Holds(f), f.keys \subseteq TrKeys PROVE Holds(f)'
  <2>1. \A j \in f.keys \ deletedKeys' : j \in f.keys \ deletedKeys /\ stat'[j] = stat[j] /\ counter'[j] = counter[j] /\ moved'[j] = moved[j]
    BY <1>1, <1>5, <1>8
  <2>. QED BY <1>8, <2>1 DEF Holds
<1>9. FlightInv'
  <2>1. ASSUME NEW r \in Refreshers, Holds(refresh[r]) PROVE Holds(refresh[r])'
    <3>1. PICK f : f = refresh[r]
      OBVIOUS
    <3>2. Holds(f)'
      BY <1>0, <1>8, <2>1, <3>1 DEF FlightInv
    <3>. QED BY <1>1, <3>1, <3>2 DEF Holds
  <2>. QED BY <1>0, <1>1, <2>1 DEF FlightInv
<1>10. HistoryInv'
  <2>1. \A j \in TrKeys : TrafficTotal(j)' = TrafficTotal(j)
    BY <1>2, <1>3, <1>5, <1>6 DEF TrafficTotal
  <2>2. OldHours' = OldHours
    BY <1>1 DEF OldHours
  <2>. QED BY <1>0, <1>1, <2>1, <2>2 DEF HistoryInv
<1>. QED BY <1>4, <1>7, <1>9, <1>10 DEF TrafficInv

\* What the bot shows of a key's traffic is never more than the key moved, and the
\* totals and the hourly history agree, whatever restarts, deletions, failing
\* reads and prunings happen in between (refresh_views, prune_hourly,
\* hard_delete_with_stats).
THEOREM TrafficShown == TrafficSpec => []TrafficExact
<1>1. ASSUME TrafficInv, [TrafficNext]_trafficVars PROVE TrafficInv'
  <2>1. CASE UNCHANGED trafficVars
    BY <1>1, <2>1 DEF trafficVars, TrafficInv, TrTypes, CountInv, FlightInv, Holds, HistoryInv, TrafficTotal, OldHours
  <2>2. ASSUME NEW r \in Refreshers, NEW b, RefreshAll(r, b) PROVE TrafficInv'
    <3>1. {k \in TrKeys \ deletedKeys : BackendOf[k] = b} \in SUBSET TrKeys
      OBVIOUS
    <3>. QED BY <1>1, <2>2, <3>1, ListKeeps DEF RefreshAll
  <2>3. ASSUME NEW r \in Refreshers, NEW k \in TrKeys, RefreshForActor(r, k) PROVE TrafficInv'
    <3>1. {k} \in SUBSET TrKeys
      OBVIOUS
    <3>. QED BY <1>1, <2>3, <3>1, ListKeeps DEF RefreshForActor
  <2>. QED BY <1>1, <2>1, <2>2, <2>3, MoveKeeps, DeleteKeeps, RestartKeeps, HourKeeps, LoadKeeps, ReadKeeps,
              StoreKeeps, PruneKeeps DEF TrafficNext
<1>2. TrafficInv => TrafficExact
  <2>. SUFFICES ASSUME TrafficInv PROVE TrafficExact
    OBVIOUS
  <2>0. TrTypes /\ CountInv /\ HistoryInv
    BY DEF TrafficInv
  <2>1. ASSUME NEW k \in TrKeys PROVE TrafficTotal(k) <= moved[k]
    <3>1. stat[k].total \in Nat /\ stat[k].raw \in Raws /\ moved[k] \in Nat /\ counter[k] \in Raws /\ archived[k] \in Nat
      BY <2>0 DEF TrTypes, Rows
    <3>2. CASE k \in deletedKeys
      BY <2>0, <3>1, <3>2 DEF CountInv, TrafficTotal, NoStat
    <3>3. CASE k \notin deletedKeys
      <4>1. archived[k] = 0 /\ Fits(stat[k].total, stat[k].raw, counter[k], moved[k])
        BY <2>0, <3>3 DEF CountInv
      <4>2. stat[k].total <= moved[k]
        BY <3>1, <4>1, FitsMoves
      <4>. QED BY <3>1, <4>1, <4>2 DEF TrafficTotal
    <3>. QED BY <3>2, <3>3
  <2>2. ASSUME NEW k \in TrKeys, prunedHour = hourNow
        PROVE  TrafficWindow(k, RetainHours) + forgotten[k] = TrafficTotal(k)
    <3>1. WindowStart(RetainHours) = OldHours
      BY DEF WindowStart, OldHours
    <3>2. hourly[k] \in Buckets /\ LastHour + 1 \in 0 .. LastHour + 1
      BY <2>0, TrafficAssumption DEF TrTypes
    <3>3. Upto(hourly[k])[LastHour + 1] \in Int
      BY <3>2, UptoSums DEF Sums
    <3>4. Upto(hourly[k])[OldHours] = 0 /\ Upto(hourly[k])[LastHour + 1] + forgotten[k] = TrafficTotal(k)
      BY <2>0, <2>2 DEF HistoryInv
    <3>5. TrafficWindow(k, RetainHours) = Upto(hourly[k])[LastHour + 1]
      BY <3>1, <3>3, <3>4 DEF TrafficWindow
    <3>. QED BY <3>4, <3>5
  <2>. QED BY <2>0, <2>1, <2>2 DEF TrafficExact, NeverOvercounts, HistoryAgrees, HistoryInv
<1>. QED BY <1>1, <1>2, TrafficStarts, PTL DEF TrafficSpec

-----------------------------------------------------------------------------
(* Alerts                                                                  *)

\* The time an alert sent now would bear.
Clock == IF scan.at = "sleep" THEN tick ELSE scan.now

AnType ==
    /\ tick \in Nat \ {0} /\ scan.now \in Nat
    /\ scan = [at |-> scan.at, now |-> scan.now, todo |-> scan.todo, triggered |-> scan.triggered]
    /\ scan.at # "sleep" => scan.now \in 1..tick
    /\ lastAlert \in [AnKeys -> Nat]
    /\ \A e \in accessLog : e.ts \in Nat
    /\ DOMAIN observed = AnKeys
    /\ \A k \in AnKeys : \A o \in observed[k] : o.ts \in Nat

\* What was observed: connections of the log with their own times, and AWG peers; never
\* a Hysteria2 key, and nothing older than the window of the last alert.
ObservedIsReal ==
    \A k \in AnKeys : \A o \in observed[k] :
        /\ Protocol[k] # "hysteria2"
        /\ o.ts <= Clock + FutureSkew
        /\ Protocol[k] = "xray" => \E e \in accessLog : e.key = k /\ e.net = o.net /\ e.ts = o.ts
        /\ \A a \in alerts : o.ts >= a.ts - ScanWindow

\* The keys a phase of the scan still has to look at, and what it leaves of the others.
Looked ==
    /\ scan.todo \subseteq AnKeys
    /\ scan.at = "online" => scan.todo \subseteq OfProtocol("hysteria2")
    /\ scan.at = "judge" => \A k \in scan.todo : Protocol[k] # "hysteria2" /\ observed[k] # {}
    /\ scan.at \in {"judge", "alert", "online"} =>
        \A k \in AnKeys \ (IF scan.at = "judge" THEN scan.todo ELSE {}) :
            \A o \in observed[k] : o.ts >= scan.now - ScanWindow

\* An alert that was sent names keys, one of its own or those of its bundle.
AlertShape ==
    \A a \in alerts :
        /\ a.ts \in Nat \ {0} /\ a.ts <= Clock
        /\ a.keys \subseteq AnKeys
        /\ a.signal = "conn" => a.subject \in AnKeys
        /\ a.subject \in AnKeys => a.keys = {a.subject}

\* As long as an alert is remembered its keys are stamped, and something they did is
\* still observed; its bundle is stamped for the rest of the second.
Stamps ==
    \A a \in alerts :
        /\ \A k \in a.keys :
            \/ Clock - a.ts >= Remembers(k)
            \/ /\ lastAlert[k] >= a.ts
               /\ \/ Protocol[k] = "hysteria2"
                  \/ \E o \in observed[k] : o.ts >= a.ts - Counted
        /\ a.signal = "ip" /\ a.ts = Clock =>
            \A k \in AnKeys : ParentOf[k] = a.subject => lastAlert[k] >= a.ts

\* A key waiting for its alert: judged once, on evidence that is fresh, and no alert
\* about it or its bundle is remembered.
Waiting(t) ==
    /\ t.key \in AnKeys /\ Protocol[t.key] # "hysteria2"
    /\ scan.at \in {"judge", "alert"}
    /\ scan.at = "judge" => t.key \notin scan.todo
    /\ \A u \in scan.triggered : u.key = t.key => u = t
    /\ \E o \in observed[t.key] : o.ts >= scan.now - Counted
    /\ Concurrent > 0 /\ Protocol[t.key] = "xray" => \A net \in t.nets : \E e \in accessLog :
            /\ e.key = t.key /\ e.net = net
            /\ e.ts >= scan.now - Concurrent /\ e.ts <= scan.now + FutureSkew
    /\ \A a \in alerts :
        /\ t.key \in a.keys => scan.now - a.ts >= Remembers(t.key)
        /\ a.signal = "ip" /\ a.subject = ParentOf[t.key] /\ Cooldown > 0 => a.ts # scan.now

AnInv ==
    /\ AnType /\ ObservedIsReal /\ Looked /\ AlertShape /\ Stamps
    /\ \A t \in scan.triggered : Waiting(t)
    /\ AlertsAreEarned

\* How long an alert is remembered, at most the cooldown.
LEMMA RememberBound ==
    ASSUME NEW k \in AnKeys
    PROVE  /\ Counted \in 0..ScanWindow /\ ScanWindow \in Nat /\ Cooldown \in Nat
           /\ Remembers(k) \in Nat /\ Remembers(k) <= Cooldown
           /\ Cooldown > 0 => Remembers(k) > 0
           /\ Protocol[k] # "hysteria2" => Remembers(k) <= ScanWindow - Counted + 1
<1>1. Counted \in 0..ScanWindow /\ ScanWindow \in Nat /\ Cooldown \in Nat
    BY AnomalyAssumption DEF Counted
<1> QED BY <1>1 DEF Remembers

\* A step after which nothing was alerted, stamped or forgotten: the log may have grown.
LEMMA LogGrows ==
    ASSUME AnInv, accessLog \subseteq accessLog', \A e \in accessLog' : e.ts \in Nat,
           UNCHANGED <<tick, scan, observed, lastAlert, alerts>>
    PROVE  AnInv'
<1>1. AnType' BY DEF AnInv, AnType
<1>2. ObservedIsReal'
    <2>1. Clock' = Clock BY DEF Clock
    <2> QED BY <2>1 DEF AnInv, ObservedIsReal
<1>3. Looked' BY DEF AnInv, Looked
<1>4. AlertShape' BY DEF AnInv, AlertShape, Clock
<1>5. Stamps' BY DEF AnInv, Stamps, Clock
<1>6. \A t \in scan.triggered : Waiting(t)'
    <2> TAKE t \in scan.triggered
    <2>1. Waiting(t) BY DEF AnInv
    <2> QED BY <2>1 DEF Waiting
<1>7. AlertsAreEarned'
    <2>1. AlertIsConcurrent' BY DEF AnInv, AlertsAreEarned, AlertIsConcurrent
    <2>2. AlertsAreSpaced' BY DEF AnInv, AlertsAreEarned, AlertsAreSpaced, Apart
    <2> QED BY <2>1, <2>2 DEF AlertsAreEarned
<1>8. \A t \in scan'.triggered : Waiting(t)' BY <1>6
<1> QED BY <1>1, <1>2, <1>3, <1>4, <1>5, <1>8, <1>7 DEF AnInv

\* Nothing is alerted: what was sent is as well earned as before.
LEMMA NothingSent ==
    ASSUME AlertsAreEarned, UNCHANGED <<accessLog, alerts>>
    PROVE  AlertsAreEarned'
BY DEF AlertsAreEarned, AlertIsConcurrent, AlertsAreSpaced, Apart

\* Time passes or the scan goes on: nothing is observed, stamped or sent.
LEMMA TimePasses ==
    ASSUME AnInv, AnType', Looked', \A t \in scan'.triggered : Waiting(t)',
           Clock' >= Clock, UNCHANGED <<accessLog, observed, lastAlert, alerts>>
    PROVE  AnInv'
<1>0. Clock \in Nat /\ Clock' \in Nat /\ FutureSkew \in Nat
    BY AnomalyAssumption DEF AnInv, AnType, Clock
<1>2. ObservedIsReal'
    <2> SUFFICES ASSUME NEW k \in AnKeys, NEW o \in observed[k] PROVE o.ts <= Clock' + FutureSkew
        BY DEF AnInv, ObservedIsReal
    <2>1. o.ts <= Clock + FutureSkew /\ o.ts \in Nat BY DEF AnInv, ObservedIsReal, AnType
    <2> QED BY <2>1, <1>0
<1>4. AlertShape'
    <2> SUFFICES ASSUME NEW a \in alerts PROVE a.ts <= Clock'
        BY DEF AnInv, AlertShape
    <2> QED BY <1>0 DEF AnInv, AlertShape
<1>5. Stamps'
    <2> SUFFICES ASSUME NEW a \in alerts
                 PROVE /\ \A k \in a.keys :
                            \/ Clock' - a.ts >= Remembers(k)
                            \/ /\ lastAlert[k] >= a.ts
                               /\ \/ Protocol[k] = "hysteria2"
                                  \/ \E o \in observed[k] : o.ts >= a.ts - Counted
                       /\ a.signal = "ip" /\ a.ts = Clock' =>
                            \A k \in AnKeys : ParentOf[k] = a.subject => lastAlert[k] >= a.ts
        BY DEF Stamps
    <2>0. a.ts \in Nat /\ a.ts <= Clock /\ a.keys \subseteq AnKeys BY DEF AnInv, AlertShape
    <2>1. ASSUME NEW k \in a.keys, Clock - a.ts >= Remembers(k)
          PROVE  Clock' - a.ts >= Remembers(k)
        <3>1. Remembers(k) \in Nat BY <2>0, RememberBound
        <3> QED BY <1>0, <2>0, <2>1, <3>1
    <2>2. a.ts = Clock' => a.ts = Clock BY <1>0, <2>0
    <2> QED BY <2>1, <2>2 DEF AnInv, Stamps
<1>7. AlertsAreEarned' BY NothingSent DEF AnInv
<1> QED BY <1>2, <1>4, <1>5, <1>7 DEF AnInv

\* Only between its judgement and its alert does a key wait.
LEMMA NoneWaits ==
    ASSUME AnInv, scan.at \notin {"judge", "alert"}
    PROVE  scan.triggered = {}
BY DEF AnInv, Waiting

\* The clock, and the steps of a scan that only move it on.
LEMMA MovesOn == AnInv /\ (ClockTick \/ Judged \/ Dispatched \/ EndScan) => AnInv'
<1> SUFFICES ASSUME AnInv, ClockTick \/ Judged \/ Dispatched \/ EndScan PROVE AnInv' OBVIOUS
<1>r. /\ scan = [at |-> scan.at, now |-> scan.now, todo |-> scan.todo, triggered |-> scan.triggered]
      /\ tick \in Nat \ {0} /\ scan.now \in Nat
      /\ scan.at # "sleep" => scan.now \in 1..tick
    BY DEF AnInv, AnType
<1>1. CASE ClockTick
    <2> USE <1>1 DEF ClockTick, scanVars
    <2>1. AnType' BY DEF AnInv, AnType
    <2>2. Looked' BY DEF AnInv, Looked
    <2>3. ASSUME NEW t \in scan'.triggered PROVE Waiting(t)'
        <3>1. Waiting(t) BY DEF AnInv
        <3> QED BY <3>1 DEF Waiting
    <2>4. Clock' >= Clock BY <1>r DEF Clock
    <2> QED BY <2>1, <2>2, <2>3, <2>4, TimePasses
<1>2. CASE Judged
    <2> USE <1>2 DEF Judged
    <2>s. scan' = [at |-> "alert", now |-> scan.now, todo |-> scan.todo, triggered |-> scan.triggered]
        BY <1>r
    <2>1. AnType' BY <2>s DEF AnInv, AnType
    <2>2. Looked' BY <2>s DEF AnInv, Looked
    <2>3. ASSUME NEW t \in scan'.triggered PROVE Waiting(t)'
        <3>1. Waiting(t) BY <2>s DEF AnInv
        <3>2. \A u \in scan'.triggered : u \in scan.triggered BY <2>s
        <3> QED BY <3>1, <3>2, <2>s DEF Waiting
    <2>4. Clock' >= Clock BY <1>r, <2>s DEF Clock
    <2> QED BY <2>1, <2>2, <2>3, <2>4, TimePasses
<1>3. CASE Dispatched
    <2> USE <1>3 DEF Dispatched
    <2>s. scan' = [at |-> "online", now |-> scan.now, todo |-> OfProtocol("hysteria2"),
                   triggered |-> {}]
        BY <1>r
    <2>1. AnType' BY <2>s DEF AnInv, AnType
    <2>2. Looked' BY <2>s DEF AnInv, Looked, OfProtocol
    <2>3. \A t \in scan'.triggered : Waiting(t)' BY <2>s
    <2>4. Clock' >= Clock BY <1>r, <2>s DEF Clock
    <2> QED BY <2>1, <2>2, <2>3, <2>4, TimePasses
<1>4. CASE EndScan
    <2> USE <1>4 DEF EndScan, NoScan
    <2>1. AnType' BY DEF AnInv, AnType
    <2>2. Looked' BY DEF Looked
    <2>3. \A t \in scan'.triggered : Waiting(t)' OBVIOUS
    <2>4. Clock' = tick /\ Clock = scan.now /\ scan.now <= tick
        <3>1. scan.at = "online" /\ scan'.at = "sleep" /\ tick' = tick OBVIOUS
        <3> QED BY <1>r, <3>1 DEF Clock
    <2>5. Clock' >= Clock BY <1>r, <2>4
    <2> QED BY <2>1, <2>2, <2>3, <2>5, TimePasses
<1> QED BY <1>1, <1>2, <1>3, <1>4

\* check_all begins: a stamp older than the cooldown is forgotten, and so is its alert.
LEMMA Begins == AnInv /\ BeginScan => AnInv'
<1> SUFFICES ASSUME AnInv, BeginScan PROVE AnInv' OBVIOUS
<1> USE DEF BeginScan, NoScan
<1>0. /\ tick \in Nat \ {0} /\ scan.at = "sleep" /\ Clock = tick /\ Clock' = tick
      /\ scan' = [at |-> "awg", now |-> tick, todo |-> {}, triggered |-> {}]
    <2>1. scan' = [at |-> "awg", now |-> tick, todo |-> {}, triggered |-> {}] OBVIOUS
    <2>2. scan'.at # "sleep" /\ scan'.now = tick BY <2>1
    <2>3. tick \in Nat \ {0} BY DEF AnInv, AnType
    <2>4. scan.at = "sleep" OBVIOUS
    <2> QED BY <2>1, <2>2, <2>3, <2>4 DEF Clock
<1>1. AnType'
    <2>1. lastAlert' \in [AnKeys -> Nat] BY DEF AnInv, AnType, Evicted
    <2>2. /\ tick' = tick /\ scan'.now = tick
          /\ scan' = [at |-> scan'.at, now |-> scan'.now, todo |-> scan'.todo,
                      triggered |-> scan'.triggered]
        BY <1>0
    <2>3. accessLog' = accessLog /\ observed' = observed OBVIOUS
    <2> QED BY ONLY <2>1, <2>2, <2>3, <1>0, AnInv DEF AnInv, AnType
<1>2. ObservedIsReal' BY <1>0 DEF AnInv, ObservedIsReal
<1>3. Looked' BY <1>0 DEF Looked
<1>4. AlertShape' BY <1>0 DEF AnInv, AlertShape
<1>5. Stamps'
    <2> SUFFICES ASSUME NEW a \in alerts
                 PROVE /\ \A k \in a.keys :
                            \/ Clock' - a.ts >= Remembers(k)
                            \/ /\ lastAlert'[k] >= a.ts
                               /\ \/ Protocol[k] = "hysteria2"
                                  \/ \E o \in observed[k] : o.ts >= a.ts - Counted
                       /\ a.signal = "ip" /\ a.ts = Clock' =>
                            \A k \in AnKeys : ParentOf[k] = a.subject => lastAlert'[k] >= a.ts
        BY DEF Stamps
    <2>0. a.ts \in Nat /\ a.ts <= tick /\ a.keys \subseteq AnKeys BY <1>0 DEF AnInv, AlertShape
    <2>1. ASSUME NEW k \in AnKeys, lastAlert[k] >= a.ts
          PROVE  tick - a.ts > Cooldown \/ lastAlert'[k] >= a.ts
        <3>1. lastAlert'[k] = IF lastAlert[k] < tick - Cooldown THEN 0 ELSE lastAlert[k]
            BY DEF Evicted
        <3>2. lastAlert[k] \in Nat /\ Cooldown \in Nat BY AnomalyAssumption DEF AnInv, AnType
        <3> QED BY <3>1, <3>2, <2>0, <2>1, <1>0
    <2>2. ASSUME NEW k \in a.keys, tick - a.ts > Cooldown PROVE Clock' - a.ts >= Remembers(k)
        <3>1. Remembers(k) \in Nat /\ Remembers(k) <= Cooldown /\ Cooldown \in Nat
            BY <2>0, RememberBound
        <3> QED BY <3>1, <2>2, <2>0, <1>0
    <2>3. ASSUME NEW k \in a.keys
          PROVE  \/ Clock' - a.ts >= Remembers(k)
                 \/ /\ lastAlert'[k] >= a.ts
                    /\ \/ Protocol[k] = "hysteria2"
                       \/ \E o \in observed[k] : o.ts >= a.ts - Counted
        BY <1>0, <2>0, <2>1, <2>2 DEF AnInv, Stamps
    <2>4. ASSUME a.signal = "ip", a.ts = Clock', NEW k \in AnKeys, ParentOf[k] = a.subject
          PROVE  lastAlert'[k] >= a.ts
        <3>1. lastAlert[k] >= a.ts BY <1>0, <2>4 DEF AnInv, Stamps
        <3>2. tick - a.ts = 0 /\ Cooldown \in Nat BY <1>0, <2>4, AnomalyAssumption
        <3> QED BY <2>1, <3>1, <3>2
    <2> QED BY <2>3, <2>4
<1>6. \A t \in scan'.triggered : Waiting(t)' BY <1>0
<1>7. AlertsAreEarned' BY NothingSent DEF AnInv
<1> QED BY <1>1, <1>2, <1>3, <1>4, <1>5, <1>6, <1>7 DEF AnInv

\* A sample adds what was seen of the last window, each at its own time.
LEMMA Observes ==
    ASSUME AnInv, scan.at \in {"awg", "xray"}, scan' = [scan EXCEPT !.at = scan'.at, !.todo = scan'.todo],
           scan'.at # "sleep", Looked', DOMAIN observed' = AnKeys,
           UNCHANGED <<tick, accessLog, lastAlert, alerts>>,
           \A k \in AnKeys :
               /\ observed[k] \subseteq observed'[k]
               /\ \A o \in observed'[k] \ observed[k] :
                    /\ o.ts \in Nat /\ o.ts >= scan.now - ScanWindow /\ o.ts <= scan.now + FutureSkew
                    /\ Protocol[k] # "hysteria2"
                    /\ Protocol[k] = "xray" =>
                            \E e \in accessLog : e.key = k /\ e.net = o.net /\ e.ts = o.ts
    PROVE  AnInv'
<1>0. /\ scan' = [at |-> scan'.at, now |-> scan.now, todo |-> scan'.todo, triggered |-> {}]
      /\ scan'.now = scan.now /\ scan'.triggered = {}
    <2>1. scan = [at |-> scan.at, now |-> scan.now, todo |-> scan.todo, triggered |-> scan.triggered]
        BY DEF AnInv, AnType
    <2>2. scan.triggered = {} BY NoneWaits
    <2> QED BY <2>1, <2>2
<1>1. Clock = scan.now /\ Clock' = scan.now /\ scan.now \in 1..tick /\ tick \in Nat
    BY <1>0 DEF Clock, AnInv, AnType
<1>2. AnType' BY <1>0, <1>1 DEF AnInv, AnType
<1>3. ObservedIsReal'
    <2> SUFFICES ASSUME NEW k \in AnKeys, NEW o \in observed'[k]
                 PROVE  /\ Protocol[k] # "hysteria2"
                        /\ o.ts <= Clock' + FutureSkew
                        /\ Protocol[k] = "xray" =>
                                \E e \in accessLog : e.key = k /\ e.net = o.net /\ e.ts = o.ts
                        /\ \A a \in alerts : o.ts >= a.ts - ScanWindow
        BY DEF ObservedIsReal
    <2>1. CASE o \in observed[k] BY <2>1, <1>1 DEF AnInv, ObservedIsReal
    <2>2. CASE o \notin observed[k]
        <3>1. \A a \in alerts : a.ts \in Nat /\ a.ts <= scan.now BY <1>1 DEF AnInv, AlertShape
        <3>2. o.ts \in Nat /\ o.ts >= scan.now - ScanWindow BY <2>2
        <3>3. ScanWindow \in Nat BY AnomalyAssumption
        <3>4. \A a \in alerts : o.ts >= a.ts - ScanWindow BY <3>1, <3>2, <3>3, <1>1
        <3> QED BY <3>4, <2>2, <1>1
    <2> QED BY <2>1, <2>2
<1>4. AlertShape' BY <1>1 DEF AnInv, AlertShape
<1>5. Stamps' BY <1>1 DEF AnInv, Stamps, AlertShape
<1>6. \A t \in scan'.triggered : Waiting(t)' BY <1>0
<1>7. AlertsAreEarned' BY NothingSent DEF AnInv
<1> QED BY <1>2, <1>3, <1>4, <1>5, <1>6, <1>7 DEF AnInv

\* _sample_awg_endpoints: the peers are where they are now.
LEMMA SamplesAwg == AnInv /\ SampleAwg => AnInv'
<1> SUFFICES ASSUME AnInv, SampleAwg PROVE AnInv' OBVIOUS
<1> USE DEF SampleAwg
<1>1. scan = [at |-> scan.at, now |-> scan.now, todo |-> scan.todo, triggered |-> scan.triggered]
    BY DEF AnInv, AnType
<1>2. scan' = [at |-> "xray", now |-> scan.now, todo |-> scan.todo, triggered |-> scan.triggered]
    BY <1>1
<1>3. Looked' BY <1>2 DEF AnInv, Looked
<1>4. scan.now \in Nat /\ ScanWindow \in Nat /\ FutureSkew \in Nat
    BY AnomalyAssumption DEF AnInv, AnType
<1>5. ASSUME NEW k \in AnKeys
      PROVE  /\ observed[k] \subseteq observed'[k]
             /\ \A o \in observed'[k] \ observed[k] : o.ts = scan.now /\ Protocol[k] = "awg"
    <2>1. observed'[k] = IF k \in Active("awg") /\ endpoint[k] # "none"
                         THEN Recorded(k, {[net |-> endpoint[k], ts |-> scan.now]})
                         ELSE observed[k]
        OBVIOUS
    <2> QED BY <2>1 DEF Recorded, Active, OfProtocol
<1>6. \A k \in AnKeys :
        /\ observed[k] \subseteq observed'[k]
        /\ \A o \in observed'[k] \ observed[k] :
            /\ o.ts \in Nat /\ o.ts >= scan.now - ScanWindow /\ o.ts <= scan.now + FutureSkew
            /\ Protocol[k] # "hysteria2"
            /\ Protocol[k] = "xray" =>
                \E e \in accessLog : e.key = k /\ e.net = o.net /\ e.ts = o.ts
    BY <1>4, <1>5
<1>7. scan' = [scan EXCEPT !.at = scan'.at, !.todo = scan'.todo] BY <1>1, <1>2
<1> QED BY <1>2, <1>3, <1>6, <1>7, Observes

\* _sample_xray_log: the lines of the window, each at its own time.
LEMMA SamplesXray == AnInv /\ SampleXray => AnInv'
<1> SUFFICES ASSUME AnInv, SampleXray PROVE AnInv' OBVIOUS
<1> USE DEF SampleXray
<1>1. scan = [at |-> scan.at, now |-> scan.now, todo |-> scan.todo, triggered |-> scan.triggered]
    BY DEF AnInv, AnType
<1>2. scan' = [at |-> "judge", now |-> scan.now, todo |-> { k \in AnKeys : observed'[k] # {} },
               triggered |-> scan.triggered]
    BY <1>1
<1>4. scan.now \in Nat /\ ScanWindow \in Nat /\ FutureSkew \in Nat
    BY AnomalyAssumption DEF AnInv, AnType
<1>5. ASSUME NEW k \in AnKeys
      PROVE  /\ observed[k] \subseteq observed'[k]
             /\ \A o \in observed'[k] \ observed[k] : Protocol[k] = "xray" /\ \E e \in NewLines :
                    e.key = k /\ e.net = o.net /\ e.ts = o.ts
    <2>1. observed'[k] = Recorded(k, { [net |-> e.net, ts |-> StampOf(e)] :
                                            e \in { l \in NewLines : l.key = k } })
        OBVIOUS
    <2>2. \A e \in NewLines : e.key = k => Protocol[k] = "xray"
        BY DEF NewLines, LogTail, Active, OfProtocol
    <2> QED BY <2>1, <2>2 DEF Recorded, StampOf
<1>5a. \A e \in NewLines : /\ e \in accessLog /\ e.ts \in Nat
                           /\ e.ts >= scan.now - ScanWindow /\ e.ts <= scan.now + FutureSkew
    BY DEF NewLines, LogTail, AnInv, AnType
<1>6. \A k \in AnKeys :
        /\ observed[k] \subseteq observed'[k]
        /\ \A o \in observed'[k] \ observed[k] :
            /\ o.ts \in Nat /\ o.ts >= scan.now - ScanWindow /\ o.ts <= scan.now + FutureSkew
            /\ Protocol[k] # "hysteria2"
            /\ Protocol[k] = "xray" =>
                \E e \in accessLog : e.key = k /\ e.net = o.net /\ e.ts = o.ts
    BY <1>5, <1>5a
<1>3. Looked'
    <2>1. scan'.at = "judge" /\ scan'.todo = { k \in AnKeys : observed'[k] # {} } BY <1>2
    <2>2. ASSUME NEW k \in scan'.todo PROVE Protocol[k] # "hysteria2" /\ observed'[k] # {}
        BY <2>1, <1>6 DEF AnInv, ObservedIsReal
    <2> QED BY <2>1, <2>2 DEF Looked
<1>7. scan' = [scan EXCEPT !.at = scan'.at, !.todo = scan'.todo] BY <1>1, <1>2
<1>8. DOMAIN observed' = AnKeys OBVIOUS
<1> QED BY <1>2, <1>3, <1>6, <1>7, <1>8, Observes

\* Two alerts in a row: the new one keeps its distance from each earlier one.
LEMMA SpacedOut ==
    ASSUME AlertsAreSpaced, NEW a, alerts' = alerts \cup {a},
           a.ts \in Nat, \A b \in alerts : b.ts \in Nat,
           \A b \in alerts :
               /\ \A k \in a.keys \cap b.keys : a.ts - b.ts >= Remembers(k)
               /\ a.signal = b.signal /\ a.subject = b.subject /\ Cooldown > 0 => a.ts # b.ts
    PROVE  AlertsAreSpaced'
<1> SUFFICES ASSUME NEW b \in alerts', NEW c \in alerts', b # c
             PROVE  /\ \A k \in b.keys \cap c.keys : Apart(b, c, Remembers(k))
                    /\ b.signal = c.signal /\ b.subject = c.subject /\ Cooldown > 0 => b.ts # c.ts
    BY DEF AlertsAreSpaced, Apart, Remembers, Counted
<1>1. CASE b \in alerts /\ c \in alerts BY <1>1 DEF AlertsAreSpaced
<1>2. CASE b = a /\ c \in alerts BY <1>2 DEF Apart
<1>3. CASE c = a /\ b \in alerts
    <2>1. \A k \in b.keys \cap c.keys : c.ts - b.ts >= Remembers(k) BY <1>3
    <2>2. b.signal = c.signal /\ b.subject = c.subject /\ Cooldown > 0 => b.ts # c.ts BY <1>3
    <2> QED BY <2>1, <2>2 DEF Apart
<1> QED BY <1>1, <1>2, <1>3

\* An alert is sent and a set of keys stamped.
LEMMA Sends ==
    ASSUME AnInv, NEW a, NEW S \in SUBSET AnKeys,
           scan.at \in {"alert", "online"}, UNCHANGED <<tick, accessLog, observed>>,
           scan' = [scan EXCEPT !.todo = scan'.todo, !.triggered = scan'.triggered],
           scan'.todo \subseteq scan.todo, scan'.triggered \subseteq scan.triggered,
           alerts' = alerts \cup {a}, a.ts = scan.now, a.keys \subseteq S,
           lastAlert' = [k \in AnKeys |-> IF k \in S THEN scan.now ELSE lastAlert[k]],
           a.signal = "conn" => a.subject \in AnKeys,
           a.subject \in AnKeys => a.keys = {a.subject},
           \A k \in a.keys : \/ Protocol[k] = "hysteria2"
                             \/ \E o \in observed[k] : o.ts >= scan.now - Counted,
           a.signal = "ip" => \A k \in AnKeys : ParentOf[k] = a.subject => k \in S,
           \A b \in alerts :
               /\ \A k \in a.keys \cap b.keys : scan.now - b.ts >= Remembers(k)
               /\ a.signal = b.signal /\ a.subject = b.subject /\ Cooldown > 0 => scan.now # b.ts,
           (a.signal = "ip" /\ Concurrent > 0) => \A net \in a.nets : \E k \in a.keys :
               \/ Protocol[k] = "awg"
               \/ \E e \in accessLog : /\ e.key = k /\ e.net = net
                                       /\ e.ts >= scan.now - Concurrent
                                       /\ e.ts <= scan.now + FutureSkew,
           \A t \in scan'.triggered : t.key \notin a.keys /\ a.subject # ParentOf[t.key]
    PROVE  AnInv'
<1>0. /\ scan' = [at |-> scan.at, now |-> scan.now, todo |-> scan'.todo, triggered |-> scan'.triggered]
      /\ scan'.at = scan.at /\ scan'.now = scan.now
    <2>1. scan = [at |-> scan.at, now |-> scan.now, todo |-> scan.todo, triggered |-> scan.triggered]
        BY DEF AnInv, AnType
    <2> QED BY <2>1
<1>1. Clock = scan.now /\ Clock' = scan.now /\ scan.now \in 1..tick /\ tick \in Nat \ {0}
    BY <1>0 DEF Clock, AnInv, AnType
<1>2. AnType'
    <2>1. lastAlert' \in [AnKeys -> Nat] BY <1>1 DEF AnInv, AnType
    <2> QED BY <1>0, <1>1, <2>1 DEF AnInv, AnType
<1>3. ObservedIsReal'
    <2>1. \A k \in AnKeys : \A o \in observed[k] : o.ts >= scan.now - ScanWindow
        BY DEF AnInv, Looked
    <2> QED BY <2>1, <1>1 DEF AnInv, ObservedIsReal
<1>4. Looked' BY <1>0 DEF AnInv, Looked
<1>5. AlertShape' BY <1>1 DEF AnInv, AlertShape
<1>6. Stamps'
    <2> SUFFICES ASSUME NEW b \in alerts'
                 PROVE /\ \A k \in b.keys :
                            \/ Clock' - b.ts >= Remembers(k)
                            \/ /\ lastAlert'[k] >= b.ts
                               /\ \/ Protocol[k] = "hysteria2"
                                  \/ \E o \in observed[k] : o.ts >= b.ts - Counted
                       /\ b.signal = "ip" /\ b.ts = Clock' =>
                            \A k \in AnKeys : ParentOf[k] = b.subject => lastAlert'[k] >= b.ts
        BY DEF Stamps, Remembers, Counted
    <2>1. CASE b = a BY <2>1, <1>1
    <2>2. CASE b \in alerts
        <3>1. b.ts \in Nat /\ b.ts <= scan.now /\ b.keys \subseteq AnKeys
            BY <2>2, <1>1 DEF AnInv, AlertShape
        <3>2. \A k \in AnKeys : lastAlert[k] >= b.ts => lastAlert'[k] >= b.ts BY <3>1, <1>1
        <3> QED BY <2>2, <3>1, <3>2, <1>1 DEF AnInv, Stamps
    <2> QED BY <2>1, <2>2
<1>7. \A t \in scan'.triggered : Waiting(t)'
    <2> SUFFICES ASSUME NEW t \in scan'.triggered PROVE Waiting(t)' OBVIOUS
    <2>1. Waiting(t) BY DEF AnInv
    <2>2. \A b \in alerts' :
            /\ t.key \in b.keys => scan.now - b.ts >= Remembers(t.key)
            /\ b.signal = "ip" /\ b.subject = ParentOf[t.key] /\ Cooldown > 0 => b.ts # scan.now
        BY <2>1 DEF Waiting
    <2> QED BY <2>1, <2>2, <1>0 DEF Waiting, Remembers, Counted
<1>8. AlertsAreEarned'
    <2>1. AlertIsConcurrent'
        BY <1>1 DEF AnInv, AlertsAreEarned, AlertIsConcurrent
    <2>2. AlertsAreSpaced /\ \A b \in alerts : b.ts \in Nat
        BY DEF AnInv, AlertsAreEarned, AlertShape
    <2>3. AlertsAreSpaced' BY <2>2, <1>1, SpacedOut
    <2> QED BY <2>1, <2>3 DEF AlertsAreEarned
<1> QED BY <1>2, <1>3, <1>4, <1>5, <1>6, <1>7, <1>8 DEF AnInv

\* What the judgement of a key k leaves to be alerted: k itself, if it is over.
LEMMA JudgesOne ==
    ASSUME AnInv, scan.at = "judge", NEW k \in scan.todo, NEW nets, nets = Triggering(k),
           Cardinality(nets) >= UniqueNets, InWindow(k) # {},
           lastAlert[k] # 0 => scan.now - lastAlert[k] >= Cooldown
    PROVE  /\ \E o \in InWindow(k) : o.ts >= scan.now - Counted
           /\ Concurrent > 0 /\ Protocol[k] = "xray" => \A net \in nets : \E e \in accessLog :
                    /\ e.key = k /\ e.net = net
                    /\ e.ts >= scan.now - Concurrent /\ e.ts <= scan.now + FutureSkew
           /\ \A a \in alerts :
                /\ k \in a.keys => scan.now - a.ts >= Remembers(k)
                /\ a.signal = "ip" /\ a.subject = ParentOf[k] /\ Cooldown > 0 => a.ts # scan.now
<1>0. /\ k \in AnKeys /\ Protocol[k] # "hysteria2" /\ scan.now \in Nat /\ Clock = scan.now
      /\ UniqueNets \in Nat \ {0} /\ Cooldown \in Nat
    BY AnomalyAssumption DEF AnInv, Looked, AnType, Clock
<1>1. nets # {}
    <2>1. Cardinality({}) = 0 BY FS_EmptySet
    <2> QED BY <2>1, <1>0
<1>2. \E o \in InWindow(k) : o.ts >= scan.now - Counted
    <2>1. PICK o \in InWindow(k) : Concurrent > 0 => o.ts >= scan.now - Concurrent
        BY <1>1 DEF Triggering
    <2>2. o.ts >= scan.now - ScanWindow BY DEF InWindow
    <2> QED BY <2>1, <2>2, AnomalyAssumption DEF Counted
<1>3. ASSUME Concurrent > 0, Protocol[k] = "xray", NEW net \in nets
      PROVE  \E e \in accessLog : /\ e.key = k /\ e.net = net
                                  /\ e.ts >= scan.now - Concurrent /\ e.ts <= scan.now + FutureSkew
    <2>1. PICK o \in InWindow(k) : o.net = net /\ o.ts >= scan.now - Concurrent
        BY <1>3 DEF Triggering
    <2>2. o \in observed[k] BY DEF InWindow
    <2>3. o.ts <= scan.now + FutureSkew BY <2>2, <1>0 DEF AnInv, ObservedIsReal
    <2>4. \E e \in accessLog : e.key = k /\ e.net = o.net /\ e.ts = o.ts
        BY <2>2, <1>0, <1>3 DEF AnInv, ObservedIsReal
    <2> QED BY <2>1, <2>3, <2>4
<1>4. ASSUME NEW a \in alerts
      PROVE  /\ k \in a.keys => scan.now - a.ts >= Remembers(k)
             /\ a.signal = "ip" /\ a.subject = ParentOf[k] /\ Cooldown > 0 => a.ts # scan.now
    <2>1. a.ts \in Nat \ {0} /\ a.keys \subseteq AnKeys BY DEF AnInv, AlertShape
    <2>2. lastAlert[k] \in Nat BY <1>0 DEF AnInv, AnType
    <2>3. Remembers(k) \in Nat /\ Remembers(k) <= Cooldown BY <1>0, RememberBound
    <2>4. lastAlert[k] >= a.ts => scan.now - a.ts >= Cooldown BY <2>1, <2>2, <1>0
    <2>5. k \in a.keys => scan.now - a.ts >= Remembers(k) \/ lastAlert[k] >= a.ts
        BY <1>0 DEF AnInv, Stamps
    <2>6. a.signal = "ip" /\ a.subject = ParentOf[k] /\ a.ts = scan.now => lastAlert[k] >= a.ts
        BY <1>0 DEF AnInv, Stamps
    <2>7. a.ts = scan.now => scan.now - a.ts = 0 BY <2>1, <1>0
    <2>8. k \in a.keys => scan.now - a.ts >= Remembers(k)
        BY <2>1, <2>3, <2>4, <2>5, <1>0
    <2>9. a.signal = "ip" /\ a.subject = ParentOf[k] /\ Cooldown > 0 => a.ts # scan.now
        BY <2>4, <2>6, <2>7, <1>0
    <2> QED BY <2>8, <2>9
<1> QED BY <1>2, <1>3, <1>4

\* A turn of _check_thresholds: what aged out takes the stamp along, but no alert that
\* is remembered.
LEMMA Judges == AnInv /\ JudgeKey => AnInv'
<1> SUFFICES ASSUME AnInv, JudgeKey PROVE AnInv' OBVIOUS
<1>0. PICK k \in scan.todo : k = (CHOOSE x \in scan.todo : TRUE) BY DEF JudgeKey
<1> DEFINE nets == Triggering(k)
           last == IF InWindow(k) = {} THEN 0 ELSE lastAlert[k]
           over == /\ Cardinality(nets) >= UniqueNets
                   /\ last # 0 => scan.now - last >= Cooldown
                   /\ keyActive[k]
           now == scan.now
<1>1. /\ scan.at = "judge"
      /\ observed' = [observed EXCEPT ![k] = InWindow(k)]
      /\ lastAlert' = [lastAlert EXCEPT ![k] = last]
      /\ scan' = [scan EXCEPT !.todo = @ \ {k},
                    !.triggered = IF over THEN @ \cup {[key |-> k, nets |-> nets]} ELSE @]
      /\ UNCHANGED <<tick, accessLog, alerts>>
    BY <1>0, Zenon DEF JudgeKey
<1>2. /\ scan'.at = "judge" /\ scan'.now = now /\ scan'.todo = scan.todo \ {k}
      /\ scan'.triggered = scan.triggered \cup (IF over THEN {[key |-> k, nets |-> nets]} ELSE {})
      /\ scan' = [at |-> scan'.at, now |-> scan'.now, todo |-> scan'.todo,
                  triggered |-> scan'.triggered]
    <2>1. scan = [at |-> scan.at, now |-> scan.now, todo |-> scan.todo, triggered |-> scan.triggered]
        BY DEF AnInv, AnType
    <2> HIDE DEF over, nets
    <2>2. CASE over BY <1>1, <2>1, <2>2
    <2>3. CASE ~over BY <1>1, <2>1, <2>3
    <2> QED BY <2>2, <2>3
<1>3. /\ k \in AnKeys /\ Protocol[k] # "hysteria2" /\ now \in 1..tick /\ tick \in Nat \ {0}
      /\ Clock = now /\ Clock' = now
    BY <1>1, <1>2 DEF AnInv, AnType, Looked, Clock
<1>4. /\ \A c \in AnKeys \ {k} : observed'[c] = observed[c] /\ lastAlert'[c] = lastAlert[c]
      /\ observed'[k] = InWindow(k) /\ lastAlert'[k] = last
      /\ \A c \in AnKeys : observed'[c] \subseteq observed[c]
      /\ DOMAIN observed' = AnKeys
    BY <1>1, <1>3 DEF AnInv, AnType, InWindow
<1>5. last \in Nat /\ (InWindow(k) # {} => last = lastAlert[k])
    BY <1>3 DEF AnInv, AnType
<1> HIDE DEF nets, last, over
<1>6. AnType'
    <2>1. lastAlert' \in [AnKeys -> Nat] BY <1>1, <1>5 DEF AnInv, AnType
    <2>2. \A c \in AnKeys : \A o \in observed'[c] : o.ts \in Nat BY <1>4 DEF AnInv, AnType
    <2> QED BY <1>1, <1>2, <1>3, <1>4, <2>1, <2>2 DEF AnInv, AnType
<1>7. ObservedIsReal' BY <1>1, <1>3, <1>4 DEF AnInv, ObservedIsReal
<1>8. Looked'
    <2>1. \A o \in observed'[k] : o.ts >= now - ScanWindow BY <1>4 DEF InWindow
    <2>2. \A c \in AnKeys \ scan.todo : \A o \in observed'[c] : o.ts >= now - ScanWindow
        BY <1>1, <1>4 DEF AnInv, Looked
    <2> QED BY <2>1, <2>2, <1>1, <1>2 DEF AnInv, Looked
<1>9. AlertShape' BY <1>1, <1>3 DEF AnInv, AlertShape
<1>10. Stamps'
    <2> SUFFICES ASSUME NEW a \in alerts
                 PROVE /\ \A c \in a.keys :
                            \/ now - a.ts >= Remembers(c)
                            \/ /\ lastAlert'[c] >= a.ts
                               /\ \/ Protocol[c] = "hysteria2"
                                  \/ \E o \in observed'[c] : o.ts >= a.ts - Counted
                       /\ a.signal = "ip" /\ a.ts = now =>
                            \A c \in AnKeys : ParentOf[c] = a.subject => lastAlert'[c] >= a.ts
        BY <1>1, <1>3 DEF Stamps, Remembers, Counted
    <2>0. a.ts \in Nat \ {0} /\ a.ts <= now /\ a.keys \subseteq AnKeys
        BY <1>3 DEF AnInv, AlertShape
    <2>1. \A c \in a.keys \ {k} :
            \/ now - a.ts >= Remembers(c)
            \/ /\ lastAlert'[c] >= a.ts
               /\ \/ Protocol[c] = "hysteria2"
                  \/ \E o \in observed'[c] : o.ts >= a.ts - Counted
        BY <1>3, <1>4, <2>0 DEF AnInv, Stamps
    <2>2. ASSUME k \in a.keys, ~(now - a.ts >= Remembers(k))
          PROVE  lastAlert'[k] >= a.ts /\ \E o \in observed'[k] : o.ts >= a.ts - Counted
        <3>1. PICK o \in observed[k] : lastAlert[k] >= a.ts /\ o.ts >= a.ts - Counted
            BY <1>3, <2>2 DEF AnInv, Stamps
        <3>2. o.ts \in Nat BY <1>3 DEF AnInv, AnType
        <3>3. /\ Counted \in 0..ScanWindow /\ ScanWindow \in Nat
              /\ Remembers(k) \in Nat /\ Remembers(k) <= ScanWindow - Counted + 1
            BY <1>3, RememberBound
        <3>4. o.ts >= now - ScanWindow BY <3>1, <3>2, <3>3, <2>0, <2>2, <1>3
        <3>5. o \in InWindow(k) BY <3>4 DEF InWindow
        <3> QED BY <3>1, <3>5, <1>4, <1>5
    <2>3. ASSUME a.signal = "ip", a.ts = now, NEW c \in AnKeys, ParentOf[c] = a.subject
          PROVE  lastAlert'[c] >= a.ts
        <3>1. lastAlert[c] >= a.ts BY <2>3, <1>3 DEF AnInv, Stamps
        <3>2. CASE c # k BY <3>1, <3>2, <1>4
        <3>3. CASE c = k
            <4>1. observed[k] # {} => observed[k] = InWindow(k)
                BY <2>3, <1>3 DEF AnInv, ObservedIsReal, InWindow
            <4>2. observed[k] # {} BY <1>1 DEF AnInv, Looked
            <4> QED BY <4>1, <4>2, <3>1, <3>3, <1>4, <1>5
        <3> QED BY <3>2, <3>3
    <2> QED BY <2>1, <2>2, <2>3
<1>11. ASSUME NEW t \in scan.triggered PROVE Waiting(t)' /\ t.key # k
    <2>1. Waiting(t) BY DEF AnInv
    <2>2. t.key \in AnKeys \ {k} BY <1>1, <2>1 DEF Waiting
    <2>3. \A u \in scan'.triggered : u.key = t.key => u \in scan.triggered BY <1>2, <2>2
    <2> QED BY <1>1, <1>2, <1>4, <2>1, <2>2, <2>3 DEF Waiting, Remembers, Counted
<1>12. ASSUME over, NEW t, t = [key |-> k, nets |-> nets] PROVE Waiting(t)'
    <2>1. InWindow(k) # {}
        <3>1. Cardinality({}) = 0 BY FS_EmptySet
        <3>2. InWindow(k) = {} => nets = {} BY DEF nets, Triggering
        <3> QED BY <3>1, <3>2, <1>12, AnomalyAssumption DEF over
    <2>2. /\ \E o \in InWindow(k) : o.ts >= scan.now - Counted
          /\ Concurrent > 0 /\ Protocol[k] = "xray" => \A net \in nets : \E e \in accessLog :
                    /\ e.key = k /\ e.net = net
                    /\ e.ts >= scan.now - Concurrent /\ e.ts <= scan.now + FutureSkew
          /\ \A a \in alerts :
                /\ k \in a.keys => scan.now - a.ts >= Remembers(k)
                /\ a.signal = "ip" /\ a.subject = ParentOf[k] /\ Cooldown > 0 => a.ts # scan.now
        <3>1. nets = Triggering(k) BY DEF nets
        <3>2. Cardinality(nets) >= UniqueNets BY <1>12 DEF over
        <3>3. lastAlert[k] # 0 => scan.now - lastAlert[k] >= Cooldown
            BY <1>12, <2>1, <1>5 DEF over
        <3> QED BY <1>1, <2>1, <3>1, <3>2, <3>3, JudgesOne
    <2>3. t.key = k /\ t.nets = nets BY <1>12
    <2>4. \A u \in scan'.triggered : u.key = k => u = t BY <1>2, <1>11, <1>12
    <2> QED BY <1>1, <1>2, <1>3, <1>4, <2>2, <2>3, <2>4 DEF Waiting, Remembers, Counted
<1>13. \A t \in scan'.triggered : Waiting(t)' BY <1>2, <1>11, <1>12
<1>14. AlertsAreEarned' BY <1>1, NothingSent DEF AnInv
<1> QED BY <1>6, <1>7, <1>8, <1>9, <1>10, <1>13, <1>14 DEF AnInv

\* The fields of an alert.
LEMMA AlertFields ==
    ASSUME NEW s, NEW subject, NEW keys, NEW nets
    PROVE  LET a == Alert(s, subject, keys, nets)
           IN  a.signal = s /\ a.subject = subject /\ a.keys = keys /\ a.nets = nets /\ a.ts = scan.now
BY DEF Alert

\* _fire_alert, for a key of no bundle.
LEMMA Fires == ASSUME AnInv, NEW t \in scan.triggered, FireAlert(t) PROVE AnInv'
<1>1. PICK a : a = Alert("ip", t.key, {t.key}, t.nets) OBVIOUS
<1>2. /\ a.signal = "ip" /\ a.subject = t.key /\ a.keys = {t.key} /\ a.nets = t.nets
      /\ a.ts = scan.now
    BY <1>1, AlertFields
<1>3. /\ scan.at = "alert" /\ UNCHANGED <<tick, accessLog, observed>>
      /\ scan' = [scan EXCEPT !.triggered = @ \ {t}]
      /\ alerts' = alerts \cup {a}
      /\ lastAlert' = [lastAlert EXCEPT ![t.key] = scan.now]
    BY <1>1 DEF FireAlert
<1>4. Waiting(t) /\ t.key \in AnKeys BY DEF AnInv, Waiting
<1>5. /\ scan' = [scan EXCEPT !.todo = scan'.todo, !.triggered = scan'.triggered]
      /\ scan'.todo = scan.todo /\ scan'.triggered = scan.triggered \ {t}
    <2>1. scan = [at |-> scan.at, now |-> scan.now, todo |-> scan.todo, triggered |-> scan.triggered]
        BY DEF AnInv, AnType
    <2> QED BY <2>1, <1>3
<1>6. lastAlert' = [k \in AnKeys |-> IF k \in {t.key} THEN scan.now ELSE lastAlert[k]]
    BY <1>3, <1>4 DEF AnInv, AnType
<1>7. \A k \in AnKeys : ParentOf[k] # t.key BY <1>4, AnomalyAssumption
<1>8. ASSUME NEW b \in alerts
      PROVE  /\ \A k \in a.keys \cap b.keys : scan.now - b.ts >= Remembers(k)
             /\ a.signal = b.signal /\ a.subject = b.subject /\ Cooldown > 0 => scan.now # b.ts
    <2>1. t.key \in b.keys => scan.now - b.ts >= Remembers(t.key) BY <1>4 DEF Waiting
    <2>2. b.ts \in Nat /\ (b.subject = t.key => t.key \in b.keys)
        BY <1>4 DEF AnInv, AlertShape
    <2>3. Cooldown > 0 => Remembers(t.key) > 0 BY <1>4, RememberBound
    <2>4. Remembers(t.key) \in Nat BY <1>4, RememberBound
    <2>5. scan.now = b.ts => scan.now - b.ts = 0 BY <2>2
    <2> QED BY <1>2, <2>1, <2>2, <2>3, <2>4, <2>5
<1>9. \A k \in a.keys : \/ Protocol[k] = "hysteria2"
                        \/ \E o \in observed[k] : o.ts >= scan.now - Counted
    BY <1>2, <1>4 DEF Waiting
<1>10. (a.signal = "ip" /\ Concurrent > 0) => \A net \in a.nets : \E k \in a.keys :
               \/ Protocol[k] = "awg"
               \/ \E e \in accessLog : /\ e.key = k /\ e.net = net
                                       /\ e.ts >= scan.now - Concurrent
                                       /\ e.ts <= scan.now + FutureSkew
    BY <1>2, <1>4, AnomalyAssumption DEF Waiting
<1>11. \A u \in scan'.triggered : u.key \notin a.keys /\ a.subject # ParentOf[u.key]
    <2> SUFFICES ASSUME NEW u \in scan.triggered, u # t PROVE u.key # t.key /\ t.key # ParentOf[u.key]
        BY <1>2, <1>5
    <2>1. u.key \in AnKeys BY DEF AnInv, Waiting
    <2> QED BY <2>1, <1>4, <1>7 DEF Waiting
<1>12. a.subject \in AnKeys => a.keys = {a.subject} BY <1>2
<1>13. {t.key} \in SUBSET AnKeys /\ a.keys \subseteq {t.key} BY <1>2, <1>4
<1>14. a.signal = "conn" => a.subject \in AnKeys BY <1>2
<1>15. a.signal = "ip" => \A k \in AnKeys : ParentOf[k] = a.subject => k \in {t.key} BY <1>2, <1>7
<1>16. scan.at \in {"alert", "online"} /\ scan'.todo \subseteq scan.todo
       /\ scan'.triggered \subseteq scan.triggered
    BY <1>3, <1>5
<1>17. a.ts = scan.now /\ alerts' = alerts \cup {a} /\ UNCHANGED <<tick, accessLog, observed>>
       /\ scan' = [scan EXCEPT !.todo = scan'.todo, !.triggered = scan'.triggered]
    BY <1>2, <1>3, <1>5
<1> QED BY ONLY AnInv, <1>6, <1>8, <1>9, <1>10, <1>11, <1>12, <1>13, <1>14, <1>15, <1>16, <1>17, Sends

\* _fire_bundle_alert: all the children that are over in one alert, and all the children
\* of the bundle stamped.
LEMMA FiresBundle ==
    ASSUME AnInv, NEW b \in {ParentOf[k] : k \in AnKeys} \ {NoParent}, FireBundleAlert(b)
    PROVE  AnInv'
<1>1. PICK mine : mine = { t \in scan.triggered : ParentOf[t.key] = b } OBVIOUS
<1>2. PICK members : members = { t.key : t \in mine } OBVIOUS
<1>3. PICK a : a = Alert("ip", b, members, UNION { t.nets : t \in mine }) OBVIOUS
<1>4. /\ a.signal = "ip" /\ a.subject = b /\ a.keys = members
      /\ a.nets = UNION { t.nets : t \in mine } /\ a.ts = scan.now
    BY <1>3, AlertFields
<1>5. /\ scan.at = "alert" /\ mine # {} /\ UNCHANGED <<tick, accessLog, observed>>
      /\ scan' = [scan EXCEPT !.triggered = @ \ mine]
      /\ alerts' = alerts \cup {a}
      /\ lastAlert' = [k \in AnKeys |->
                        IF k \in Stamped(b, members) THEN scan.now ELSE lastAlert[k]]
    BY <1>1, <1>2, <1>3 DEF FireBundleAlert
<1>6. \A t \in scan.triggered : Waiting(t) /\ t.key \in AnKeys BY DEF AnInv, Waiting
<1>7. /\ scan' = [scan EXCEPT !.todo = scan'.todo, !.triggered = scan'.triggered]
      /\ scan'.todo = scan.todo /\ scan'.triggered = scan.triggered \ mine
    <2>1. scan = [at |-> scan.at, now |-> scan.now, todo |-> scan.todo, triggered |-> scan.triggered]
        BY DEF AnInv, AnType
    <2> QED BY <2>1, <1>5
<1>8. b \notin AnKeys BY AnomalyAssumption
<1>9. Stamped(b, members) \in SUBSET AnKeys /\ a.keys \subseteq Stamped(b, members)
    BY <1>1, <1>2, <1>4, <1>6 DEF Stamped
<1>10. ASSUME NEW c \in alerts
       PROVE  /\ \A k \in a.keys \cap c.keys : scan.now - c.ts >= Remembers(k)
              /\ a.signal = c.signal /\ a.subject = c.subject /\ Cooldown > 0 => scan.now # c.ts
    <2>1. \A t \in mine :
            /\ t.key \in c.keys => scan.now - c.ts >= Remembers(t.key)
            /\ c.signal = "ip" /\ c.subject = b /\ Cooldown > 0 => c.ts # scan.now
        BY <1>1, <1>6 DEF Waiting
    <2> QED BY <2>1, <1>2, <1>4, <1>5
<1>11. \A k \in a.keys : \/ Protocol[k] = "hysteria2"
                         \/ \E o \in observed[k] : o.ts >= scan.now - Counted
    <2> SUFFICES ASSUME NEW t \in mine PROVE \E o \in observed[t.key] : o.ts >= scan.now - Counted
        BY <1>2, <1>4
    <2> QED BY <1>1, <1>6 DEF Waiting
<1>12. (a.signal = "ip" /\ Concurrent > 0) => \A net \in a.nets : \E k \in a.keys :
               \/ Protocol[k] = "awg"
               \/ \E e \in accessLog : /\ e.key = k /\ e.net = net
                                       /\ e.ts >= scan.now - Concurrent
                                       /\ e.ts <= scan.now + FutureSkew
    <2> SUFFICES ASSUME Concurrent > 0, NEW t \in mine, NEW net \in t.nets
                 PROVE  \/ Protocol[t.key] = "awg"
                        \/ \E e \in accessLog : /\ e.key = t.key /\ e.net = net
                                                /\ e.ts >= scan.now - Concurrent
                                                /\ e.ts <= scan.now + FutureSkew
        BY <1>2, <1>4
    <2>1. Waiting(t) /\ t.key \in AnKeys BY <1>1, <1>6
    <2> QED BY <2>1, AnomalyAssumption DEF Waiting
<1>13. \A u \in scan'.triggered : u.key \notin a.keys /\ a.subject # ParentOf[u.key]
    <2> SUFFICES ASSUME NEW u \in scan.triggered, u \notin mine
                 PROVE  u.key \notin members /\ b # ParentOf[u.key]
        BY <1>4, <1>7
    <2> QED BY <1>1, <1>2
<1>14. a.subject \in AnKeys => a.keys = {a.subject} BY <1>4, <1>8
<1>15. a.signal = "conn" => a.subject \in AnKeys BY <1>4
<1>16. a.signal = "ip" => \A k \in AnKeys : ParentOf[k] = a.subject => k \in Stamped(b, members)
    BY <1>4 DEF Stamped
<1>17. /\ scan.at \in {"alert", "online"} /\ scan'.todo \subseteq scan.todo
       /\ scan'.triggered \subseteq scan.triggered
       /\ a.ts = scan.now /\ alerts' = alerts \cup {a} /\ UNCHANGED <<tick, accessLog, observed>>
       /\ scan' = [scan EXCEPT !.todo = scan'.todo, !.triggered = scan'.triggered]
    BY <1>4, <1>5, <1>7
<1> QED BY ONLY AnInv, <1>5, <1>9, <1>10, <1>11, <1>12, <1>13, <1>14, <1>15, <1>16, <1>17, Sends

\* _check_hysteria_online: a key with too many connections is alerted if it is not on
\* cooldown.
LEMMA ChecksOnline == ASSUME AnInv, NEW k \in scan.todo, CheckOnline(k) PROVE AnInv'
<1>0. scan = [at |-> scan.at, now |-> scan.now, todo |-> scan.todo, triggered |-> scan.triggered]
    BY DEF AnInv, AnType
<1>1. /\ scan.at = "online" /\ UNCHANGED <<tick, accessLog, observed>>
      /\ scan' = [at |-> "online", now |-> scan.now, todo |-> scan.todo \ {k},
                  triggered |-> scan.triggered]
      /\ scan' = [scan EXCEPT !.todo = scan'.todo, !.triggered = scan'.triggered]
    BY <1>0 DEF CheckOnline
<1>2. scan.triggered = {} BY <1>1, NoneWaits
<1>3. /\ k \in AnKeys /\ Protocol[k] = "hysteria2" /\ scan.now \in 1..tick /\ tick \in Nat
      /\ Clock = scan.now /\ Clock' = scan.now
    BY <1>1 DEF AnInv, AnType, Looked, OfProtocol, Clock
<1>4. CASE UNCHANGED <<lastAlert, alerts>>
    <2>1. AnType' BY <1>1, <1>3, <1>4 DEF AnInv, AnType
    <2>2. Looked' BY <1>1 DEF AnInv, Looked
    <2>3. \A t \in scan'.triggered : Waiting(t)' BY <1>1, <1>2
    <2>4. Clock' >= Clock BY <1>3
    <2> QED BY <1>1, <1>4, <2>1, <2>2, <2>3, <2>4, TimePasses
<1>5. CASE /\ lastAlert[k] # 0 => scan.now - lastAlert[k] >= Cooldown
           /\ lastAlert' = [lastAlert EXCEPT ![k] = scan.now]
           /\ alerts' = alerts \cup {Alert("conn", k, {k}, {})}
    <2>1. PICK a : a = Alert("conn", k, {k}, {}) OBVIOUS
    <2>2. /\ a.signal = "conn" /\ a.subject = k /\ a.keys = {k} /\ a.nets = {} /\ a.ts = scan.now
        BY <2>1, AlertFields
    <2>3. lastAlert' = [c \in AnKeys |-> IF c \in {k} THEN scan.now ELSE lastAlert[c]]
        BY <1>3, <1>5 DEF AnInv, AnType
    <2>4. ASSUME NEW b \in alerts
          PROVE  /\ \A c \in a.keys \cap b.keys : scan.now - b.ts >= Remembers(c)
                 /\ a.signal = b.signal /\ a.subject = b.subject /\ Cooldown > 0 => scan.now # b.ts
        <3>1. b.ts \in Nat \ {0} /\ (b.subject = k => k \in b.keys)
            BY <1>3 DEF AnInv, AlertShape
        <3>2. /\ Remembers(k) \in Nat /\ Remembers(k) <= Cooldown /\ Cooldown \in Nat
              /\ Cooldown > 0 => Remembers(k) > 0
            BY <1>3, RememberBound
        <3>3. lastAlert[k] \in Nat BY <1>3 DEF AnInv, AnType
        <3>4. k \in b.keys => scan.now - b.ts >= Remembers(k) \/ lastAlert[k] >= b.ts
            BY <1>3 DEF AnInv, Stamps
        <3>5. lastAlert[k] >= b.ts => scan.now - b.ts >= Cooldown BY <3>1, <3>2, <3>3, <1>3, <1>5
        <3>6. k \in b.keys => scan.now - b.ts >= Remembers(k)
            BY <3>1, <3>2, <3>4, <3>5, <1>3
        <3>7. scan.now = b.ts => scan.now - b.ts = 0 BY <3>1
        <3> QED BY <2>2, <3>1, <3>2, <3>6, <3>7
    <2>5. \A c \in a.keys : \/ Protocol[c] = "hysteria2"
                            \/ \E o \in observed[c] : o.ts >= scan.now - Counted
        BY <2>2, <1>3
    <2>6. (a.signal = "ip" /\ Concurrent > 0) => \A net \in a.nets : \E c \in a.keys :
               \/ Protocol[c] = "awg"
               \/ \E e \in accessLog : /\ e.key = c /\ e.net = net
                                       /\ e.ts >= scan.now - Concurrent
                                       /\ e.ts <= scan.now + FutureSkew
        BY <2>2
    <2>7. \A u \in scan'.triggered : u.key \notin a.keys /\ a.subject # ParentOf[u.key]
        BY <1>1, <1>2
    <2>8. /\ a.subject \in AnKeys => a.keys = {a.subject}
          /\ a.signal = "conn" => a.subject \in AnKeys
          /\ {k} \in SUBSET AnKeys /\ a.keys \subseteq {k}
        BY <2>2, <1>3
    <2>9. a.signal = "ip" => \A c \in AnKeys : ParentOf[c] = a.subject => c \in {k} BY <2>2
    <2>10. /\ scan.at \in {"alert", "online"} /\ scan'.todo \subseteq scan.todo
           /\ scan'.triggered \subseteq scan.triggered
           /\ a.ts = scan.now /\ alerts' = alerts \cup {a}
        BY <1>1, <1>5, <2>1, <2>2
    <2> QED BY ONLY AnInv, <1>1, <2>3, <2>4, <2>5, <2>6, <2>7, <2>8, <2>9, <2>10, Sends
<1> QED BY <1>4, <1>5 DEF CheckOnline

\* Clients and relays: only the log matters to what was alerted, and it only grows.
LEMMA ClientsAct ==
    ASSUME AnInv,
           \/ \E k \in AnKeys, net \in Nets : ConnectXray(k, net) \/ MoveAwg(k, net)
           \/ \E k \in AnKeys : ConnectHysteria(k)
           \/ \E net \in RelayNets : AddRelay(net)
    PROVE  AnInv'
<1>1. UNCHANGED <<tick, scan, observed, lastAlert, alerts>>
    BY DEF ConnectXray, MoveAwg, ConnectHysteria, AddRelay, scanVars
<1>2. accessLog \subseteq accessLog' /\ \A e \in accessLog' : e.ts \in Nat
    <2>1. tick \in Nat /\ \A e \in accessLog : e.ts \in Nat BY DEF AnInv, AnType
    <2>2. \/ accessLog' = accessLog
          \/ \E k \in AnKeys, net \in Nets :
                accessLog' = accessLog \cup {[key |-> k, net |-> net, ts |-> tick]}
        BY DEF ConnectXray, MoveAwg, ConnectHysteria, AddRelay
    <2> QED BY <2>1, <2>2
<1> QED BY <1>1, <1>2, LogGrows

\* For every set of keys, windows and cooldown: an alert counts networks its keys were
\* used from inside the concurrent window, and no key is alerted again while its last
\* alert is remembered, nor a bundle twice in a second (check_all and its samples).
THEOREM AlertsEarned == AnomalySpec => []AlertsAreEarned
<1>1. AnomalyInit => AnInv
    <2> SUFFICES ASSUME AnomalyInit PROVE AnInv OBVIOUS
    <2> USE DEF AnomalyInit, NoScan
    <2>1. AnType BY DEF AnType
    <2>2. ObservedIsReal BY DEF ObservedIsReal
    <2>3. Looked BY DEF Looked
    <2>4. AlertShape /\ Stamps /\ \A t \in scan.triggered : Waiting(t) BY DEF AlertShape, Stamps
    <2>5. AlertsAreEarned BY DEF AlertsAreEarned, AlertIsConcurrent, AlertsAreSpaced
    <2> QED BY <2>1, <2>2, <2>3, <2>4, <2>5 DEF AnInv
<1>2. AnInv /\ [AnomalyNext]_anomalyVars => AnInv'
    <2> SUFFICES ASSUME AnInv, [AnomalyNext]_anomalyVars PROVE AnInv' OBVIOUS
    <2>1. CASE UNCHANGED anomalyVars
        <3>1. UNCHANGED <<tick, scan, observed, lastAlert, alerts, accessLog>>
            BY <2>1 DEF anomalyVars
        <3>2. \A e \in accessLog' : e.ts \in Nat BY <3>1 DEF AnInv, AnType
        <3> QED BY <3>1, <3>2, LogGrows
    <2>2. CASE Scans BY <2>2, Begins, SamplesAwg, SamplesXray, Judges, MovesOn, Fires,
                        FiresBundle, ChecksOnline DEF Scans
    <2>3. CASE ClockTick BY <2>3, MovesOn
    <2> QED BY <2>1, <2>2, <2>3, ClientsAct DEF AnomalyNext
<1> QED BY <1>1, <1>2, PTL DEF AnomalySpec, AnInv

-----------------------------------------------------------------------------
(* Backups                                                                 *)

Places == {"idle", "asleep", "stamp", "napping", "snapshot", "send",
           "recovery", "system", "walk", "read"}
Entries == [path : Walked, included : BOOLEAN,
            reason : {"policy", "link", "error", "size", "file"}]
Builds == [todo : Seq(Walked), seen : SUBSET Walked, manifest : SUBSET Entries,
           total : Nat, truncated : BOOLEAN]
BackupJobs == [pc : Places, wake : Nat, kind : {"db", "recovery", "system"},
               left : SUBSET Admins, ok : Nat, made : Nat, build : Builds]

BackupTypes ==
  /\ time \in Nat /\ sent \in Nat \cup {Never}
  /\ mail \in [Admins -> Nat \cup {Never}]
  /\ size \in [Files -> Nat \cup {Gone}]
  /\ job \in [BackupTasks -> BackupJobs]
  /\ faultsLeft \in 0 .. MaxBackupFaults /\ crashesLeft \in 0 .. MaxBackupCrashes
  /\ changesLeft \in 0 .. MaxFileChanges

\* How much later than the newest backup the next one may be due: an interval, one more
\* for each fault so far, a start delay for each restart.
Slack == Interval * (1 + (MaxBackupFaults - faultsLeft))
           + StartDelay * (MaxBackupCrashes - crashesLeft)

\* The chats m hold a backup, and the time x is within the slack d of one of them.
HeldIn(m) == \E a \in Admins : m[a] # Never
Due(m, d, x) == \E a \in Admins : m[a] # Never /\ x <= m[a] + d

Waits == {"asleep", "napping"}

\* The database part of the attempt is over, or one delivery of it has been decided.
DbDecided(j) ==
  \/ j.pc \in {"recovery", "system", "walk", "read"}
  \/ j.pc = "send" /\ (j.kind # "db" \/ j.left # Admins)

\* The chats and the stamp: nothing is newer than the clock, the stamp not newer than a
\* backup somebody has, and with a backup in the chats the next one is not overdue.
WorldFine(m, d, now, stamp) ==
  /\ \A a \in Admins : m[a] <= now
  /\ stamp # Never => stamp <= now /\ \E a \in Admins : m[a] >= stamp
  /\ HeldIn(m) => Due(m, d, now)

\* The loop: it wakes within an interval and before the next backup is due, and an attempt
\* that failed has paid for the interval it will sleep.
LoopFine(j, m, d, now) ==
  /\ j.pc # "idle"
  /\ j.pc \in Waits => j.wake <= now + Interval
  /\ j.pc \in Waits /\ HeldIn(m) => Due(m, d, j.wake)
  /\ DbDecided(j) /\ HeldIn(m) => Due(m, d, now + Interval)
  /\ j.pc = "send" /\ j.kind = "db" /\ j.ok > 0 => \E a \in Admins : m[a] >= now

\* A backup in flight was made at this tick.
SendFine(j, now) == j.pc = "send" => j.made = now

ClockInv ==
  /\ WorldFine(mail, Slack, time, sent)
  /\ LoopFine(job["loop"], mail, Slack, time)
  /\ \A t \in BackupTasks : SendFine(job[t], time)

\* What a bundle under construction has listed so far.
Consistent(b) ==
  /\ b.seen = {e.path : e \in b.manifest}
  /\ IsFiniteSet(b.manifest) /\ IsFiniteSet(b.seen)
  /\ Cardinality(b.manifest) = Cardinality(b.seen)
  /\ b.truncated <=> \E e \in b.manifest : e.reason = "size"

\* No file has changed since the process began.
Untouched == changesLeft = MaxFileChanges

Building(j) == j.pc \in {"walk", "read"} \/ (j.pc = "send" /\ j.kind = "system")

\* A bundle j builds, when the files have the sizes sz (u: none of them has changed).
BuildFine(j, u, sz) ==
  /\ Consistent(j.build)
  /\ u => j.build.total <= MaxTotalBytes
  /\ Building(j) => j.build.seen \cup Range(j.build.todo) = Walked
  /\ j.pc = "send" /\ j.kind = "system" => j.build.todo = <<>>
  /\ j.pc = "read" => /\ j.build.todo # <<>>
                      /\ Head(j.build.todo) \notin j.build.seen \cup Excluded \cup Links
                      /\ u => /\ sz[Head(j.build.todo)] # Gone
                              /\ j.build.total + sz[Head(j.build.todo)] <= MaxTotalBytes

BuildInv == \A t \in BackupTasks : BuildFine(job[t], Untouched, size)

BackupsInv == BackupTypes /\ ClockInv /\ BuildInv

-----------------------------------------------------------------------------

\* The walked paths of a sequence are its first one and those of the rest.
LEMMA RangeStep ==
  ASSUME NEW S, NEW s \in Seq(S), s # <<>>
  PROVE  /\ Head(s) \in Range(s) /\ Tail(s) \in Seq(S)
         /\ Range(s) = {Head(s)} \cup Range(Tail(s))
<1>1. Len(s) \in Nat /\ Len(s) >= 1 /\ DOMAIN s = 1 .. Len(s) /\ Head(s) = s[1]
  OBVIOUS
<1>2. /\ Tail(s) \in Seq(S) /\ DOMAIN Tail(s) = 1 .. Len(s) - 1
      /\ \A i \in 1 .. Len(s) - 1 : Tail(s)[i] = s[i + 1]
  BY <1>1
<1>3. ASSUME NEW x \in Range(s) PROVE x \in {Head(s)} \cup Range(Tail(s))
  <2>1. PICK i \in 1 .. Len(s) : x = s[i]
    BY <1>1, <1>3 DEF Range
  <2>2. CASE i = 1
    BY <1>1, <2>1, <2>2
  <2>3. CASE i # 1
    <3>1. i - 1 \in 1 .. Len(s) - 1 /\ (i - 1) + 1 = i
      BY <1>1, <2>1, <2>3
    <3>2. Tail(s)[i - 1] = x
      BY <1>2, <2>1, <3>1
    <3> QED BY <1>2, <3>1, <3>2 DEF Range
  <2> QED BY <2>2, <2>3
<1>4. ASSUME NEW x \in Range(Tail(s)) PROVE x \in Range(s)
  <2>1. PICK i \in 1 .. Len(s) - 1 : x = s[i + 1]
    BY <1>2, <1>4 DEF Range
  <2>2. i + 1 \in 1 .. Len(s)
    BY <1>1, <2>1
  <2> QED BY <1>1, <2>1, <2>2 DEF Range
<1>5. Head(s) \in Range(s)
  BY <1>1 DEF Range
<1> QED BY <1>2, <1>3, <1>4, <1>5

\* A fault or a restart adds its share to the slack, and the slack never shrinks.
LEMMA SlackIs ==
  ASSUME BackupTypes, BackupsAssumption
  PROVE  /\ Slack \in Nat /\ Slack >= Interval
         /\ Slack <= Interval * (1 + MaxBackupFaults) + StartDelay * MaxBackupCrashes
<1> DEFINE f == MaxBackupFaults - faultsLeft
           c == MaxBackupCrashes - crashesLeft
<1>1. /\ f \in Nat /\ c \in Nat /\ f <= MaxBackupFaults /\ c <= MaxBackupCrashes
      /\ Interval \in Nat /\ StartDelay \in Nat
      /\ MaxBackupFaults \in Nat /\ MaxBackupCrashes \in Nat
  BY DEF BackupTypes, BackupsAssumption
<1>2. Slack = Interval * (1 + f) + StartDelay * c
  BY DEF Slack
<1> HIDE DEF f, c
<1>3. /\ Interval * (1 + f) \in Nat /\ StartDelay * c \in Nat
      /\ Interval * (1 + f) >= Interval
  BY <1>1, SMTT(30)
<1>4. Interval * (1 + f) <= Interval * (1 + MaxBackupFaults)
  BY <1>1, SMTT(30)
<1>5. StartDelay * c <= StartDelay * MaxBackupCrashes
  BY <1>1, SMTT(30)
<1>6. Interval * (1 + MaxBackupFaults) \in Nat /\ StartDelay * MaxBackupCrashes \in Nat
  BY <1>1, SMTT(30)
<1> QED BY <1>1, <1>2, <1>3, <1>4, <1>5, <1>6

\* A step that leaves both counters alone leaves the slack alone.
LEMMA SlackStays ==
  ASSUME UNCHANGED <<faultsLeft, crashesLeft>>
  PROVE  Slack' = Slack
BY DEF Slack

\* A fault adds an interval.
LEMMA SlackOfFault ==
  ASSUME BackupTypes, BackupsAssumption, FaultHere, UNCHANGED crashesLeft
  PROVE  Slack' = Slack + Interval /\ faultsLeft' \in 0 .. MaxBackupFaults
<1> DEFINE f == MaxBackupFaults - faultsLeft
           c == MaxBackupCrashes - crashesLeft
<1>1. /\ f \in Nat /\ c \in Nat /\ Interval \in Nat /\ StartDelay \in Nat
      /\ MaxBackupFaults - faultsLeft' = f + 1 /\ faultsLeft' \in 0 .. MaxBackupFaults
  BY DEF BackupTypes, BackupsAssumption, FaultHere
<1>2. Slack = Interval * (1 + f) + StartDelay * c
  BY DEF Slack
<1>3. Slack' = Interval * (1 + (f + 1)) + StartDelay * c
  BY <1>1 DEF Slack
<1> HIDE DEF f, c
<1>4. Interval * (1 + (f + 1)) = Interval * (1 + f) + Interval
  BY <1>1, SMTT(30)
<1>5. Interval * (1 + f) \in Nat /\ StartDelay * c \in Nat
  BY <1>1, SMTT(30)
<1> QED BY <1>1, <1>2, <1>3, <1>4, <1>5

\* A restart adds a start delay.
LEMMA SlackOfCrash ==
  ASSUME BackupTypes, BackupsAssumption, crashesLeft > 0, crashesLeft' = crashesLeft - 1,
         UNCHANGED faultsLeft
  PROVE  Slack' = Slack + StartDelay /\ crashesLeft' \in 0 .. MaxBackupCrashes
<1> DEFINE f == MaxBackupFaults - faultsLeft
           c == MaxBackupCrashes - crashesLeft
<1>1. /\ f \in Nat /\ c \in Nat /\ Interval \in Nat /\ StartDelay \in Nat
      /\ MaxBackupCrashes - crashesLeft' = c + 1 /\ crashesLeft' \in 0 .. MaxBackupCrashes
  BY DEF BackupTypes, BackupsAssumption
<1>2. Slack = Interval * (1 + f) + StartDelay * c
  BY DEF Slack
<1>3. Slack' = Interval * (1 + f) + StartDelay * (c + 1)
  BY <1>1 DEF Slack
<1> HIDE DEF f, c
<1>4. StartDelay * (c + 1) = StartDelay * c + StartDelay
  BY <1>1, SMTT(30)
<1>5. Interval * (1 + f) \in Nat /\ StartDelay * c \in Nat
  BY <1>1, SMTT(30)
<1> QED BY <1>1, <1>2, <1>3, <1>4, <1>5
-----------------------------------------------------------------------------

\* More slack keeps everything in time.
LEMMA MoreSlack ==
  ASSUME NEW m \in [Admins -> Nat \cup {Never}], NEW d \in Nat, NEW e \in Nat, e >= d,
         NEW now \in Nat, NEW stamp, NEW j \in BackupJobs, BackupsAssumption
  PROVE  /\ WorldFine(m, d, now, stamp) => WorldFine(m, e, now, stamp)
         /\ LoopFine(j, m, d, now) => LoopFine(j, m, e, now)
<1>1. ASSUME NEW x \in Int, Due(m, d, x) PROVE Due(m, e, x)
  <2>1. PICK a \in Admins : m[a] # Never /\ x <= m[a] + d
    BY <1>1 DEF Due
  <2>2. m[a] \in Int
    BY DEF Never
  <2>3. x <= m[a] + e
    BY <2>1, <2>2
  <2> QED BY <2>1, <2>3 DEF Due
<1>2. now \in Int /\ now + Interval \in Int /\ j.wake \in Int
  BY DEF BackupsAssumption, BackupJobs
<1> QED BY <1>1, <1>2 DEF WorldFine, LoopFine

\* A backup delivered now puts off everything that is due within an interval.
LEMMA JustDelivered ==
  ASSUME NEW m \in [Admins -> Nat \cup {Never}], NEW d \in Nat, NEW now \in Nat,
         d >= Interval, BackupsAssumption, NEW a \in Admins, m[a] = now
  PROVE  /\ HeldIn(m)
         /\ \A x \in Int : x <= now + Interval => Due(m, d, x)
BY DEF HeldIn, Due, Never, BackupsAssumption

\* The fields of a build may be replaced by others of their kinds.
LEMMA BuildUpdated ==
  ASSUME NEW T, NEW S, NEW M, NEW r, NEW num, NEW V, V = Seq(Walked), T \in V,
         S \in SUBSET Walked, M \in SUBSET Entries, r \in BOOLEAN, num \in Nat,
         NEW b \in [todo : V, seen : SUBSET Walked, manifest : SUBSET Entries,
                    total : Nat, truncated : BOOLEAN]
  PROVE  /\ [b EXCEPT !.todo = T, !.seen = S, !.truncated = r, !.manifest = M] \in Builds
         /\ [b EXCEPT !.total = num] \in Builds /\ [b EXCEPT !.todo = T] \in Builds
BY DEF Builds

\* A build x that goes on from b accounts for the same paths and has read no file since.
GoesOn(b, x) == /\ x \in Builds /\ Consistent(x) /\ x.total = b.total
                /\ x.seen \cup Range(x.todo) = b.seen \cup Range(b.todo)

\* Listing the path at the head of the walk leaves a build that goes on.
LEMMA ListedGoesOn ==
  ASSUME NEW b \in Builds, Consistent(b), b.todo # <<>>, Head(b.todo) \notin b.seen,
         NEW reason \in {"policy", "link", "error", "size", "file"}
  PROVE  GoesOn(b, Listed(b, Head(b.todo), reason))
<1> DEFINE p == Head(b.todo)
           included == reason \in {"link", "file"}
           e == [path |-> p, included |-> included, reason |-> reason]
           cut == reason = "size"
           c == Listed(b, p, reason)
<1>1. /\ b.todo \in Seq(Walked) /\ b.seen \in SUBSET Walked /\ b.manifest \in SUBSET Entries
      /\ b.total \in Nat /\ b.truncated \in BOOLEAN
  BY DEF Builds
<1>2. /\ p \in Range(b.todo) /\ Tail(b.todo) \in Seq(Walked)
      /\ Range(b.todo) = {p} \cup Range(Tail(b.todo))
  BY <1>1, RangeStep
<1>3. p \in Walked
  BY <1>1, <1>2, \A q \in Seq(Walked) : Range(q) \subseteq Walked DEF Range
<1>4. e \in Entries
  BY <1>3 DEF Entries
<1>5. /\ c.todo = Tail(b.todo) /\ c.seen = b.seen \cup {p}
      /\ c.truncated = (b.truncated \/ cut) /\ c.manifest = b.manifest \cup {e}
      /\ c.total = b.total
  BY DEF Listed, Builds
<1>6. c \in Builds
  <2>2. b.manifest \cup {e} \in SUBSET Entries
    BY <1>1, <1>4
  <2>3. b.seen \cup {p} \in SUBSET Walked /\ (b.truncated \/ cut) \in BOOLEAN
    BY <1>1, <1>3
  <2>4. b \in [todo : Seq(Walked), seen : SUBSET Walked, manifest : SUBSET Entries,
               total : Nat, truncated : BOOLEAN]
    BY DEF Builds
  <2>5. [b EXCEPT !.todo = Tail(b.todo), !.seen = b.seen \cup {p},
                  !.truncated = b.truncated \/ cut, !.manifest = b.manifest \cup {e}] \in Builds
    <3> HIDE DEF e
    <3> QED BY <1>1, <1>2, <2>2, <2>3, <2>4, BuildUpdated
  <2> QED BY <2>5 DEF Listed
<1>7. e.path = p /\ e.reason = reason
  OBVIOUS
<1> HIDE DEF e, c
<1>8. e \notin b.manifest
  BY <1>7 DEF Consistent
<1>9. /\ IsFiniteSet(c.manifest) /\ IsFiniteSet(c.seen)
      /\ Cardinality(c.manifest) = Cardinality(c.seen)
  <2>1. /\ IsFiniteSet(b.manifest \cup {e})
        /\ Cardinality(b.manifest \cup {e}) = Cardinality(b.manifest) + 1
    BY <1>8, FS_AddElement DEF Consistent
  <2>2. /\ IsFiniteSet(b.seen \cup {p})
        /\ Cardinality(b.seen \cup {p}) = Cardinality(b.seen) + 1
    BY FS_AddElement DEF Consistent
  <2> QED BY <1>5, <2>1, <2>2 DEF Consistent
<1>10. c.seen = {f.path : f \in c.manifest}
  BY <1>5, <1>7 DEF Consistent
<1>11. c.truncated <=> \E f \in c.manifest : f.reason = "size"
  BY <1>5, <1>7 DEF Consistent
<1>12. Consistent(c)
  BY <1>9, <1>10, <1>11 DEF Consistent
<1>13. c.seen \cup Range(c.todo) = b.seen \cup Range(b.todo)
  BY <1>2, <1>5
<1>14. GoesOn(b, c)
  BY <1>5, <1>6, <1>12, <1>13 DEF GoesOn
<1> QED BY <1>14 DEF c

\* An empty build, and one about to walk, are consistent.
LEMMA NoBuildFine ==
  /\ NoBuild \in Builds /\ Consistent(NoBuild)
  /\ NoBuild.todo = <<>> /\ NoBuild.seen = {} /\ NoBuild.total = 0
<1>1. /\ NoBuild.todo = <<>> /\ NoBuild.seen = {} /\ NoBuild.total = 0
      /\ NoBuild.manifest = {} /\ NoBuild.truncated = FALSE
  BY DEF NoBuild
<1>2. NoBuild \in Builds
  BY DEF NoBuild, Builds
<1>3. IsFiniteSet({}) /\ Cardinality({}) = 0
  BY FS_EmptySet
<1>4. {e.path : e \in {}} = {}
  OBVIOUS
<1> QED BY <1>1, <1>2, <1>3, <1>4 DEF Consistent

\* A task that leaves its build alone, and does not begin to walk, read or send it.
LEMMA BuildKept ==
  ASSUME NEW j, NEW k, NEW u, NEW sz, BuildFine(j, u, sz), k.build = j.build,
         Building(k) => Building(j), k.pc = "read" => j.pc = "read",
         k.pc = "send" /\ k.kind = "system" => j.pc = "send" /\ j.kind = "system"
  PROVE  BuildFine(k, u, sz)
BY DEF BuildFine


-----------------------------------------------------------------------------

\* What the steps of the actions use of the invariant.
LEMMA BackupFacts ==
  ASSUME BackupsInv, BackupsAssumption
  PROVE  /\ \A t \in BackupTasks : job[t] \in BackupJobs /\ job[t].build \in Builds
         /\ "loop" \in BackupTasks /\ "manual" \in BackupTasks
         /\ Slack \in Nat /\ Slack >= Interval /\ time \in Nat /\ Interval \in Nat
         /\ mail \in [Admins -> Nat \cup {Never}]
BY SlackIs DEF BackupsInv, BackupTypes, BackupTasks, BackupJobs, BackupsAssumption

\* A task's record with another place.
LEMMA PlaceUpdated ==
  ASSUME NEW j \in BackupJobs, NEW p \in Places
  PROVE  /\ [j EXCEPT !.pc = p] \in BackupJobs
         /\ [j EXCEPT !.pc = p].pc = p /\ [j EXCEPT !.pc = p].build = j.build
         /\ [j EXCEPT !.pc = p].kind = j.kind
<1> DEFINE B == Builds
<1> HIDE DEF B
<1>1. BackupJobs = [pc : Places, wake : Nat, kind : {"db", "recovery", "system"},
                    left : SUBSET Admins, ok : Nat, made : Nat, build : B]
  BY DEF BackupJobs, B
<1> QED BY <1>1

\* The same with a new wake-up time.
LEMMA WakeUpdated ==
  ASSUME NEW j \in BackupJobs, NEW p \in Places, NEW w \in Nat
  PROVE  [j EXCEPT !.pc = p, !.wake = w] \in BackupJobs
<1> DEFINE B == Builds
<1> HIDE DEF B
<1>1. BackupJobs = [pc : Places, wake : Nat, kind : {"db", "recovery", "system"},
                    left : SUBSET Admins, ok : Nat, made : Nat, build : B]
  BY DEF BackupJobs, B
<1> QED BY <1>1

\* The record of a task that begins to send.
LEMMA SendUpdated ==
  ASSUME NEW j \in BackupJobs, NEW num \in Nat, NEW k \in {"db", "recovery", "system"}
  PROVE  [j EXCEPT !.pc = "send", !.kind = k, !.left = Admins, !.ok = 0, !.made = num]
           \in BackupJobs
<1> DEFINE B == Builds
<1> HIDE DEF B
<1>1. BackupJobs = [pc : Places, wake : Nat, kind : {"db", "recovery", "system"},
                    left : SUBSET Admins, ok : Nat, made : Nat, build : B]
  BY DEF BackupJobs, B
<1>2. "send" \in Places
  BY DEF Places
<1> QED BY <1>1, <1>2

\* One admin fewer to send to, and perhaps one delivery more.
LEMMA LeftUpdated ==
  ASSUME NEW j \in BackupJobs, NEW L \in SUBSET Admins, NEW o \in Nat
  PROVE  /\ [j EXCEPT !.left = L, !.ok = o] \in BackupJobs
         /\ [j EXCEPT !.left = L] \in BackupJobs
<1> DEFINE B == Builds
<1> HIDE DEF B
<1>1. BackupJobs = [pc : Places, wake : Nat, kind : {"db", "recovery", "system"},
                    left : SUBSET Admins, ok : Nat, made : Nat, build : B]
  BY DEF BackupJobs, B
<1> QED BY <1>1

\* The same with a new build.
LEMMA WalkUpdated ==
  ASSUME NEW j \in BackupJobs, NEW p \in Places, NEW b \in Builds
  PROVE  /\ [j EXCEPT !.pc = p, !.build = b] \in BackupJobs
         /\ [j EXCEPT !.pc = p, !.build = b].pc = p
         /\ [j EXCEPT !.pc = p, !.build = b].build = b
<1> DEFINE B == Builds
<1> HIDE DEF B
<1>1. BackupJobs = [pc : Places, wake : Nat, kind : {"db", "recovery", "system"},
                    left : SUBSET Admins, ok : Nat, made : Nat, build : B] /\ b \in B
  BY DEF BackupJobs, B
<1> QED BY <1>1

\* A step of one task: the world and the bundles of both follow from the new record of
\* that task, if the files are as they were.
LEMMA OneTaskMoves ==
  ASSUME BackupsInv, BackupsAssumption, NEW t \in BackupTasks, NEW r \in BackupJobs,
         job' = [job EXCEPT ![t] = r], UNCHANGED <<time, size, changesLeft>>,
         mail' \in [Admins -> Nat \cup {Never}], sent' \in Nat \cup {Never},
         faultsLeft' \in 0 .. MaxBackupFaults, crashesLeft' \in 0 .. MaxBackupCrashes,
         WorldFine(mail', Slack', time, sent'),
         LoopFine(IF t = "loop" THEN r ELSE job["loop"], mail', Slack', time),
         SendFine(r, time), BuildFine(r, Untouched, size)
  PROVE  BackupsInv'
<1>1. BackupTypes'
  <2>1. job' \in [BackupTasks -> BackupJobs]
    BY DEF BackupsInv, BackupTypes
  <2> QED BY <2>1 DEF BackupsInv, BackupTypes
<1>2. job'[t] = r /\ \A u \in BackupTasks : u # t => job'[u] = job[u]
  BY DEF BackupsInv, BackupTypes
<1>3. LoopFine(job'["loop"], mail', Slack', time)
  <2>1. CASE t = "loop"
    BY <1>2, <2>1
  <2>2. CASE t # "loop"
    BY <1>2, <2>2, BackupFacts
  <2> QED BY <2>1, <2>2
<1>4. \A u \in BackupTasks : SendFine(job'[u], time)
  BY <1>2 DEF BackupsInv, ClockInv
<1>5. \A u \in BackupTasks : BuildFine(job'[u], Untouched, size)
  BY <1>2 DEF BackupsInv, BuildInv
<1>6. Untouched' = Untouched
  BY DEF Untouched
<1>7. ClockInv'
  BY <1>3, <1>4 DEF ClockInv
<1>8. BuildInv'
  BY <1>5, <1>6 DEF BuildInv
<1> QED BY <1>1, <1>7, <1>8 DEF BackupsInv

\* The same, when neither chats nor stamp change and the step costs a fault or nothing.
LEMMA QuietTaskMoves ==
  ASSUME BackupsInv, BackupsAssumption, NEW t \in BackupTasks, NEW r \in BackupJobs,
         job' = [job EXCEPT ![t] = r], UNCHANGED <<time, size, changesLeft, mail, sent, crashesLeft>>,
         FaultHere \/ NoFaultHere,
         t = "loop" => LoopFine(r, mail, Slack', time),
         SendFine(r, time), BuildFine(r, Untouched, size)
  PROVE  BackupsInv'
<1>1. Slack' \in Nat /\ Slack' >= Slack /\ faultsLeft' \in 0 .. MaxBackupFaults
  <2>1. CASE FaultHere
    BY <2>1, SlackOfFault, BackupFacts DEF BackupsInv
  <2>2. CASE NoFaultHere
    BY <2>2, SlackStays, BackupFacts DEF BackupsInv, BackupTypes, NoFaultHere
  <2> QED BY <2>1, <2>2
<1>2. /\ WorldFine(mail, Slack', time, sent)
      /\ LoopFine(job["loop"], mail, Slack', time)
  BY <1>1, MoreSlack, BackupFacts DEF BackupsInv, ClockInv
<1>3. /\ mail' \in [Admins -> Nat \cup {Never}] /\ sent' \in Nat \cup {Never}
      /\ crashesLeft' \in 0 .. MaxBackupCrashes
  BY DEF BackupsInv, BackupTypes
<1>4. LoopFine(IF t = "loop" THEN r ELSE job["loop"], mail', Slack', time)
  BY <1>2
<1>5. WorldFine(mail', Slack', time, sent')
  BY <1>2
<1> QED BY <1>1, <1>3, <1>4, <1>5, OneTaskMoves

\* A sleep ends.
LEMMA LoopWakesInv ==
  ASSUME BackupsInv, BackupsAssumption, LoopWakes
  PROVE  BackupsInv'
<1> DEFINE j == job["loop"]
           q == IF j.pc = "asleep" THEN "stamp" ELSE "snapshot"
           r == [j EXCEPT !.pc = q]
<1>1. j \in BackupJobs /\ j.pc \in Waits
  BY BackupFacts DEF LoopWakes, Waits
<1>2. r \in BackupJobs
  <2>1. q \in Places
    BY DEF Places
  <2> HIDE DEF q
  <2> QED BY <1>1, <2>1, PlaceUpdated
<1>3. r.pc = q /\ r.build = j.build
  BY <1>1 DEF BackupJobs
<1>4. job' = [job EXCEPT !["loop"] = r]
  BY DEF LoopWakes, Go
<1>5. q \in {"stamp", "snapshot"}
  OBVIOUS
<1> HIDE DEF r, q
<1>6. LoopFine(r, mail, Slack', time)
  BY <1>3, <1>5 DEF LoopFine, Waits, DbDecided
<1>7. SendFine(r, time)
  BY <1>3, <1>5 DEF SendFine
<1>8. BuildFine(r, Untouched, size)
  <2>1. BuildFine(j, Untouched, size)
    BY BackupFacts DEF BackupsInv, BuildInv
  <2> QED BY <1>3, <1>5, <2>1, BuildKept DEF Building
<1> QED BY <1>2, <1>4, <1>6, <1>7, <1>8, QuietTaskMoves, BackupFacts DEF LoopWakes, NoFaultHere

\* The stamp puts the next backup an interval after one that somebody has.
LEMMA StampInv ==
  ASSUME BackupsInv, BackupsAssumption, ReadLastBackupTime
  PROVE  BackupsInv'
<1> DEFINE j == job["loop"]
<1>1. j \in BackupJobs /\ j.pc = "stamp" /\ BuildFine(j, Untouched, size)
  BY BackupFacts DEF ReadLastBackupTime, BackupsInv, BuildInv
<1>2. CASE job' = [job EXCEPT !["loop"].pc = "snapshot"] /\ (FaultHere \/ NoFaultHere)
  <2> DEFINE r == [j EXCEPT !.pc = "snapshot"]
  <2>1. r \in BackupJobs
    BY <1>1, PlaceUpdated DEF Places
  <2>2. r.pc = "snapshot" /\ r.build = j.build
    BY <1>1 DEF BackupJobs
  <2>3. job' = [job EXCEPT !["loop"] = r]
    BY <1>2
  <2> HIDE DEF r
  <2>4. LoopFine(r, mail, Slack', time) /\ SendFine(r, time)
    BY <2>2 DEF LoopFine, Waits, DbDecided, SendFine
  <2>5. BuildFine(r, Untouched, size)
    BY <1>1, <2>2, BuildKept DEF Building
  <2> QED BY <1>2, <2>1, <2>3, <2>4, <2>5, QuietTaskMoves, BackupFacts DEF ReadLastBackupTime
<1>3. CASE /\ NoFaultHere /\ sent # Never /\ Remaining > 0
           /\ job' = [job EXCEPT !["loop"].pc = "napping", !["loop"].wake = time + Remaining]
  <2> DEFINE w == time + Remaining
             r == [j EXCEPT !.pc = "napping", !.wake = w]
  <2>1. sent \in Nat /\ sent <= time /\ \E a \in Admins : mail[a] >= sent
    BY <1>3 DEF BackupsInv, BackupTypes, ClockInv, WorldFine, Never
  <2>2. w \in Nat /\ w = sent + Interval /\ w <= time + Interval
    BY <1>3, <2>1, BackupFacts DEF Remaining
  <2>3. Due(mail, Slack, w)
    <3>1. PICK a \in Admins : mail[a] >= sent
      BY <2>1
    <3>2. mail[a] # Never /\ mail[a] \in Int
      BY <2>1, <3>1, BackupFacts DEF Never
    <3>3. w <= mail[a] + Slack
      BY <2>1, <2>2, <3>1, <3>2, BackupFacts
    <3> QED BY <3>2, <3>3 DEF Due
  <2>4. job' = [job EXCEPT !["loop"] = r]
    BY <1>3
  <2> HIDE DEF w
  <2>5. r \in BackupJobs
    BY <1>1, <2>2, WakeUpdated DEF Places
  <2>6. r.pc = "napping" /\ r.wake = w /\ r.build = j.build
    BY <1>1 DEF BackupJobs
  <2> HIDE DEF r
  <2>7. Slack' = Slack
    BY <1>3, SlackStays DEF ReadLastBackupTime, NoFaultHere
  <2>8. LoopFine(r, mail, Slack', time) /\ SendFine(r, time)
    BY <2>2, <2>3, <2>6, <2>7 DEF LoopFine, Waits, DbDecided, SendFine
  <2>9. BuildFine(r, Untouched, size)
    BY <1>1, <2>6, BuildKept DEF Building
  <2> QED BY <1>3, <2>4, <2>5, <2>8, <2>9, QuietTaskMoves, BackupFacts DEF ReadLastBackupTime
<1> QED BY <1>2, <1>3 DEF ReadLastBackupTime, Go


\* The superadmin presses the button.
LEMMA ManualBackupInv ==
  ASSUME BackupsInv, BackupsAssumption, ManualBackup
  PROVE  BackupsInv'
<1> DEFINE j == job["manual"]
           r == [j EXCEPT !.pc = "snapshot"]
<1>1. j \in BackupJobs /\ BuildFine(j, Untouched, size)
  BY BackupFacts DEF BackupsInv, BuildInv
<1>2. r \in BackupJobs /\ r.pc = "snapshot" /\ r.build = j.build
  BY <1>1, PlaceUpdated DEF Places
<1>3. job' = [job EXCEPT !["manual"] = r]
  BY DEF ManualBackup, Go
<1> HIDE DEF r
<1>4. SendFine(r, time)
  BY <1>2 DEF SendFine
<1>5. BuildFine(r, Untouched, size)
  BY <1>1, <1>2, BuildKept DEF Building
<1> QED BY <1>2, <1>3, <1>4, <1>5, QuietTaskMoves, BackupFacts DEF ManualBackup, NoFaultHere

\* A fault pays for the interval that the loop will sleep.
LEMMA FaultPays ==
  ASSUME BackupsInv, BackupsAssumption, FaultHere, UNCHANGED crashesLeft, HeldIn(mail)
  PROVE  Due(mail, Slack', time + Interval)
<1>1. Slack' = Slack + Interval
  BY SlackOfFault DEF BackupsInv
<1>2. PICK a \in Admins : mail[a] # Never /\ time <= mail[a] + Slack
  BY DEF BackupsInv, ClockInv, WorldFine, Due
<1>3. mail[a] \in Int
  BY BackupFacts DEF Never
<1>4. time + Interval <= mail[a] + Slack'
  BY <1>1, <1>2, <1>3, BackupFacts
<1> QED BY <1>2, <1>4 DEF Due

\* A database backup is made, or cannot be.
LEMMA CreateInv ==
  ASSUME BackupsInv, BackupsAssumption, NEW t \in BackupTasks, CreateEncryptedBackup(t)
  PROVE  BackupsInv'
<1> DEFINE j == job[t]
<1>1. j \in BackupJobs /\ j.pc = "snapshot" /\ BuildFine(j, Untouched, size)
  BY BackupFacts DEF CreateEncryptedBackup, BackupsInv, BuildInv
<1>2. CASE NoFaultHere /\ Sending(t, "db")
  <2> DEFINE r == [j EXCEPT !.pc = "send", !.kind = "db", !.left = Admins, !.ok = 0,
                            !.made = time]
  <2>0. time \in Nat
    BY BackupFacts
  <2>2. job' = [job EXCEPT ![t] = r]
    BY <1>2 DEF Sending
  <2>1. /\ r \in BackupJobs /\ r.pc = "send" /\ r.kind = "db" /\ r.left = Admins /\ r.ok = 0
        /\ r.made = time /\ r.build = j.build
    <3>1. j \in BackupJobs
      BY <1>1
    <3> HIDE DEF j
    <3>2. r \in BackupJobs
      BY <2>0, <3>1, SendUpdated
    <3>3. /\ r.pc = "send" /\ r.kind = "db" /\ r.left = Admins /\ r.ok = 0
          /\ r.made = time /\ r.build = j.build
      BY <3>1 DEF BackupJobs
    <3> QED BY <3>2, <3>3
  <2> HIDE DEF r
  <2>5. LoopFine(r, mail, Slack', time) /\ SendFine(r, time)
    BY <2>1 DEF LoopFine, Waits, DbDecided, SendFine
  <2>6. BuildFine(r, Untouched, size)
    BY <1>1, <2>1, BuildKept DEF Building
  <2> QED BY <1>2, <2>1, <2>2, <2>5, <2>6, QuietTaskMoves DEF CreateEncryptedBackup
<1>3. CASE SnapshotFails /\ Go(t, IF t = "loop" THEN "recovery" ELSE "idle")
  <2> DEFINE p == IF t = "loop" THEN "recovery" ELSE "idle"
             r == [j EXCEPT !.pc = p]
  <2>1. p \in {"recovery", "idle"} /\ p \in Places /\ (t = "loop" => p = "recovery")
    BY DEF Places
  <2>2. job' = [job EXCEPT ![t] = r]
    BY <1>3 DEF Go
  <2> HIDE DEF p
  <2>3. r \in BackupJobs /\ r.pc = p /\ r.build = j.build
    BY <1>1, <2>1, PlaceUpdated
  <2> HIDE DEF r
  <2>4. HeldIn(mail) => Due(mail, Slack', time + Interval)
    BY <1>3, FaultPays DEF SnapshotFails, CreateEncryptedBackup
  <2>5. t = "loop" => LoopFine(r, mail, Slack', time)
    BY <2>1, <2>3, <2>4 DEF LoopFine, Waits
  <2>6. SendFine(r, time)
    BY <2>1, <2>3 DEF SendFine
  <2>7. BuildFine(r, Untouched, size)
    <3>1. CASE p = "idle"
      BY <1>1, <2>3, <3>1, BuildKept DEF Building
    <3>2. CASE p = "recovery"
      BY <1>1, <2>3, <3>2, BuildKept DEF Building
    <3> QED BY <2>1, <3>1, <3>2
  <2> QED BY <1>3, <2>2, <2>3, <2>5, <2>6, <2>7, QuietTaskMoves
          DEF CreateEncryptedBackup, SnapshotFails
<1> QED BY <1>2, <1>3 DEF CreateEncryptedBackup

\* A move between two places after the database backup has been decided.
LEMMA StaysDecided ==
  ASSUME NEW j \in BackupJobs, NEW r \in BackupJobs, NEW m, NEW d, NEW now,
         LoopFine(j, m, d, now), DbDecided(j),
         \/ r.pc \in {"recovery", "system", "walk", "read"}
         \/ r.pc = "send" /\ r.kind # "db"
  PROVE  LoopFine(r, m, d, now)
BY DEF LoopFine, DbDecided, Waits

\* The recovery bundle is sent or skipped.
LEMMA RecoveryBundleInv ==
  ASSUME BackupsInv, BackupsAssumption, NEW t \in BackupTasks, RecoveryBundle(t)
  PROVE  BackupsInv'
<1> DEFINE j == job[t]
<1>1. j \in BackupJobs /\ j.pc = "recovery" /\ BuildFine(j, Untouched, size)
  BY BackupFacts DEF RecoveryBundle, BackupsInv, BuildInv
<1>2. Slack' = Slack /\ DbDecided(j)
  BY <1>1, SlackStays DEF RecoveryBundle, DbDecided
<1>3. t = "loop" => LoopFine(j, mail, Slack', time)
  BY <1>2 DEF BackupsInv, ClockInv
<1>4. CASE Sending(t, "recovery")
  <2> DEFINE r == [j EXCEPT !.pc = "send", !.kind = "recovery", !.left = Admins, !.ok = 0,
                            !.made = time]
  <2>0. time \in Nat
    BY BackupFacts
  <2>2. job' = [job EXCEPT ![t] = r]
    BY <1>4 DEF Sending
  <2>1. /\ r \in BackupJobs /\ r.pc = "send" /\ r.kind = "recovery" /\ r.left = Admins /\ r.ok = 0
        /\ r.made = time /\ r.build = j.build
    <3>1. j \in BackupJobs
      BY <1>1
    <3> HIDE DEF j
    <3>2. r \in BackupJobs
      BY <2>0, <3>1, SendUpdated
    <3>3. /\ r.pc = "send" /\ r.kind = "recovery" /\ r.left = Admins /\ r.ok = 0
          /\ r.made = time /\ r.build = j.build
      BY <3>1 DEF BackupJobs
    <3> QED BY <3>2, <3>3
  <2> HIDE DEF r
  <2>5. t = "loop" => LoopFine(r, mail, Slack', time)
    BY <1>1, <1>2, <1>3, <2>1, StaysDecided
  <2>6. SendFine(r, time) /\ BuildFine(r, Untouched, size)
    BY <1>1, <2>1, BuildKept DEF SendFine, Building
  <2> QED BY <2>1, <2>2, <2>5, <2>6, QuietTaskMoves DEF RecoveryBundle, NoFaultHere
<1>5. CASE Go(t, "system")
  <2> DEFINE r == [j EXCEPT !.pc = "system"]
  <2>1. r \in BackupJobs /\ r.pc = "system" /\ r.build = j.build
    BY <1>1, PlaceUpdated DEF Places
  <2>2. job' = [job EXCEPT ![t] = r]
    BY <1>5 DEF Go
  <2> HIDE DEF r
  <2>3. t = "loop" => LoopFine(r, mail, Slack', time)
    BY <1>1, <1>2, <1>3, <2>1, StaysDecided
  <2>4. SendFine(r, time) /\ BuildFine(r, Untouched, size)
    BY <1>1, <2>1, BuildKept DEF SendFine, Building
  <2> QED BY <2>1, <2>2, <2>3, <2>4, QuietTaskMoves DEF RecoveryBundle, NoFaultHere
<1> QED BY <1>4, <1>5 DEF RecoveryBundle

\* The recovery bundle has been sent.
LEMMA RecoveryDeliveredInv ==
  ASSUME BackupsInv, BackupsAssumption, NEW t \in BackupTasks, RecoveryDelivered(t)
  PROVE  BackupsInv'
<1> DEFINE j == job[t]
           r == [j EXCEPT !.pc = "system"]
<1>1. j \in BackupJobs /\ j.pc = "send" /\ j.kind = "recovery" /\ BuildFine(j, Untouched, size)
  BY BackupFacts DEF RecoveryDelivered, BackupsInv, BuildInv
<1>2. Slack' = Slack /\ DbDecided(j)
  BY <1>1, SlackStays DEF RecoveryDelivered, DbDecided
<1>3. t = "loop" => LoopFine(j, mail, Slack', time)
  BY <1>2 DEF BackupsInv, ClockInv
<1>4. r \in BackupJobs /\ r.pc = "system" /\ r.build = j.build
  BY <1>1, PlaceUpdated DEF Places
<1>5. job' = [job EXCEPT ![t] = r]
  BY DEF RecoveryDelivered, Go
<1> HIDE DEF r
<1>6. t = "loop" => LoopFine(r, mail, Slack', time)
  BY <1>1, <1>2, <1>3, <1>4, StaysDecided
<1>7. SendFine(r, time) /\ BuildFine(r, Untouched, size)
  BY <1>1, <1>4, BuildKept DEF SendFine, Building
<1> QED BY <1>4, <1>5, <1>6, <1>7, QuietTaskMoves DEF RecoveryDelivered, NoFaultHere

\* The database backup was tried with every admin: the stamp is a delivery somebody has.
LEMMA BackupDeliveredInv ==
  ASSUME BackupsInv, BackupsAssumption, NEW t \in BackupTasks, BackupDelivered(t)
  PROVE  BackupsInv'
<1> DEFINE j == job[t]
           r == [j EXCEPT !.pc = "recovery"]
<1>1. /\ j \in BackupJobs /\ j.pc = "send" /\ j.kind = "db" /\ j.left = {}
      /\ BuildFine(j, Untouched, size)
  BY BackupFacts DEF BackupDelivered, BackupsInv, BuildInv
<1>2. r \in BackupJobs /\ r.pc = "recovery" /\ r.build = j.build
  BY <1>1, PlaceUpdated DEF Places
<1>3. job' = [job EXCEPT ![t] = r]
  BY DEF BackupDelivered, Go
<1> HIDE DEF r
<1>4. Slack' \in Nat /\ Slack' >= Slack /\ faultsLeft' \in 0 .. MaxBackupFaults
  BY SlackStays, SlackOfFault, BackupFacts DEF BackupDelivered, BackupsInv, BackupTypes, NoFaultHere
<1>5. /\ WorldFine(mail, Slack', time, sent)
      /\ LoopFine(job["loop"], mail, Slack', time)
  BY <1>4, MoreSlack, BackupFacts DEF BackupsInv, ClockInv
<1>6. HeldIn(mail) /\ t = "loop" => Due(mail, Slack', time + Interval)
  <2>1. HeldIn(mail) => j.left # Admins
    BY <1>1 DEF HeldIn
  <2> QED BY <1>1, <1>5, <2>1 DEF LoopFine, DbDecided
<1>7. t = "loop" => LoopFine(r, mail, Slack', time)
  BY <1>2, <1>6 DEF LoopFine, Waits
<1>8. SendFine(r, time) /\ BuildFine(r, Untouched, size)
  BY <1>1, <1>2, BuildKept DEF SendFine, Building
<1>9. sent' \in Nat \cup {Never} /\ WorldFine(mail, Slack', time, sent')
  <2>1. CASE sent' = sent
    BY <1>5, <2>1 DEF BackupsInv, BackupTypes
  <2>2. CASE MayRecord(t) /\ sent' = time
    <3>1. t = "loop" /\ j.ok > 0
      BY <2>2 DEF MayRecord
    <3>2. \E a \in Admins : mail[a] >= time
      BY <1>1, <1>5, <3>1 DEF LoopFine
    <3> QED BY <1>5, <2>2, <3>2, BackupFacts DEF WorldFine
  <2> QED BY <2>1, <2>2 DEF BackupDelivered
<1>10. /\ mail' = mail /\ mail' \in [Admins -> Nat \cup {Never}]
       /\ crashesLeft' \in 0 .. MaxBackupCrashes /\ UNCHANGED <<time, size, changesLeft>>
  BY DEF BackupDelivered, BackupsInv, BackupTypes
<1>11. LoopFine(IF t = "loop" THEN r ELSE job["loop"], mail', Slack', time)
  BY <1>5, <1>7, <1>10
<1>12. WorldFine(mail', Slack', time, sent')
  BY <1>9, <1>10
<1> QED BY <1>2, <1>3, <1>4, <1>8, <1>9, <1>10, <1>11, <1>12, OneTaskMoves


\* A delivery succeeds or fails.
LEMMA SendDocumentInv ==
  ASSUME BackupsInv, BackupsAssumption, NEW t \in BackupTasks, SendDocument(t)
  PROVE  BackupsInv'
<1> DEFINE j == job[t]
<1>1. /\ j \in BackupJobs /\ j.pc = "send" /\ BuildFine(j, Untouched, size)
      /\ j.left \in SUBSET Admins /\ j.ok \in Nat /\ j.made = time /\ time \in Nat
  BY BackupFacts DEF SendDocument, BackupsInv, BuildInv, BackupJobs, ClockInv, SendFine
<1>2. PICK a \in j.left :
         \/ /\ NoFaultHere
            /\ job' = [job EXCEPT ![t].left = @ \ {a}, ![t].ok = @ + 1]
            /\ mail' = IF j.kind = "db"
                       THEN [mail EXCEPT ![a] = Max({@, j.made})] ELSE mail
         \/ /\ FaultHere
            /\ job' = [job EXCEPT ![t].left = @ \ {a}]
            /\ UNCHANGED mail
  BY DEF SendDocument
<1>3. a \in Admins /\ mail[a] \in Int /\ mail[a] <= time
  BY <1>1, <1>2, BackupFacts DEF Never, BackupsInv, ClockInv, WorldFine
<1>4. CASE FaultHere /\ job' = [job EXCEPT ![t].left = @ \ {a}] /\ UNCHANGED mail
  <2> DEFINE r == [j EXCEPT !.left = @ \ {a}]
  <2>1. job' = [job EXCEPT ![t] = r]
    BY <1>4
  <2>2. r \in BackupJobs
    BY <1>1, LeftUpdated
  <2>3. r.pc = "send" /\ r.kind = j.kind /\ r.ok = j.ok /\ r.made = j.made /\ r.build = j.build
    BY <1>1 DEF BackupJobs
  <2> HIDE DEF r
  <2>4. t = "loop" => LoopFine(r, mail, Slack', time)
    <3>1. HeldIn(mail) => Due(mail, Slack', time + Interval)
      BY <1>4, FaultPays DEF SendDocument
    <3>2. t = "loop" /\ r.kind = "db" /\ r.ok > 0 => \E x \in Admins : mail[x] >= time
      BY <1>1, <2>3 DEF BackupsInv, ClockInv, LoopFine
    <3> QED BY <2>3, <3>1, <3>2 DEF LoopFine, Waits
  <2>5. SendFine(r, time) /\ BuildFine(r, Untouched, size)
    BY <1>1, <2>3, BuildKept DEF SendFine, Building
  <2> QED BY <1>4, <2>1, <2>2, <2>4, <2>5, QuietTaskMoves DEF SendDocument
<1>5. CASE NoFaultHere /\ job' = [job EXCEPT ![t].left = @ \ {a}, ![t].ok = @ + 1]
  <2> DEFINE r == [j EXCEPT !.left = @ \ {a}, !.ok = @ + 1]
  <2>1. job' = [job EXCEPT ![t] = r]
    BY <1>5
  <2>2. r \in BackupJobs
    <3>1. j.left \ {a} \in SUBSET Admins /\ j.ok + 1 \in Nat
      BY <1>1
    <3> QED BY <1>1, <3>1, LeftUpdated
  <2>3. r.pc = "send" /\ r.kind = j.kind /\ r.made = j.made /\ r.build = j.build
    BY <1>1 DEF BackupJobs
  <2> HIDE DEF r
  <2>4. SendFine(r, time) /\ BuildFine(r, Untouched, size)
    BY <1>1, <2>3, BuildKept DEF SendFine, Building
  <2>5. Slack' = Slack
    BY <1>5, SlackStays DEF SendDocument, NoFaultHere
  <2>6. CASE j.kind # "db"
    <3>1. mail' = mail
      BY <1>2, <1>5, <2>6 DEF NoFaultHere, FaultHere
    <3>2. t = "loop" => LoopFine(r, mail, Slack', time)
      BY <1>1, <2>2, <2>3, <2>5, <2>6, StaysDecided DEF DbDecided, BackupsInv, ClockInv
    <3> QED BY <1>5, <2>1, <2>2, <2>4, <3>1, <3>2, QuietTaskMoves DEF SendDocument
  <2>7. CASE j.kind = "db"
    <3>1. mail' = [mail EXCEPT ![a] = time]
      <4>1. Max({mail[a], time}) = time
        BY <1>1, <1>3 DEF Max
      <4>2. mail' = [mail EXCEPT ![a] = Max({mail[a], j.made})] \/ FaultHere
        BY <1>2, <2>7
      <4>3. ~FaultHere
        BY <1>5 DEF NoFaultHere, FaultHere, BackupsInv, BackupTypes
      <4> QED BY <1>1, <4>1, <4>2, <4>3
    <3>2. /\ mail' \in [Admins -> Nat \cup {Never}] /\ mail'[a] = time
          /\ \A x \in Admins : mail'[x] <= time /\ mail'[x] >= mail[x]
      BY <1>1, <1>3, <3>1, BackupFacts DEF BackupsInv, ClockInv, WorldFine, Never
    <3>3. /\ HeldIn(mail') /\ Slack' \in Nat
          /\ \A x \in Int : x <= time + Interval => Due(mail', Slack', x)
      <4> DEFINE m == mail'
                 d == Slack'
      <4>1. m \in [Admins -> Nat \cup {Never}] /\ m[a] = time /\ d \in Nat /\ d >= Interval
        BY <2>5, <3>2, BackupFacts
      <4> HIDE DEF m, d
      <4>2. HeldIn(m) /\ \A x \in Int : x <= time + Interval => Due(m, d, x)
        BY <1>1, <1>3, <4>1, JustDelivered
      <4> QED BY <4>1, <4>2 DEF m, d
    <3>4. WorldFine(mail', Slack', time, sent)
      <4>1. Due(mail', Slack', time)
        BY <3>3, BackupFacts
      <4>2. sent # Never => sent <= time /\ \E x \in Admins : mail'[x] >= sent
        <5>1. SUFFICES ASSUME sent # Never PROVE sent <= time /\ \E x \in Admins : mail'[x] >= sent
          OBVIOUS
        <5>2. sent <= time /\ sent \in Nat
          BY <5>1 DEF BackupsInv, BackupTypes, ClockInv, WorldFine
        <5> QED BY <1>1, <1>3, <3>2, <5>2
      <4> QED BY <3>2, <4>1, <4>2 DEF WorldFine
    <3>5. \A k \in BackupJobs : k.pc # "idle" /\ (k.pc \in Waits => k.wake <= time + Interval)
                                  => LoopFine(k, mail', Slack', time)
      <4> SUFFICES ASSUME NEW k \in BackupJobs, k.pc # "idle",
                          k.pc \in Waits => k.wake <= time + Interval
                   PROVE  LoopFine(k, mail', Slack', time)
        OBVIOUS
      <4>1. k.wake \in Int /\ time + Interval \in Int
        BY BackupFacts DEF BackupJobs
      <4>2. Due(mail', Slack', time + Interval)
        BY <3>3, <4>1
      <4>3. k.pc \in Waits => Due(mail', Slack', k.wake)
        BY <3>3, <4>1
      <4>4. \E x \in Admins : mail'[x] >= time
        BY <1>1, <1>3, <3>2
      <4> QED BY <4>2, <4>3, <4>4 DEF LoopFine
    <3>6. LoopFine(IF t = "loop" THEN r ELSE job["loop"], mail', Slack', time)
      <4>1. CASE t = "loop"
        BY <2>2, <2>3, <3>5, <4>1 DEF Waits
      <4>2. CASE t # "loop"
        BY <3>5, <4>2, BackupFacts DEF BackupsInv, ClockInv, LoopFine
      <4> QED BY <4>1, <4>2
    <3>7. /\ sent' = sent /\ sent' \in Nat \cup {Never} /\ faultsLeft' \in 0 .. MaxBackupFaults
          /\ crashesLeft' \in 0 .. MaxBackupCrashes /\ UNCHANGED <<time, size, changesLeft>>
      BY <1>5 DEF SendDocument, NoFaultHere, BackupsInv, BackupTypes
    <3>8. WorldFine(mail', Slack', time, sent')
      BY <3>4, <3>7
    <3> QED BY <2>1, <2>2, <2>4, <3>2, <3>6, <3>7, <3>8, OneTaskMoves
  <2> QED BY <2>6, <2>7
<1> QED BY <1>2, <1>4, <1>5

\* The walk of the system sources begins.
LEMMA SystemBundleInv ==
  ASSUME BackupsInv, BackupsAssumption, NEW t \in BackupTasks, SystemBundle(t)
  PROVE  BackupsInv'
<1> DEFINE j == job[t]
           b == [NoBuild EXCEPT !.todo = WalkSources]
           r == [j EXCEPT !.pc = "walk", !.build = b]
<1>1. j \in BackupJobs /\ j.pc = "system" /\ DbDecided(j)
  BY BackupFacts DEF SystemBundle, DbDecided
<1>2. job' = [job EXCEPT ![t] = r]
  BY DEF SystemBundle
<1>3. /\ b.todo = WalkSources /\ b.seen = {} /\ b.total = 0 /\ b.manifest = {}
      /\ b.truncated = FALSE
  BY DEF NoBuild
<1>4. b \in Builds
  <2>1. WalkSources \in Seq(Walked)
    BY DEF BackupsAssumption, Walked
  <2> QED BY <2>1, NoBuildFine, BuildUpdated DEF Builds
<1>5. Consistent(b)
  <2>1. NoBuild.manifest = {} /\ NoBuild.truncated = FALSE
    BY SMTT(30) DEF NoBuild
  <2> HIDE DEF b
  <2> QED BY <1>3, <2>1, NoBuildFine DEF Consistent
<1> HIDE DEF b
<1>6. r \in BackupJobs /\ r.pc = "walk" /\ r.build = b
  BY <1>1, <1>4, WalkUpdated DEF Places
<1> HIDE DEF r
<1>7. t = "loop" => LoopFine(r, mail, Slack', time)
  <2>1. Slack' = Slack
    BY SlackStays DEF SystemBundle
  <2> QED BY <1>1, <1>6, <2>1, StaysDecided DEF BackupsInv, ClockInv
<1>8. SendFine(r, time)
  BY <1>6 DEF SendFine
<1>9. BuildFine(r, Untouched, size)
  BY <1>3, <1>5, <1>6 DEF BuildFine, Building, Walked, BackupsAssumption
<1> QED BY <1>2, <1>6, <1>7, <1>8, <1>9, QuietTaskMoves DEF SystemBundle, NoFaultHere


\* A path seen before is dropped.
LEMMA SkippedGoesOn ==
  ASSUME NEW b \in Builds, Consistent(b), b.todo # <<>>, Head(b.todo) \in b.seen
  PROVE  GoesOn(b, [b EXCEPT !.todo = Tail(@)])
<1> DEFINE d == [b EXCEPT !.todo = Tail(@)]
<1>1. /\ d.todo = Tail(b.todo) /\ d.seen = b.seen /\ d.manifest = b.manifest
      /\ d.total = b.total /\ d.truncated = b.truncated
  BY DEF Builds
<1>2. b.todo \in Seq(Walked)
  BY DEF Builds
<1>3. Tail(b.todo) \in Seq(Walked) /\ Range(b.todo) = {Head(b.todo)} \cup Range(Tail(b.todo))
  BY <1>2, RangeStep
<1>4. d \in Builds
  BY <1>3, BuildUpdated DEF Builds
<1> HIDE DEF d
<1>5. Consistent(d)
  BY <1>1 DEF Consistent
<1>6. d.seen \cup Range(d.todo) = b.seen \cup Range(b.todo)
  BY <1>1, <1>3
<1>7. GoesOn(b, d)
  BY <1>1, <1>4, <1>5, <1>6 DEF GoesOn
<1> QED BY <1>7 DEF d

\* A task that walks on with a build that goes on.
LEMMA WalkGoesOn ==
  ASSUME BackupsInv, BackupsAssumption, NEW t \in BackupTasks, WalkEntry(t) \/ ReadEntry(t),
         job[t].build \in Builds, job[t].build.todo # <<>>,
         NEW c \in Builds, Consistent(c), Untouched => c.total <= MaxTotalBytes,
         c.seen \cup Range(c.todo) = job[t].build.seen \cup Range(job[t].build.todo),
         job' = [job EXCEPT ![t].pc = "walk", ![t].build = c]
  PROVE  BackupsInv'
<1> DEFINE j == job[t]
           r == [j EXCEPT !.pc = "walk", !.build = c]
<1>1. /\ j \in BackupJobs /\ j.pc \in {"walk", "read"} /\ DbDecided(j)
      /\ BuildFine(j, Untouched, size)
  BY BackupFacts DEF WalkEntry, ReadEntry, DbDecided, BackupsInv, BuildInv
<1>2. job' = [job EXCEPT ![t] = r]
  OBVIOUS
<1>3. r \in BackupJobs /\ r.pc = "walk" /\ r.build = c
  <2>1. "walk" \in Places
    BY DEF Places
  <2>2. j \in BackupJobs
    BY <1>1
  <2> HIDE DEF j
  <2>3. r \in BackupJobs
    BY <2>1, <2>2, WalkUpdated
  <2> QED BY <2>2, <2>3 DEF BackupJobs
<1> HIDE DEF r
<1>4. t = "loop" => LoopFine(r, mail, Slack', time)
  <2>1. Slack' = Slack
    BY SlackStays DEF WalkEntry, ReadEntry
  <2> QED BY <1>1, <1>3, <2>1, StaysDecided DEF BackupsInv, ClockInv
<1>5. SendFine(r, time)
  BY <1>3 DEF SendFine
<1>6. BuildFine(r, Untouched, size)
  <2>1. c.seen \cup Range(c.todo) = Walked
    BY <1>1 DEF BuildFine, Building
  <2> QED BY <1>3, <2>1 DEF BuildFine
<1> QED BY <1>2, <1>3, <1>4, <1>5, <1>6, QuietTaskMoves DEF WalkEntry, ReadEntry, NoFaultHere

\* One path of the walk.
LEMMA WalkEntryInv ==
  ASSUME BackupsInv, BackupsAssumption, NEW t \in BackupTasks, WalkEntry(t)
  PROVE  BackupsInv'
<1> DEFINE j == job[t]
           b == j.build
           p == Head(b.todo)
<1>1. /\ j \in BackupJobs /\ j.pc = "walk" /\ DbDecided(j) /\ BuildFine(j, Untouched, size)
      /\ b \in Builds /\ b.todo # <<>>
  BY BackupFacts DEF WalkEntry, DbDecided, BackupsInv, BuildInv
<1>2. /\ Consistent(b)
      /\ Untouched => b.total <= MaxTotalBytes
      /\ b.seen \cup Range(b.todo) = Walked
  BY <1>1 DEF BuildFine, Building
<1>3. b.todo \in Seq(Walked) /\ b.total \in Nat
  BY <1>1 DEF Builds
<1>4. p \in Walked
  BY <1>1, <1>2, <1>3, RangeStep
<1>5. ASSUME NEW c, GoesOn(b, c), job' = [job EXCEPT ![t].build = c]
      PROVE  BackupsInv'
  <2>1. job' = [job EXCEPT ![t].pc = "walk", ![t].build = c]
    <3>1. [j EXCEPT !.build = c] = [j EXCEPT !.pc = "walk", !.build = c]
      BY <1>1 DEF BackupJobs
    <3>2. [job EXCEPT ![t].build = c] = [job EXCEPT ![t] = [j EXCEPT !.build = c]]
      OBVIOUS
    <3>3. [job EXCEPT ![t].pc = "walk", ![t].build = c]
            = [job EXCEPT ![t] = [j EXCEPT !.pc = "walk", !.build = c]]
      OBVIOUS
    <3> HIDE DEF j
    <3> QED BY <1>5, <3>1, <3>2, <3>3
  <2> QED BY <1>1, <1>2, <1>5, <2>1, WalkGoesOn DEF GoesOn
<1>6. CASE p \in b.seen /\ job' = [job EXCEPT ![t].build.todo = Tail(@)]
  <2> DEFINE d == [b EXCEPT !.todo = Tail(@)]
  <2>1. GoesOn(b, d)
    BY <1>1, <1>2, <1>6, SkippedGoesOn
  <2>2. job' = [job EXCEPT ![t].build = d]
    BY <1>6
  <2> HIDE DEF d
  <2> QED BY <1>5, <2>1, <2>2
<1>7. CASE p \notin b.seen /\ job' = [job EXCEPT ![t].build = Listed(b, p, Verdict(b, p))]
  <2> DEFINE v == Verdict(b, p)
             d == Listed(b, p, v)
  <2>1. v \in {"policy", "link", "error", "size", "file"}
    BY DEF Verdict
  <2> HIDE DEF v
  <2>2. GoesOn(b, d)
    BY <1>1, <1>2, <1>7, <2>1, ListedGoesOn
  <2>3. job' = [job EXCEPT ![t].build = d]
    BY <1>7 DEF v
  <2> HIDE DEF d
  <2> QED BY <1>5, <2>2, <2>3
<1>8. CASE p \notin b.seen /\ Verdict(b, p) = "file" /\ Go(t, "read")
  <2> DEFINE r == [j EXCEPT !.pc = "read"]
  <2>1. /\ p \notin b.seen \cup Excluded \cup Links
        /\ size[p] # Gone /\ ~NoRoom(b, p)
    BY <1>8 DEF Verdict
  <2>2. job' = [job EXCEPT ![t] = r]
    BY <1>8 DEF Go
  <2>3. r \in BackupJobs /\ r.pc = "read" /\ r.build = b
    BY <1>1, PlaceUpdated DEF Places
  <2> HIDE DEF r
  <2>4. t = "loop" => LoopFine(r, mail, Slack', time)
    <3>1. Slack' = Slack
      BY SlackStays DEF WalkEntry
    <3> QED BY <1>1, <2>3, <3>1, StaysDecided DEF BackupsInv, ClockInv
  <2>5. SendFine(r, time)
    BY <2>3 DEF SendFine
  <2>6. Untouched => b.total + size[p] <= MaxTotalBytes
    <3>1. p \in Files
      BY <1>4, <2>1 DEF Files
    <3>2. size[p] \in Int
      BY <3>1 DEF BackupsInv, BackupTypes, Gone
    <3> QED BY <1>3, <2>1, <3>2 DEF NoRoom, BackupsAssumption
  <2>7. BuildFine(r, Untouched, size)
    <3>1. p = Head(b.todo)
      OBVIOUS
    <3> HIDE DEF b, p
    <3> QED BY <1>1, <1>2, <2>1, <2>3, <2>6, <3>1 DEF BuildFine
  <2> QED BY <2>2, <2>3, <2>4, <2>5, <2>7, QuietTaskMoves DEF WalkEntry, NoFaultHere
<1> QED BY <1>6, <1>7, <1>8 DEF WalkEntry

\* The file is read as it is now.
LEMMA ReadEntryInv ==
  ASSUME BackupsInv, BackupsAssumption, NEW t \in BackupTasks, ReadEntry(t)
  PROVE  BackupsInv'
<1> DEFINE j == job[t]
           b == j.build
           p == Head(b.todo)
<1>1. /\ j \in BackupJobs /\ j.pc = "read" /\ BuildFine(j, Untouched, size) /\ b \in Builds
  BY BackupFacts DEF ReadEntry, BackupsInv, BuildInv
<1>2. /\ Consistent(b)
      /\ Untouched => b.total <= MaxTotalBytes
      /\ b.seen \cup Range(b.todo) = Walked
      /\ b.todo # <<>> /\ p \notin b.seen \cup Excluded \cup Links
      /\ Untouched => (size[p] # Gone /\ b.total + size[p] <= MaxTotalBytes)
  BY <1>1 DEF BuildFine, Building
<1>3. b.todo \in Seq(Walked) /\ b.total \in Nat
  BY <1>1 DEF Builds
<1>4. p \in Files /\ size[p] \in Nat \cup {Gone}
  BY <1>2, <1>3, RangeStep DEF Files, BackupsInv, BackupTypes
<1>5. CASE size[p] = Gone
  <2> DEFINE d == Listed(b, p, "error")
  <2>1. job' = [job EXCEPT ![t].pc = "walk", ![t].build = d]
    BY <1>5 DEF ReadEntry
  <2>2. GoesOn(b, d)
    BY <1>1, <1>2, ListedGoesOn
  <2> HIDE DEF d
  <2> QED BY <1>1, <1>2, <2>1, <2>2, WalkGoesOn DEF GoesOn
<1>6. CASE size[p] # Gone
  <2> DEFINE c == Listed(b, p, "file")
             d == [c EXCEPT !.total = @ + size[p]]
  <2>1. job' = [job EXCEPT ![t].pc = "walk", ![t].build = d]
    BY <1>6 DEF ReadEntry
  <2>2. GoesOn(b, c)
    BY <1>1, <1>2, ListedGoesOn
  <2> HIDE DEF c
  <2>3. c \in Builds /\ c.total \in Nat /\ c.total + size[p] \in Nat
    BY <1>3, <1>4, <1>6, <2>2 DEF GoesOn
  <2>4. /\ d.todo = c.todo /\ d.seen = c.seen /\ d.manifest = c.manifest
        /\ d.truncated = c.truncated /\ d.total = c.total + size[p]
    BY <2>3 DEF Builds
  <2>5. d \in Builds
    BY <2>3, BuildUpdated DEF Builds
  <2> HIDE DEF d
  <2>6. Consistent(d)
    BY <2>2, <2>4 DEF Consistent, GoesOn
  <2>7. Untouched => d.total <= MaxTotalBytes
    BY <1>2, <2>2, <2>4 DEF GoesOn
  <2>8. d.seen \cup Range(d.todo) = b.seen \cup Range(b.todo)
    BY <2>2, <2>4 DEF GoesOn
  <2> QED BY <1>1, <1>2, <2>1, <2>5, <2>6, <2>7, <2>8, WalkGoesOn
<1> QED BY <1>5, <1>6


\* A task that rests, and one that has gone to sleep.
LEMMA RestingIs ==
  ASSUME NEW w \in Nat
  PROVE  LET r == [Resting EXCEPT !.pc = "asleep", !.wake = w] IN
         /\ Resting \in BackupJobs /\ Resting.pc = "idle" /\ Resting.build = NoBuild
         /\ r \in BackupJobs /\ r.pc = "asleep" /\ r.wake = w /\ r.build = NoBuild
<1> DEFINE b == NoBuild
<1>1. b \in Builds
  BY NoBuildFine
<1>2. Resting = [pc |-> "idle", wake |-> 0, kind |-> "db", left |-> {}, ok |-> 0,
                 made |-> 0, build |-> b]
  BY DEF Resting
<1> HIDE DEF b
<1>3. Resting \in BackupJobs /\ Resting.pc = "idle" /\ Resting.build = b
  BY <1>1, <1>2, SMTT(30) DEF BackupJobs, Places
<1> DEFINE r == [Resting EXCEPT !.pc = "asleep", !.wake = w]
<1>4. r \in BackupJobs
  BY <1>3, WakeUpdated DEF Places
<1>5. r.pc = "asleep" /\ r.wake = w /\ r.build = b
  BY <1>3 DEF BackupJobs
<1> HIDE DEF r
<1>6. /\ Resting \in BackupJobs /\ Resting.pc = "idle" /\ Resting.build = b
      /\ r \in BackupJobs /\ r.pc = "asleep" /\ r.wake = w /\ r.build = b
  BY <1>3, <1>4, <1>5
<1> QED BY <1>6 DEF r, b

\* After the last bundle the loop sleeps an interval, and the button is free again.
LEMMA AttemptOverInv ==
  ASSUME BackupsInv, BackupsAssumption, NEW t \in BackupTasks, AttemptOver(t),
         DbDecided(job[t]),
         UNCHANGED <<time, sent, mail, size, faultsLeft, crashesLeft, changesLeft>>
  PROVE  BackupsInv'
<1> DEFINE w == time + Interval
           R == [Resting EXCEPT !.pc = "asleep", !.wake = w]
           r == IF t = "loop" THEN R ELSE Resting
<1>1. w \in Nat
  BY BackupFacts
<1>3. job' = [job EXCEPT ![t] = r]
  BY DEF AttemptOver
<1>4. r \in BackupJobs /\ r.pc \in {"asleep", "idle"} /\ r.build = NoBuild
      /\ (t = "loop" => r.pc = "asleep" /\ r.wake = w)
  <2>1. /\ Resting \in BackupJobs /\ Resting.pc = "idle" /\ Resting.build = NoBuild
        /\ R \in BackupJobs /\ R.pc = "asleep" /\ R.wake = w /\ R.build = NoBuild
    <3> HIDE DEF w
    <3> QED BY <1>1, RestingIs
  <2> HIDE DEF R
  <2> QED BY <2>1
<1> HIDE DEF r
<1>5. Slack' = Slack
  BY SlackStays
<1>6. t = "loop" => LoopFine(r, mail, Slack', time)
  <2> SUFFICES ASSUME t = "loop" PROVE LoopFine(r, mail, Slack', time)
    OBVIOUS
  <2>1. HeldIn(mail) => Due(mail, Slack', time + Interval)
    BY <1>5 DEF BackupsInv, ClockInv, LoopFine
  <2> QED BY <1>1, <1>4, <2>1 DEF LoopFine, Waits, DbDecided
<1>7. SendFine(r, time)
  BY <1>4 DEF SendFine
<1>8. BuildFine(r, Untouched, size)
  BY <1>4, NoBuildFine DEF BuildFine, Building, BackupsAssumption
<1> QED BY <1>3, <1>4, <1>6, <1>7, <1>8, QuietTaskMoves DEF NoFaultHere

\* The system bundle is complete: it is sent, or skipped without a single file.
LEMMA SystemBuiltInv ==
  ASSUME BackupsInv, BackupsAssumption, NEW t \in BackupTasks, SystemBuilt(t)
  PROVE  BackupsInv'
<1> DEFINE j == job[t]
<1>1. /\ j \in BackupJobs /\ j.pc = "walk" /\ j.build.todo = <<>> /\ DbDecided(j)
      /\ BuildFine(j, Untouched, size)
  BY BackupFacts DEF SystemBuilt, DbDecided, BackupsInv, BuildInv
<1>2. CASE AttemptOver(t)
  BY <1>1, <1>2, AttemptOverInv DEF SystemBuilt
<1>3. CASE job' = [job EXCEPT ![t].pc = "send", ![t].kind = "system", ![t].left = Admins,
                              ![t].ok = 0, ![t].made = time]
  <2> DEFINE r == [j EXCEPT !.pc = "send", !.kind = "system", !.left = Admins, !.ok = 0,
                            !.made = time]
  <2>0. time \in Nat
    BY BackupFacts
  <2>1. /\ r \in BackupJobs /\ r.pc = "send" /\ r.kind = "system"
        /\ r.made = time /\ r.build = j.build
    <3>1. j \in BackupJobs
      BY <1>1, SMTT(30)
    <3> HIDE DEF j
    <3>2. r \in BackupJobs
      BY <2>0, <3>1, SendUpdated
    <3>3. /\ r.pc = "send" /\ r.kind = "system" /\ r.made = time /\ r.build = j.build
      BY <3>1 DEF BackupJobs
    <3> QED BY <3>2, <3>3
  <2>2. job' = [job EXCEPT ![t] = r]
    BY <1>3
  <2> HIDE DEF r
  <2>3. t = "loop" => LoopFine(r, mail, Slack', time)
    <3>1. Slack' = Slack
      BY SlackStays DEF SystemBuilt
    <3> QED BY <1>1, <2>1, <3>1, StaysDecided DEF BackupsInv, ClockInv
  <2>4. SendFine(r, time)
    BY <2>1 DEF SendFine
  <2>5. BuildFine(r, Untouched, size)
    BY <1>1, <2>1 DEF BuildFine, Building
  <2> QED BY <2>1, <2>2, <2>3, <2>4, <2>5, QuietTaskMoves DEF SystemBuilt, NoFaultHere
<1> QED BY <1>2, <1>3 DEF SystemBuilt

\* The system bundle has been sent.
LEMMA SystemDeliveredInv ==
  ASSUME BackupsInv, BackupsAssumption, NEW t \in BackupTasks, SystemDelivered(t)
  PROVE  BackupsInv'
<1>1. DbDecided(job[t]) /\ AttemptOver(t)
  BY DEF SystemDelivered, DbDecided
<1> QED BY <1>1, AttemptOverInv DEF SystemDelivered

\* A file changes: from then on the total limit is no longer claimed.
LEMMA FileChangesInv ==
  ASSUME BackupsInv, BackupsAssumption, NEW p \in Files, FileChanges(p)
  PROVE  BackupsInv'
<1>1. size' \in [Files -> Nat \cup {Gone}] /\ changesLeft' \in 0 .. MaxFileChanges
      /\ changesLeft' # MaxFileChanges
  BY DEF FileChanges, BackupsInv, BackupTypes, BackupsAssumption
<1>2. BackupTypes'
  BY <1>1 DEF FileChanges, BackupsInv, BackupTypes
<1>3. Slack' = Slack /\ ~Untouched'
  BY <1>1, SlackStays DEF FileChanges, Untouched
<1>4. ClockInv'
  BY <1>3 DEF BackupsInv, ClockInv, FileChanges
<1>5. BuildInv'
  BY <1>3 DEF BackupsInv, BuildInv, FileChanges, BuildFine, Building
<1> QED BY <1>2, <1>4, <1>5 DEF BackupsInv

\* Time passes while the loop sleeps and the button rests, at most until the loop wakes.
LEMMA BackupTickInv ==
  ASSUME BackupsInv, BackupsAssumption, BackupTick
  PROVE  BackupsInv'
<1> DEFINE j == job["loop"]
<1>1. /\ time \in Nat /\ time' = time + 1 /\ j.pc \in Waits /\ j.wake \in Nat
      /\ time + 1 <= j.wake /\ j.wake <= time + Interval /\ Slack' = Slack /\ Slack \in Nat
      /\ Interval \in Nat
  BY BackupFacts, SlackStays DEF BackupTick, Waits, BackupsInv, ClockInv, LoopFine, BackupJobs
<1>2. BackupTypes'
  BY <1>1 DEF BackupTick, BackupsInv, BackupTypes
<1>3. \A a \in Admins : mail[a] \in Int /\ mail[a] <= time
  BY BackupFacts DEF Never, BackupsInv, ClockInv, WorldFine
<1>4. HeldIn(mail) => Due(mail, Slack, j.wake)
  BY <1>1 DEF BackupsInv, ClockInv, LoopFine
<1>5. HeldIn(mail) => Due(mail, Slack, time + 1)
  <2> SUFFICES ASSUME HeldIn(mail) PROVE Due(mail, Slack, time + 1)
    OBVIOUS
  <2>1. PICK a \in Admins : mail[a] # Never /\ j.wake <= mail[a] + Slack
    BY <1>4 DEF Due
  <2>2. time + 1 <= mail[a] + Slack
    BY <1>1, <1>3, <2>1
  <2> QED BY <2>1, <2>2 DEF Due
<1>6. WorldFine(mail, Slack, time + 1, sent)
  <2>1. \A a \in Admins : mail[a] <= time + 1
    BY <1>1, <1>3
  <2>2. sent # Never => sent <= time + 1
    BY <1>1 DEF BackupsInv, BackupTypes, ClockInv, WorldFine, Never
  <2> QED BY <1>5, <2>1, <2>2 DEF BackupsInv, ClockInv, WorldFine
<1>7. LoopFine(j, mail, Slack, time + 1)
  <2>1. j.wake <= (time + 1) + Interval
    BY <1>1
  <2> QED BY <1>1, <1>4, <2>1 DEF LoopFine, Waits, DbDecided
<1>8. \A t \in BackupTasks : SendFine(job[t], time + 1)
  BY <1>1 DEF SendFine, BackupTick, BackupTasks, Waits
<1>9. ClockInv'
  <2>1. /\ mail' = mail /\ sent' = sent /\ job' = job
    BY DEF BackupTick
  <2> QED BY <1>1, <1>6, <1>7, <1>8, <2>1 DEF ClockInv
<1>10. BuildInv'
  BY DEF BackupTick, BackupsInv, BuildInv, Untouched
<1> QED BY <1>2, <1>9, <1>10 DEF BackupsInv

\* The record of a loop that has just started.
LEMMA StartingIs ==
  ASSUME BackupsAssumption, time \in Nat
  PROVE  /\ Starting \in BackupJobs /\ Starting.pc = "asleep" /\ Starting.wake = time + StartDelay
         /\ Starting.build = NoBuild
         /\ Resting \in BackupJobs /\ Resting.pc = "idle" /\ Resting.build = NoBuild
<1> DEFINE w == time + StartDelay
           r == [Resting EXCEPT !.pc = "asleep", !.wake = w]
<1>1. w \in Nat
  BY DEF BackupsAssumption
<1>2. Starting = r
  BY DEF Starting
<1> HIDE DEF w
<1>3. /\ Resting \in BackupJobs /\ Resting.pc = "idle" /\ Resting.build = NoBuild
      /\ r \in BackupJobs /\ r.pc = "asleep" /\ r.wake = w /\ r.build = NoBuild
  BY <1>1, RestingIs
<1> HIDE DEF r
<1> QED BY <1>2, <1>3 DEF w

\* Both tasks as they are in a new process.
LEMMA NewProcess ==
  ASSUME BackupsAssumption, time \in Nat, NEW u, NEW sz, NEW d \in Nat, NEW m,
         HeldIn(m) => Due(m, d, time + StartDelay),
         NEW f, f = [t \in BackupTasks |-> IF t = "loop" THEN Starting ELSE Resting]
  PROVE  /\ f \in [BackupTasks -> BackupJobs] /\ LoopFine(f["loop"], m, d, time)
         /\ \A t \in BackupTasks : SendFine(f[t], time) /\ BuildFine(f[t], u, sz)
<1>1. /\ f["loop"] = Starting
      /\ \A t \in BackupTasks : f[t] = Starting \/ f[t] = Resting
  BY DEF BackupTasks
<1>2. f \in [BackupTasks -> BackupJobs]
  BY StartingIs
<1>3. LoopFine(Starting, m, d, time)
  <2>1. time + StartDelay <= time + Interval
    BY DEF BackupsAssumption
  <2> QED BY <2>1, StartingIs DEF LoopFine, Waits, DbDecided
<1>4. SendFine(Starting, time) /\ SendFine(Resting, time)
  BY StartingIs DEF SendFine
<1>5. BuildFine(Starting, u, sz) /\ BuildFine(Resting, u, sz)
  BY StartingIs, NoBuildFine DEF BuildFine, Building, BackupsAssumption
<1> QED BY <1>1, <1>2, <1>3, <1>4, <1>5

\* The process dies and starts again.
LEMMA BackupCrashInv ==
  ASSUME BackupsInv, BackupsAssumption, BackupCrash
  PROVE  BackupsInv'
<1>1. /\ Slack' = Slack + StartDelay /\ crashesLeft' \in 0 .. MaxBackupCrashes
      /\ Slack \in Nat /\ StartDelay \in Nat /\ time \in Nat /\ Slack' \in Nat
  BY SlackOfCrash, BackupFacts DEF BackupCrash, BackupsInv, BackupsAssumption
<1>2. HeldIn(mail) => Due(mail, Slack', time + StartDelay)
  <2> SUFFICES ASSUME HeldIn(mail) PROVE Due(mail, Slack', time + StartDelay)
    OBVIOUS
  <2>1. PICK a \in Admins : mail[a] # Never /\ time <= mail[a] + Slack
    BY DEF BackupsInv, ClockInv, WorldFine, Due
  <2>2. mail[a] \in Int
    BY BackupFacts DEF Never
  <2>3. time + StartDelay <= mail[a] + Slack'
    BY <1>1, <2>1, <2>2
  <2> QED BY <2>1, <2>3 DEF Due
<1>3. WorldFine(mail, Slack', time, sent)
  <2>1. WorldFine(mail, Slack, time, sent)
    BY DEF BackupsInv, ClockInv
  <2>2. Slack' >= Slack
    BY <1>1
  <2>3. job["loop"] \in BackupJobs
    BY BackupFacts
  <2> QED BY <1>1, <2>1, <2>2, <2>3, MoreSlack, BackupFacts
<1> DEFINE g == [t \in BackupTasks |-> IF t = "loop" THEN Starting ELSE Resting]
<1>4. job' = g /\ UNCHANGED <<time, sent, mail, size, faultsLeft, changesLeft>>
  BY DEF BackupCrash
<1>5. /\ g \in [BackupTasks -> BackupJobs] /\ LoopFine(g["loop"], mail, Slack', time)
      /\ \A t \in BackupTasks : SendFine(g[t], time) /\ BuildFine(g[t], Untouched, size)
  <2>1. ASSUME NEW f, f = g
        PROVE  /\ f \in [BackupTasks -> BackupJobs] /\ LoopFine(f["loop"], mail, Slack', time)
               /\ \A t \in BackupTasks : SendFine(f[t], time) /\ BuildFine(f[t], Untouched, size)
    BY <1>1, <1>2, <2>1, NewProcess
  <2> QED BY <2>1
<1> HIDE DEF g
<1>6. BackupTypes'
  BY <1>1, <1>4, <1>5 DEF BackupsInv, BackupTypes
<1>7. ClockInv'
  BY <1>3, <1>4, <1>5 DEF ClockInv
<1>8. BuildInv'
  BY <1>4, <1>5 DEF BuildInv, Untouched
<1> QED BY <1>6, <1>7, <1>8 DEF BackupsInv

\* The first states.
LEMMA BackupsInitInv ==
  ASSUME BackupsInit, BackupsAssumption
  PROVE  BackupsInv
<1> DEFINE g == [t \in BackupTasks |-> IF t = "loop" THEN Starting ELSE Resting]
<1>1. /\ time = 0 /\ time \in Nat /\ sent = Never /\ mail = [a \in Admins |-> Never] /\ job = g
      /\ size = [p \in Files |-> FirstSize]
      /\ faultsLeft = MaxBackupFaults /\ crashesLeft = MaxBackupCrashes
      /\ changesLeft = MaxFileChanges
  BY DEF BackupsInit
<1>2. ~HeldIn(mail)
  BY <1>1 DEF HeldIn
<1>3. /\ g \in [BackupTasks -> BackupJobs] /\ LoopFine(g["loop"], mail, 0, time)
      /\ \A t \in BackupTasks : SendFine(g[t], time) /\ BuildFine(g[t], Untouched, size)
  <2>1. ASSUME NEW f, f = g
        PROVE  /\ f \in [BackupTasks -> BackupJobs] /\ LoopFine(f["loop"], mail, 0, time)
               /\ \A t \in BackupTasks : SendFine(f[t], time) /\ BuildFine(f[t], Untouched, size)
    BY <1>1, <1>2, <2>1, NewProcess
  <2> QED BY <2>1
<1> HIDE DEF g
<1>4. BackupTypes
  BY <1>1, <1>3 DEF BackupTypes, BackupsAssumption
<1>5. WorldFine(mail, Slack, time, sent)
  <2>1. \A a \in Admins : mail[a] <= time
    BY <1>1 DEF Never
  <2> QED BY <1>1, <1>2, <2>1 DEF WorldFine
<1>6. LoopFine(job["loop"], mail, Slack, time)
  BY <1>1, <1>2, <1>3 DEF LoopFine
<1> QED BY <1>1, <1>3, <1>4, <1>5, <1>6 DEF BackupsInv, ClockInv, BuildInv

\* Every step of the backups keeps the invariant.
LEMMA BackupsStepInv ==
  ASSUME BackupsInv, BackupsAssumption, [BackupsNext]_backupVars
  PROVE  BackupsInv'
<1>1. ASSUME NEW t \in BackupTasks,
             \/ CreateEncryptedBackup(t) \/ SendDocument(t) \/ BackupDelivered(t)
             \/ RecoveryBundle(t) \/ RecoveryDelivered(t)
             \/ SystemBundle(t) \/ WalkEntry(t) \/ ReadEntry(t) \/ SystemBuilt(t) \/ SystemDelivered(t)
      PROVE  BackupsInv'
  BY <1>1, CreateInv, SendDocumentInv, BackupDeliveredInv, RecoveryBundleInv,
     RecoveryDeliveredInv, SystemBundleInv, WalkEntryInv, ReadEntryInv, SystemBuiltInv,
     SystemDeliveredInv
<1>2. ASSUME NEW p \in Files, FileChanges(p) PROVE BackupsInv'
  BY <1>2, FileChangesInv
<1>3. CASE LoopWakes \/ ReadLastBackupTime \/ ManualBackup \/ BackupTick \/ BackupCrash
  BY <1>3, LoopWakesInv, StampInv, ManualBackupInv, BackupTickInv, BackupCrashInv
<1>4. CASE UNCHANGED backupVars
  BY <1>4 DEF backupVars, BackupsInv, BackupTypes, ClockInv, BuildInv, Untouched, Slack
<1> QED BY <1>1, <1>2, <1>3, <1>4 DEF BackupsNext

\* The invariant holds throughout.
THEOREM BackupsInductive == BackupsSpec => []BackupsInv
<1>1. BackupsInit => BackupsInv
  BY BackupsInitInv, BackupsAssumption
<1>2. BackupsInv /\ [BackupsNext]_backupVars => BackupsInv'
  BY BackupsStepInv, BackupsAssumption
<1> QED BY <1>1, <1>2, PTL DEF BackupsSpec

\* The age limit of decrypt_backup covers the faults and restarts that are assumed: an
\* interval, one more for every fault, and the start delay of every restart.
AgeCoversFaults ==
  MaxAge >= Interval * (1 + MaxBackupFaults) + StartDelay * MaxBackupCrashes

\* If the age limit covers the faults and restarts there may be, then from the first
\* delivery on some admin always has a database backup that decrypt_backup accepts; and
\* every system bundle that is sent accounts for each walked path exactly once, announces
\* what its size limits cut, and keeps to the total while no file changes under it.
THEOREM BackupsStayUsable ==
  ASSUME AgeCoversFaults
  PROVE  BackupsSpec => []BackupsAreUsable
<1>1. BackupsInv => AlwaysRestorable
  <2> SUFFICES ASSUME BackupsInv, HeldIn(mail)
               PROVE  \E a \in Admins : mail[a] # Never /\ Decrypts(mail[a])
    BY DEF AlwaysRestorable, HeldIn
  <2>1. PICK a \in Admins : mail[a] # Never /\ time <= mail[a] + Slack
    BY DEF BackupsInv, ClockInv, WorldFine, Due
  <2>2. Slack <= MaxAge
    <3> DEFINE x == Interval * (1 + MaxBackupFaults)
               y == StartDelay * MaxBackupCrashes
    <3>1. Slack <= x + y /\ Slack \in Nat
      BY SlackIs, BackupsAssumption DEF BackupsInv
    <3>2. x + y <= MaxAge
      BY DEF AgeCoversFaults
    <3>3. x + y \in Int /\ MaxAge \in Int
      <4>1. Interval \in Nat /\ MaxBackupFaults \in Nat /\ StartDelay \in Nat
            /\ MaxBackupCrashes \in Nat /\ MaxAge \in Nat
        BY BackupsAssumption DEF BackupsAssumption
      <4>2. x \in Int /\ y \in Int
        BY <4>1, SMTT(30)
      <4> HIDE DEF x, y
      <4> QED BY <4>1, <4>2
    <3> HIDE DEF x, y
    <3> QED BY <3>1, <3>2, <3>3
  <2>3. mail[a] \in Int /\ time \in Int /\ Slack \in Int /\ MaxAge \in Int
    BY BackupFacts, BackupsAssumption DEF Never, BackupsAssumption
  <2>4. Decrypts(mail[a])
    BY <2>1, <2>2, <2>3 DEF Decrypts
  <2> QED BY <2>1, <2>4
<1>2. BackupsInv => BundleIsWhole
  <2> SUFFICES ASSUME BackupsInv, NEW t \in BackupTasks, job[t].pc = "send", job[t].kind = "system"
               PROVE  LET b == job[t].build IN
                      /\ {e.path : e \in b.manifest} = Walked
                      /\ Cardinality(b.manifest) = Cardinality(Walked)
                      /\ b.truncated <=> (\E e \in b.manifest : e.reason = "size")
                      /\ changesLeft = MaxFileChanges => b.total <= MaxTotalBytes
    BY DEF BundleIsWhole
  <2> DEFINE b == job[t].build
  <2>1. /\ Consistent(b) /\ b.todo = <<>> /\ b.seen \cup Range(b.todo) = Walked
    BY DEF BackupsInv, BuildInv, BuildFine, Building
  <2>2. b.seen = Walked
    <3>1. Range(<<>>) = {}
      BY DEF Range
    <3> HIDE DEF b
    <3> QED BY <2>1, <3>1
  <2>3. changesLeft = MaxFileChanges => b.total <= MaxTotalBytes
    BY DEF BackupsInv, BuildInv, BuildFine, Untouched
  <2>4. /\ {e.path : e \in b.manifest} = Walked /\ Cardinality(b.manifest) = Cardinality(Walked)
        /\ b.truncated <=> (\E e \in b.manifest : e.reason = "size")
    <3> HIDE DEF b
    <3> QED BY <2>1, <2>2 DEF Consistent
  <2> QED BY <2>3, <2>4
<1>3. BackupsInv => BackupsAreUsable
  BY <1>1, <1>2 DEF BackupsAreUsable
<1> QED BY <1>3, BackupsInductive, PTL

-----------------------------------------------------------------------------
(* The database connection: Init, Next, vars, Spec and IndInv are those of Database *)

\* Versions are counted modulo 4, so that a whole unit keeps their parity.
LEMMA AdvanceFacts ==
    ASSUME NEW v \in Versions
    PROVE  /\ \A by \in 0 .. 2 : Advance(v, by) \in Versions
           /\ Advance(v, 0) = v
           /\ \A by \in 0 .. 1 : Advance(Advance(v, by), 1) = Advance(v, by + 1)
           /\ \A by \in {0, 2} : v % 2 = 0 => Advance(v, by) % 2 = 0
  BY DEF Versions, Advance

LEMMA InitInd == Init => IndInv
  <1> SUFFICES ASSUME Init PROVE IndInv
      OBVIOUS
  <1>1. Advance(0, 0) = 0 /\ 0 \in Versions /\ 0 % 2 = 0  BY AdvanceFacts DEF Versions
  <1>2. StateOK
    <2>1. stopping \in BOOLEAN /\ dirty \in SUBSET {"execute", "fetch"}  BY DEF Init
    <2> QED BY <1>1, <2>1 DEF Init, StateOK, Units, PCs
  <1>3. HolderInv  BY DEF Init, HolderInv, Inside
  <1>4. WritesInv  BY <1>1 DEF Init, WritesInv
  <1>5. DurableIsReported /\ FirstRowCommitted
        BY <1>1 DEF Init, DurableIsReported, FirstRowCommitted
  <1> QED BY <1>2, <1>3, <1>4, <1>5 DEF IndInv

\* A task joins the queue and waits.
LEMMA WaitInd ==
    ASSUME IndInv, NEW t \in Tasks, NEW u \in Units, pc[t] = "idle", Wait(t, u)
    PROVE  IndInv'
  <1> USE DEF Wait, Goto
  <1>1. StateOK'  BY DEF IndInv, StateOK, PCs
  <1>2. HolderInv'  BY DEF IndInv, StateOK, HolderInv, Inside
  <1>3. WritesInv'  BY DEF IndInv, StateOK, WritesInv, Advance
  <1>4. (DurableIsReported /\ FirstRowCommitted)'
        BY DEF IndInv, DurableIsReported, FirstRowCommitted
  <1> QED BY <1>1, <1>2, <1>3, <1>4 DEF IndInv

\* A unit gets the lock.
LEMMA EnterInd ==
    ASSUME IndInv, NEW t \in Tasks, NEW u \in {"transaction", "write"},
           pc[t] \in {"idle", "wait"}, lock = NoTask, lock' = t, Goto(t, u, Entry(u)),
           UNCHANGED <<disk, work, n, depth, stopping, told, dirty>>
    PROVE  IndInv'
  <1> USE DatabaseAssumption DEF Goto, Entry
  <1>1. StateOK'  BY DEF IndInv, StateOK, PCs, Units
  <1>2. HolderInv'
    <2>1. \A s \in Tasks : s # t => pc[s] \notin Inside  BY DEF IndInv, HolderInv
    <2> QED BY <2>1 DEF IndInv, StateOK, HolderInv, Inside
  <1>3. WritesInv'  BY DEF IndInv, StateOK, WritesInv, Advance
  <1>4. (DurableIsReported /\ FirstRowCommitted)'
        BY DEF IndInv, DurableIsReported, FirstRowCommitted
  <1> QED BY <1>1, <1>2, <1>3, <1>4 DEF IndInv

\* A SELECT runs while the lock is free.
LEMMA ExecuteInd ==
    ASSUME IndInv, NEW t \in Tasks, pc[t] \in {"idle", "wait"}, lock = NoTask, Execute(t)
    PROVE  IndInv'
  <1> USE DEF Execute, Goto
  <1>1. work = disk /\ dirty' = dirty  BY DEF IndInv, HolderInv
  <1>2. StateOK'  BY <1>1 DEF IndInv, StateOK, PCs, Units
  <1>3. HolderInv'  BY DEF IndInv, StateOK, HolderInv, Inside
  <1>4. WritesInv'  BY DEF IndInv, StateOK, WritesInv, Advance
  <1>5. (DurableIsReported /\ FirstRowCommitted)'
        BY <1>1 DEF IndInv, DurableIsReported, FirstRowCommitted
  <1> QED BY <1>2, <1>3, <1>4, <1>5 DEF IndInv

\* A commit() or rollback() of a task without a unit finds nothing to do.
LEMMA SettleInd ==
    ASSUME IndInv, NEW t \in Tasks, NEW u, pc[t] \in {"idle", "wait"}, lock = NoTask,
           Settle(t, u)
    PROVE  IndInv'
  <1> USE DEF Settle, UnitEnds
  <1>1. work' = work /\ disk' = disk  BY DEF IndInv, HolderInv
  <1>2. n' = n  BY DEF IndInv, StateOK, WritesInv
  <1>3. StateOK'  BY <1>1, <1>2 DEF IndInv, StateOK, PCs, Units
  <1>4. HolderInv'  BY <1>1 DEF IndInv, StateOK, HolderInv, Inside
  <1>5. WritesInv'  BY <1>1, <1>2 DEF IndInv, StateOK, WritesInv, Advance
  <1>6. (DurableIsReported /\ FirstRowCommitted)'
        BY <1>1 DEF IndInv, DurableIsReported, FirstRowCommitted
  <1> QED BY <1>3, <1>4, <1>5, <1>6 DEF IndInv

LEMMA StartInd ==
    ASSUME IndInv, NEW t \in Tasks, Start(t)
    PROVE  IndInv'
  <1>1. CASE StartUnit(t)
    <2>1. PICK u \in {"transaction", "write"} :
            /\ pc[t] = "idle"
            /\ \/ Wait(t, u)
               \/ /\ lock = NoTask /\ lock' = t /\ Goto(t, u, Entry(u))
                  /\ UNCHANGED <<disk, work, n, depth, stopping, told, dirty>>
          BY <1>1 DEF StartUnit
    <2>2. CASE Wait(t, u)  BY <2>1, <2>2, WaitInd DEF Units
    <2> QED BY <2>1, <2>2, EnterInd
  <1>2. CASE StartRead(t)
        BY <1>2, WaitInd, ExecuteInd DEF StartRead, Units
  <1>3. CASE StartSettle(t)
        BY <1>3, WaitInd, SettleInd DEF StartSettle, Units
  <1> QED BY <1>1, <1>2, <1>3 DEF Start

LEMMA TurnInd ==
    ASSUME IndInv, NEW t \in Tasks, Turn(t)
    PROVE  IndInv'
  <1>1. CASE /\ unit[t] \in {"transaction", "write"}
             /\ lock' = t
             /\ Goto(t, unit[t], Entry(unit[t]))
             /\ UNCHANGED <<disk, work, n, depth, stopping, told, dirty>>
        BY <1>1, EnterInd DEF Turn
  <1>2. CASE Execute(t)  BY <1>2, ExecuteInd DEF Turn
  <1>3. CASE Settle(t, unit[t])  BY <1>3, SettleInd DEF Turn
  <1> QED BY <1>1, <1>2, <1>3 DEF Turn

\* BEGIN succeeds, or raises and gives the lock back.
LEMMA BeginInd ==
    ASSUME IndInv, NEW t \in Tasks, Begin(t)
    PROVE  IndInv'
  <1>1. pc[t] = "begin" /\ lock = t /\ n[t] = 0 /\ \A s \in Tasks : s # t => pc[s] \notin Inside
        BY DatabaseAssumption DEF IndInv, HolderInv, WritesInv, Begin, Inside
  <1>2. work = disk
        BY <1>1, AdvanceFacts, DatabaseAssumption DEF IndInv, StateOK, HolderInv, WritesInv, Inside
  <1>3. n' = n  BY <1>1 DEF Begin, Release, UnitEnds, IndInv, StateOK
  <1>4. StateOK'
    <2>1. lock' \in Tasks \cup {NoTask, Lost} /\ depth' \in 0 .. 2 /\ stopping' = stopping
          BY <1>1 DEF Begin, Release
    <2>2. unit' \in [Tasks -> Units] /\ pc' \in [Tasks -> PCs]
          BY DEF Begin, Release, UnitEnds, IndInv, StateOK, PCs, Units
    <2> QED BY <1>3, <2>1, <2>2 DEF Begin, Release, IndInv, StateOK
  <1>5. HolderInv'  BY <1>1, <1>2 DEF Begin, Release, UnitEnds, IndInv, StateOK, HolderInv, Inside
  <1>6. WritesInv'
        BY <1>1, <1>3, DatabaseAssumption
        DEF Begin, Release, UnitEnds, IndInv, StateOK, WritesInv, Advance
  <1>7. (DurableIsReported /\ FirstRowCommitted)'
        BY DEF Begin, Release, IndInv, DurableIsReported, FirstRowCommitted
  <1> QED BY <1>4, <1>5, <1>6, <1>7 DEF IndInv

LEMMA NestedInd ==
    ASSUME IndInv, NEW t \in Tasks, Nested(t) \/ NestedEnds(t)
    PROVE  IndInv'
  <1> USE DEF Nested, NestedEnds
  <1>1. depth' \in 0 .. 2  OBVIOUS
  <1>2. StateOK'  BY <1>1 DEF IndInv, StateOK
  <1>3. (HolderInv /\ WritesInv)'  BY DEF IndInv, HolderInv, WritesInv, Advance
  <1>4. (DurableIsReported /\ FirstRowCommitted)'
        BY DEF IndInv, DurableIsReported, FirstRowCommitted
  <1> QED BY <1>2, <1>3, <1>4 DEF IndInv

LEMMA WriteInd ==
    ASSUME IndInv, NEW t \in Tasks, Write(t)
    PROVE  IndInv'
  <1> USE DEF Write
  <1>1. lock = t /\ lock # NoTask /\ lock # Lost
        BY DatabaseAssumption DEF IndInv, HolderInv, Inside
  <1>2. n[t] \in 0 .. 1 /\ n'[t] = n[t] + 1  BY DEF IndInv, StateOK
  <1>3. work'[t] = Advance(disk[t], n'[t]) /\ work'[t] \in Versions
        BY <1>1, <1>2, AdvanceFacts DEF IndInv, StateOK, WritesInv
  <1>4. StateOK'  BY <1>2, <1>3 DEF IndInv, StateOK
  <1>5. HolderInv'  BY <1>1 DEF IndInv, HolderInv
  <1>6. WritesInv'  BY <1>1, <1>3 DEF IndInv, StateOK, WritesInv
  <1>7. (DurableIsReported /\ FirstRowCommitted)'
        BY DEF IndInv, DurableIsReported, FirstRowCommitted
  <1> QED BY <1>4, <1>5, <1>6, <1>7 DEF IndInv

\* A unit ends, with all its writes durable or none.
LEMMA EndInd ==
    ASSUME IndInv, NEW t \in Tasks, pc[t] \in {"body", "open"}, Release(t),
           RollbackUnit \/ (n[t] \in {0, 2} /\ CommitUnit(t))
    PROVE  IndInv'
  <1> USE DEF Release, UnitEnds
  <1>1. /\ lock = t /\ lock # NoTask /\ lock # Lost
        /\ \A s \in Tasks : s # t => pc[s] \notin Inside /\ n[s] = 0
        BY DatabaseAssumption DEF IndInv, HolderInv, WritesInv, Inside
  <1>2. \A s \in Tasks : work[s] = Advance(disk[s], n[s]) /\ (s # t => work[s] = disk[s])
        BY <1>1, AdvanceFacts DEF IndInv, StateOK, WritesInv
  <1>3. disk' \in [Tasks -> Versions] /\ work' = disk'
        BY DEF RollbackUnit, CommitUnit, IndInv, StateOK
  <1>4. told' = disk' /\ \A s \in Tasks : disk'[s] % 2 = 0
    <2>1. CASE RollbackUnit  BY <2>1 DEF RollbackUnit, IndInv, StateOK, DurableIsReported
    <2>2. CASE n[t] \in {0, 2} /\ CommitUnit(t)
          BY <1>2, <2>2, AdvanceFacts DEF CommitUnit, IndInv, StateOK, DurableIsReported
    <2> QED BY <2>1, <2>2
  <1>5. StateOK'
    <2>1. depth' \in 0 .. 2 /\ lock' \in Tasks \cup {NoTask, Lost}  OBVIOUS
    <2>2. unit' \in [Tasks -> Units] /\ pc' \in [Tasks -> PCs] /\ n' \in [Tasks -> 0 .. 2]
          BY DEF IndInv, StateOK, PCs, Units
    <2> QED BY <1>3, <1>4, <2>1, <2>2 DEF IndInv, StateOK
  <1>6. HolderInv'  BY <1>1, <1>3 DEF IndInv, StateOK, HolderInv, Inside
  <1>7. \A s \in Tasks : n'[s] = 0  BY <1>1 DEF IndInv, StateOK
  <1>8. WritesInv'  BY <1>3, <1>7, AdvanceFacts DEF WritesInv
  <1>9. (DurableIsReported /\ FirstRowCommitted)'
        BY <1>4 DEF IndInv, DurableIsReported, FirstRowCommitted
  <1> QED BY <1>5, <1>6, <1>8, <1>9 DEF IndInv

\* A reader fetches its rows; the connection is not touched.
LEMMA FetchInd ==
    ASSUME IndInv, NEW t \in Tasks, Fetch(t)
    PROVE  IndInv'
  <1> USE DEF Fetch, UnitEnds
  <1>1. n' = n  BY DEF IndInv, StateOK, WritesInv
  <1>2. StateOK'  BY <1>1 DEF IndInv, StateOK, PCs, Units
  <1>3. HolderInv'  BY DEF IndInv, StateOK, HolderInv, Inside
  <1>4. WritesInv'  BY <1>1 DEF IndInv, StateOK, WritesInv, Advance
  <1>5. (DurableIsReported /\ FirstRowCommitted)'
        BY DEF IndInv, DurableIsReported, FirstRowCommitted
  <1> QED BY <1>2, <1>3, <1>4, <1>5 DEF IndInv

\* A task goes without giving the lock back: the connection stays as it is for good.
LEMMA LostInd ==
    ASSUME IndInv, NEW t \in Tasks, OwnReadRaises(t) \/ Cancel(t)
    PROVE  IndInv'
  <1>1. UnitEnds(t) /\ lock' = IF lock = t THEN Lost ELSE lock
        BY DEF OwnReadRaises, Cancel, IndInv, HolderInv, Inside
  <1>2. UNCHANGED <<disk, work, depth, stopping, told, dirty>>  BY DEF OwnReadRaises, Cancel
  <1> USE DEF UnitEnds
  <1>3. StateOK'  BY <1>1, <1>2 DEF IndInv, StateOK, PCs, Units
  <1>4. HolderInv'
        BY <1>1, <1>2, DatabaseAssumption DEF IndInv, StateOK, HolderInv, Inside
  <1>5. lock' # Lost => n' = n
        BY <1>1 DEF IndInv, StateOK, HolderInv, WritesInv, Inside
  <1>6. WritesInv'  BY <1>1, <1>2, <1>5 DEF IndInv, StateOK, WritesInv, Advance
  <1>7. (DurableIsReported /\ FirstRowCommitted)'
        BY <1>2 DEF IndInv, DurableIsReported, FirstRowCommitted
  <1> QED BY <1>3, <1>4, <1>6, <1>7 DEF IndInv

LEMMA RestartInd ==
    ASSUME IndInv, Restart
    PROVE  IndInv'
  <1> USE DEF Restart
  <1>1. StateOK'
    <2>1. stopping' \in BOOLEAN  OBVIOUS
    <2>2. depth' \in 0 .. 2 /\ n' \in [Tasks -> 0 .. 2]  OBVIOUS
    <2>3. unit' \in [Tasks -> Units] /\ pc' \in [Tasks -> PCs]  BY DEF PCs, Units
    <2> QED BY <2>1, <2>2, <2>3 DEF IndInv, StateOK
  <1>2. HolderInv'  BY DEF HolderInv, Inside
  <1>3. WritesInv'  BY AdvanceFacts DEF IndInv, StateOK, WritesInv
  <1>4. (DurableIsReported /\ FirstRowCommitted)'
        BY DEF IndInv, DurableIsReported, FirstRowCommitted
  <1> QED BY <1>1, <1>2, <1>3, <1>4 DEF IndInv

\* A step that changes at most the stopping flag
LEMMA QuietInd ==
    ASSUME IndInv, stopping' \in BOOLEAN,
           UNCHANGED <<disk, work, lock, queue, unit, pc, n, depth, told, dirty>>
    PROVE  IndInv'
  BY DEF IndInv, StateOK, HolderInv, WritesInv, DurableIsReported, FirstRowCommitted, Advance

LEMMA NextInd == IndInv /\ [Next]_vars => IndInv'
  <1> SUFFICES ASSUME IndInv, [Next]_vars PROVE IndInv'
      OBVIOUS
  <1>1. ASSUME NEW t \in Tasks, Start(t) PROVE IndInv'  BY <1>1, StartInd
  <1>2. ASSUME NEW t \in Tasks, Progress(t) PROVE IndInv'
    <2>1. CASE Turn(t)  BY <2>1, TurnInd
    <2>2. CASE Begin(t)  BY <2>2, BeginInd
    <2>3. CASE Write(t)  BY <2>3, WriteInd
    <2>4. CASE BodyEnds(t)  BY <2>4, EndInd DEF BodyEnds
    <2>5. CASE BodyRaises(t)  BY <2>5, EndInd DEF BodyRaises
    <2>6. CASE WriteRaises(t)  BY <2>6, EndInd DEF WriteRaises
    <2>7. CASE CommitWrite(t)  BY <2>7, EndInd DEF CommitWrite
    <2>8. CASE Fetch(t)  BY <2>8, FetchInd
    <2> QED BY <1>2, <2>1, <2>2, <2>3, <2>4, <2>5, <2>6, <2>7, <2>8 DEF Progress
  <1>3. ASSUME NEW t \in Tasks, Nested(t) \/ NestedEnds(t) PROVE IndInv'
        BY <1>3, NestedInd
  <1>4. ASSUME NEW t \in Tasks, OwnReadRaises(t) \/ Cancel(t) PROVE IndInv'
        BY <1>4, LostInd
  <1>5. CASE BeginStop  BY <1>5, QuietInd DEF BeginStop
  <1>6. CASE Restart  BY <1>6, RestartInd
  <1>7. CASE UNCHANGED vars  BY <1>7, QuietInd DEF vars, IndInv, StateOK
  <1>8. \A t \in Tasks : CommitInside(t) => UNCHANGED vars  BY DEF CommitInside
  <1> QED BY <1>1, <1>2, <1>3, <1>4, <1>5, <1>6, <1>7, <1>8 DEF Next

-----------------------------------------------------------------------------
(* What the connection promises                                           *)

\* transaction() and commit() are all or nothing for any number of tasks, cancellations
\* and restarts: the disk holds exactly what callers were told.
THEOREM Durable == Spec => []DurableIsReported
  <1>1. IndInv => DurableIsReported  BY DEF IndInv
  <1> QED BY <1>1, InitInd, NextInd, PTL DEF Spec

\* Waiting for the lock and letting it go again is enough for the first row of a SELECT.
THEOREM FirstRow == Spec => []FirstRowCommitted
  <1>1. IndInv => FirstRowCommitted  BY DEF IndInv
  <1> QED BY <1>1, InitInd, NextInd, PTL DEF Spec
-----------------------------------------------------------------------------
(* The connection implements UnitStore: every step is a step of it, or hidden *)

\* A step that leaves the disk and the lock alone does not show.
LEMMA Hidden ==
    ASSUME disk' = disk, lock' = lock
    PROVE  [Store!Next]_<<disk, lock>>
  OBVIOUS

\* A commit() or rollback() of a task without a unit writes nothing.
LEMMA SettleHidden ==
    ASSUME IndInv, NEW t \in Tasks, NEW u, lock = NoTask, Settle(t, u)
    PROVE  [Store!Next]_<<disk, lock>>
  <1>1. disk' = disk /\ lock' = lock  BY DEF Settle, IndInv, HolderInv
  <1> QED BY <1>1, Hidden

\* A unit gets the lock: Open.
LEMMA EnterShows ==
    ASSUME NEW t \in Tasks, lock = NoTask, lock' = t, disk' = disk
    PROVE  [Store!Next]_<<disk, lock>>
  BY DEF Store!Next, Store!Open

\* A unit ends: Commit if it has made its two writes, otherwise Abandon.
LEMMA EndShows ==
    ASSUME IndInv, NEW t \in Tasks, pc[t] \in {"body", "open"}, Release(t),
           RollbackUnit \/ (n[t] \in {0, 2} /\ CommitUnit(t))
    PROVE  [Store!Next]_<<disk, lock>>
  <1>1. /\ lock = t /\ lock # Lost /\ lock' = NoTask
        /\ \A s \in Tasks : s # t => n[s] = 0
        BY DatabaseAssumption DEF Release, IndInv, HolderInv, WritesInv, Inside
  <1>2. \A s \in Tasks : work[s] = Advance(disk[s], n[s]) /\ (s # t => work[s] = disk[s])
        BY <1>1, AdvanceFacts DEF IndInv, StateOK, WritesInv
  <1>3. CASE disk' = disk  BY <1>1, <1>3 DEF Store!Next, Store!Abandon
  <1>4. CASE n[t] = 2 /\ CommitUnit(t)
    <2>1. work[t] = (disk[t] + 2) % 4  BY <1>2, <1>4 DEF Advance
    <2>2. disk' = [disk EXCEPT ![t] = (@ + 2) % 4]
          BY <1>2, <1>4, <2>1 DEF CommitUnit, IndInv, StateOK
    <2> QED BY <1>1, <2>2 DEF Store!Next, Store!Commit
  <1>5. CASE n[t] = 0 /\ CommitUnit(t)
    <2>1. work[t] = disk[t]  BY <1>2, <1>5, AdvanceFacts DEF IndInv, StateOK
    <2>2. disk' = disk  BY <1>2, <1>5, <2>1 DEF CommitUnit, IndInv, StateOK
    <2> QED BY <1>3, <2>2
  <1> QED BY <1>3, <1>4, <1>5 DEF RollbackUnit

\* A task ends inside a unit: Vanish; outside of one it does not show.
LEMMA LostShows ==
    ASSUME IndInv, NEW t \in Tasks, OwnReadRaises(t) \/ Cancel(t)
    PROVE  [Store!Next]_<<disk, lock>>
  <1>1. disk' = disk /\ lock' = IF lock = t THEN Lost ELSE lock
        BY DEF OwnReadRaises, Cancel, IndInv, HolderInv, Inside
  <1> QED BY <1>1 DEF Store!Next, Store!Vanish

LEMMA StartShows ==
    ASSUME IndInv, NEW t \in Tasks, Start(t)
    PROVE  [Store!Next]_<<disk, lock>>
  <1>1. CASE StartUnit(t)
        BY <1>1, Hidden, EnterShows DEF StartUnit, Wait
  <1>2. CASE StartRead(t)
        BY <1>2, Hidden DEF StartRead, Wait, Execute
  <1>3. CASE StartSettle(t)
        BY <1>3, Hidden, SettleHidden DEF StartSettle, Wait
  <1> QED BY <1>1, <1>2, <1>3 DEF Start

LEMMA TurnShows ==
    ASSUME IndInv, NEW t \in Tasks, Turn(t)
    PROVE  [Store!Next]_<<disk, lock>>
  <1>1. CASE lock' = t /\ disk' = disk  BY <1>1, EnterShows DEF Turn
  <1>2. CASE Execute(t)  BY <1>2, Hidden DEF Execute
  <1>3. CASE Settle(t, unit[t])  BY <1>3, SettleHidden DEF Turn
  <1> QED BY <1>1, <1>2, <1>3 DEF Turn

\* BEGIN raises: Abandon.
LEMMA BeginShows ==
    ASSUME IndInv, NEW t \in Tasks, Begin(t)
    PROVE  [Store!Next]_<<disk, lock>>
  <1>1. lock = t  BY DEF IndInv, HolderInv, Begin, Inside
  <1>2. disk' = disk /\ (lock' = lock \/ lock' = NoTask)  BY DEF Begin, Release
  <1> QED BY <1>1, <1>2 DEF Store!Next, Store!Abandon

LEMMA NextShows == IndInv /\ [Next]_vars => [Store!Next]_<<disk, lock>>
  <1> SUFFICES ASSUME IndInv, [Next]_vars PROVE [Store!Next]_<<disk, lock>>
      OBVIOUS
  <1>1. ASSUME NEW t \in Tasks, Progress(t) PROVE [Store!Next]_<<disk, lock>>
    <2>1. CASE Turn(t)  BY <2>1, TurnShows
    <2>2. CASE Begin(t)  BY <2>2, BeginShows
    <2>3. CASE Write(t)  BY <2>3, Hidden DEF Write
    <2>4. CASE BodyEnds(t)  BY <2>4, EndShows DEF BodyEnds
    <2>5. CASE BodyRaises(t)  BY <2>5, EndShows DEF BodyRaises
    <2>6. CASE WriteRaises(t)  BY <2>6, EndShows DEF WriteRaises
    <2>7. CASE CommitWrite(t)  BY <2>7, EndShows DEF CommitWrite
    <2>8. CASE Fetch(t)  BY <2>8, Hidden DEF Fetch
    <2> QED BY <1>1, <2>1, <2>2, <2>3, <2>4, <2>5, <2>6, <2>7, <2>8 DEF Progress
  <1>2. ASSUME NEW t \in Tasks, Nested(t) \/ NestedEnds(t) \/ CommitInside(t)
        PROVE  [Store!Next]_<<disk, lock>>
        BY <1>2, Hidden DEF Nested, NestedEnds, CommitInside, vars
  <1>3. CASE BeginStop \/ UNCHANGED vars  BY <1>3, Hidden DEF BeginStop, vars
  <1>4. CASE Restart  BY <1>4 DEF Restart, Store!Next, Store!Recover
  <1> QED BY <1>1, <1>2, <1>3, <1>4, StartShows, LostShows DEF Next

\* db/database.py keeps the promise of UnitStore: transaction(), implicit writes, stray
\* commit() and rollback() calls, cancelled jobs and restarts only ever show as units that
\* happen whole, one owner at a time, or not at all.
THEOREM Refinement == Spec => UnitsAreAtomic
  <1>1. Init => Store!Init  BY DEF Init, Store!Init
  <1> QED BY <1>1, InitInd, NextInd, NextShows, PTL DEF Spec, UnitsAreAtomic, Store!Spec
=============================================================================
