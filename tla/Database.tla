------------------------------- MODULE Database -------------------------------
(***************************************************************************)
(* The shared SQLite connection (db/database.py): one connection for the   *)
(* whole process, and one asyncio lock that gives it to one unit of work   *)
(* at a time.  A unit is a block under transaction(), or a few writes that *)
(* end in commit() (an implicit write).  Readers do not hold the lock.     *)
(*                                                                         *)
(* Each task has a record of its own that only its units change: a unit    *)
(* advances it twice.  An odd version is a half-done unit.                 *)
(***************************************************************************)
EXTENDS Naturals, Sequences

CONSTANTS
    Tasks,  \* asyncio tasks
    Jobs,   \* the tasks that are cancelled when the bot stops
    NoTask, \* the lock is free
    Lost    \* the lock is held by a task that has ended

ASSUME DatabaseAssumption ==
    /\ Jobs \subseteq Tasks
    /\ {NoTask, Lost} \cap Tasks = {}
    /\ NoTask # Lost

VARIABLES
    disk,      \* disk[t]: the committed version of the record of t
    work,      \* work[t]: its version on the connection
    lock,      \* holder of _transaction_lock
    queue,     \* waiters of _transaction_lock, in FIFO order
    unit, pc,  \* what each task is doing, and where it is
    n,         \* n[t]: writes its unit has made
    depth,     \* _transaction_depth
    stopping,  \* main() is past polling and cancels the jobs
    told,      \* history: told[t]: the version the committed units of t add up to
    dirty      \* history: the steps of a reader that saw uncommitted data

vars == <<disk, work, lock, queue, unit, pc, n, depth, stopping, told, dirty>>

Versions == 0 .. 3
Units == {"none", "transaction", "write", "read", "commit", "rollback"}
PCs == {"idle", "wait", "begin", "body", "open", "fetch"}

StateOK ==
    /\ disk \in [Tasks -> Versions]
    /\ work \in [Tasks -> Versions]
    /\ lock \in Tasks \cup {NoTask, Lost}
    /\ unit \in [Tasks -> Units]
    /\ pc \in [Tasks -> PCs]
    /\ n \in [Tasks -> 0 .. 2]
    /\ depth \in 0 .. 2
    /\ stopping \in BOOLEAN
    /\ told \in [Tasks -> Versions]
    /\ dirty \in SUBSET {"execute", "fetch"}

TypeOK == StateOK /\ queue \in Seq(Tasks)

Init ==
    /\ disk = [t \in Tasks |-> 0]
    /\ work = disk
    /\ lock = NoTask
    /\ queue = <<>>
    /\ unit = [t \in Tasks |-> "none"]
    /\ pc = [t \in Tasks |-> "idle"]
    /\ n = [t \in Tasks |-> 0]
    /\ depth = 0
    /\ stopping = FALSE
    /\ told = disk
    /\ dirty = {}

-----------------------------------------------------------------------------
(* The connection.                                                         *)

Advance(v, by) == (v + by) % 4

\* The unit of t reaches the disk, and its caller hears so.  A task cancelled while COMMIT
\* is with the SQLite thread, like a process that dies then, is one cancelled right after:
\* the request is carried out, and the finally clause gives the lock back.
CommitUnit(t) ==
    /\ disk' = work
    /\ work' = work
    /\ told' = [told EXCEPT ![t] = Advance(@, n[t])]

\* ROLLBACK, or a COMMIT that raises: SQLite rolls back by itself.
RollbackUnit == work' = disk /\ UNCHANGED <<disk, told>>

UnitEnds(t) ==
    /\ unit' = [unit EXCEPT ![t] = "none"]
    /\ pc' = [pc EXCEPT ![t] = "idle"]
    /\ n' = [n EXCEPT ![t] = 0]

\* The unit of t is over and the lock is given back.
Release(t) ==
    /\ lock' = NoTask
    /\ depth' = 0
    /\ UnitEnds(t)
    /\ UNCHANGED <<queue, stopping, dirty>>

Goto(t, u, label) ==
    /\ unit' = [unit EXCEPT ![t] = u]
    /\ pc' = [pc EXCEPT ![t] = label]

-----------------------------------------------------------------------------
(* Asking for the connection.                                              *)

Wait(t, u) ==
    /\ queue' = Append(queue, t)
    /\ Goto(t, u, "wait")
    /\ UNCHANGED <<disk, work, lock, n, depth, stopping, told, dirty>>

\* Where a unit begins that has the lock
Entry(u) == IF u = "transaction" THEN "begin" ELSE "open"

\* transaction() and the first implicit write take the lock.  asyncio.Lock queues a
\* caller behind the waiters it has, even while it is free.
StartUnit(t) == \E u \in {"transaction", "write"} :
    /\ pc[t] = "idle" /\ ~(stopping /\ t \in Jobs)
    /\ IF lock = NoTask /\ queue = <<>>
       THEN /\ lock' = t
            /\ Goto(t, u, Entry(u))
            /\ UNCHANGED <<disk, work, queue, n, depth, stopping, told, dirty>>
       ELSE Wait(t, u)

\* The SELECT runs at once; its first row is fetched with it.
Execute(t) ==
    /\ Goto(t, "read", "fetch")
    /\ dirty' = IF work = disk THEN dirty ELSE dirty \cup {"execute"}
    /\ UNCHANGED <<disk, work, lock, n, depth, stopping, told>>

\* Mutant: a reader does not wait for the unit under way
StartRead_NoWait(t) ==
    /\ pc[t] = "idle" /\ ~(stopping /\ t \in Jobs)
    /\ Execute(t) /\ queue' = queue

\* A reader waits only if the lock is held.
StartRead(t) ==
    /\ pc[t] = "idle" /\ ~(stopping /\ t \in Jobs)
    /\ IF lock # NoTask THEN Wait(t, "read") ELSE Execute(t) /\ queue' = queue

\* commit() and rollback() of a task that has no unit open act on an idle connection.
Settle(t, u) ==
    /\ IF u = "commit" THEN disk' = work /\ work' = work ELSE work' = disk /\ disk' = disk
    /\ UnitEnds(t)
    /\ UNCHANGED <<lock, depth, stopping, told, dirty>>

\* Mutant: commit() does not wait for a unit of another task
StartSettle_NoWait(t) == \E u \in {"commit", "rollback"} :
    /\ pc[t] = "idle" /\ ~(stopping /\ t \in Jobs)
    /\ Settle(t, u) /\ queue' = queue

StartSettle(t) == \E u \in {"commit", "rollback"} :
    /\ pc[t] = "idle" /\ ~(stopping /\ t \in Jobs)
    /\ IF lock # NoTask THEN Wait(t, u) ELSE Settle(t, u) /\ queue' = queue

\* The first waiter gets its turn.  A reader, a commit or a rollback gives the lock back
\* at once and runs before anybody else can take it.
Turn(t) ==
    /\ pc[t] = "wait" /\ lock = NoTask /\ queue # <<>> /\ t = Head(queue)
    /\ queue' = Tail(queue)
    /\ \/ /\ unit[t] \in {"transaction", "write"}
          /\ lock' = t
          /\ Goto(t, unit[t], Entry(unit[t]))
          /\ UNCHANGED <<disk, work, n, depth, stopping, told, dirty>>
       \/ unit[t] = "read" /\ Execute(t)
       \/ unit[t] \in {"commit", "rollback"} /\ Settle(t, unit[t])

-----------------------------------------------------------------------------
(* A block under transaction().                                            *)

\* Mutant: the lock is kept when BEGIN raises
Begin_KeepsLock(t) ==
    /\ pc[t] = "begin"
    /\ \/ /\ pc' = [pc EXCEPT ![t] = "body"]
          /\ depth' = 1
          /\ UNCHANGED <<disk, work, lock, queue, unit, n, stopping, told, dirty>>
       \/ UnitEnds(t) /\ UNCHANGED <<disk, work, lock, queue, depth, stopping, told, dirty>>

\* BEGIN, which may raise
Begin(t) ==
    /\ pc[t] = "begin"
    /\ \/ /\ pc' = [pc EXCEPT ![t] = "body"]
          /\ depth' = 1
          /\ UNCHANGED <<disk, work, lock, queue, unit, n, stopping, told, dirty>>
       \/ Release(t) /\ UNCHANGED <<disk, work, told>>

\* A transaction() inside the block joins it ...
Nested(t) ==
    /\ pc[t] = "body" /\ depth = 1 /\ n[t] < 2
    /\ depth' = 2
    /\ UNCHANGED <<disk, work, lock, queue, unit, pc, n, stopping, told, dirty>>

\* ... and its end neither commits nor gives the lock back.
NestedEnds(t) ==
    /\ pc[t] = "body" /\ depth = 2
    /\ depth' = 1
    /\ UNCHANGED <<disk, work, lock, queue, unit, pc, n, stopping, told, dirty>>

\* One statement succeeds, in a block or in an implicit write
Write(t) ==
    /\ pc[t] \in {"body", "open"} /\ n[t] < 2
    /\ work' = [work EXCEPT ![t] = Advance(@, 1)]
    /\ n' = [n EXCEPT ![t] = @ + 1]
    /\ UNCHANGED <<disk, lock, queue, unit, pc, depth, stopping, told, dirty>>

\* The block raises: all of it is rolled back, joined blocks included.
BodyRaises(t) ==
    /\ pc[t] = "body"
    /\ RollbackUnit
    /\ Release(t)

\* The block ends, with all its writes made or none; COMMIT may raise.
BodyEnds(t) ==
    /\ pc[t] = "body" /\ depth = 1 /\ n[t] \in {0, 2}
    /\ CommitUnit(t) \/ RollbackUnit
    /\ Release(t)

\* Mutant: commit() does not look whose transaction is open
CommitInside_Commits(t) ==
    /\ pc[t] = "body"
    /\ disk' = work
    /\ UNCHANGED <<work, lock, queue, unit, pc, n, depth, stopping, told, dirty>>

\* The commit() that ends every repository write does nothing inside a block.
CommitInside(t) ==
    /\ pc[t] = "body"
    /\ UNCHANGED vars

-----------------------------------------------------------------------------
(* Implicit writes.                                                        *)

\* A statement of an implicit write raises: the proxy rolls back and frees the slot.
WriteRaises(t) ==
    /\ pc[t] = "open" /\ n[t] < 2
    /\ RollbackUnit
    /\ Release(t)

\* A SELECT between two writes of the unit raises (the number reservation of a bundle has
\* one): nothing rolls back, and the task ends with the lock.
OwnReadRaises(t) ==
    /\ pc[t] = "open" /\ n[t] > 0
    /\ lock' = Lost
    /\ UnitEnds(t)
    /\ UNCHANGED <<disk, work, queue, depth, stopping, told, dirty>>

\* commit() ends the unit, also when COMMIT raises.
CommitWrite(t) ==
    /\ pc[t] = "open" /\ n[t] = 2
    /\ CommitUnit(t) \/ RollbackUnit
    /\ Release(t)

-----------------------------------------------------------------------------
\* The rest of the rows are fetched, in whatever state the connection is by then.
Fetch(t) ==
    /\ pc[t] = "fetch"
    /\ dirty' = IF work = disk THEN dirty ELSE dirty \cup {"fetch"}
    /\ UnitEnds(t)
    /\ UNCHANGED <<disk, work, lock, queue, depth, stopping, told>>

-----------------------------------------------------------------------------
(* The process stops.                                                      *)

\* Polling has ended; main() goes on to cancel the jobs.
BeginStop ==
    /\ ~stopping
    /\ stopping' = TRUE
    /\ UNCHANGED <<disk, work, lock, queue, unit, pc, n, depth, told, dirty>>

\* CancelledError is not an Exception: none of the handlers above runs, and a unit that
\* has the lock never gives it back.  A waiter just leaves the queue.
Cancel(t) ==
    /\ stopping /\ t \in Jobs /\ pc[t] # "idle"
    /\ queue' = SelectSeq(queue, LAMBDA w : w # t)
    /\ lock' = IF lock = t THEN Lost ELSE lock
    /\ UnitEnds(t)
    /\ UNCHANGED <<disk, work, depth, stopping, told, dirty>>

\* close(), or the process dies, and starts again: what was not committed is gone.
Restart ==
    /\ work' = disk
    /\ lock' = NoTask
    /\ queue' = <<>>
    /\ unit' = [t \in Tasks |-> "none"]
    /\ pc' = [t \in Tasks |-> "idle"]
    /\ n' = [t \in Tasks |-> 0]
    /\ depth' = 0
    /\ stopping' = FALSE
    /\ UNCHANGED <<disk, told, dirty>>

-----------------------------------------------------------------------------
Start(t) == StartUnit(t) \/ StartRead(t) \/ StartSettle(t)

Progress(t) == Turn(t) \/ Begin(t) \/ Write(t) \/ BodyEnds(t) \/ BodyRaises(t)
                  \/ WriteRaises(t) \/ CommitWrite(t) \/ Fetch(t)

Next == \/ \E t \in Tasks : \/ Start(t) \/ Progress(t) \/ Nested(t) \/ NestedEnds(t)
                            \/ CommitInside(t) \/ OwnReadRaises(t) \/ Cancel(t)
        \/ BeginStop
        \/ Restart

Spec == Init /\ [][Next]_vars

\* The event loop runs every ready task and the SQLite thread answers every request.
\* The order of the lock is the queue's: no fairness among waiters is assumed.
FairSpec == Spec /\ \A t \in Tasks : WF_vars(Progress(t)) /\ WF_vars(NestedEnds(t))

-----------------------------------------------------------------------------
(* Properties.                                                             *)

\* What is durable is what callers were told, and never half a unit: transaction() and
\* commit() neither leave writes of a unit that raised, was cancelled or was cut short
\* by a restart, nor let another task's commit() or rollback() touch them.
DurableIsReported ==
    \A t \in Tasks : disk[t] = told[t] /\ disk[t] % 2 = 0

\* The wait in _before_connection_execute keeps the first row of every independent
\* SELECT from showing another task's uncommitted writes, although the reader has let
\* go of the lock when the SELECT runs.
FirstRowCommitted == "execute" \notin dirty

\* Every database call of a task ends, unless a task was cancelled inside a unit or failed
\* at a SELECT of its own in one: no failing BEGIN, write or COMMIT leaves the lock behind,
\* and no waiter is forgotten, whatever the order of the queue.
DatabaseCallsEnd ==
    \A t \in Tasks : pc[t] # "idle" ~> pc[t] = "idle" \/ lock = Lost

\* The connection implements the store of UnitStore: seen from outside, a unit of any task
\* is one step that happens whole while nobody else's unit is open, or does not happen.
\* The queue, the stray commit() and rollback() calls, nested blocks, failing statements,
\* cancelled jobs and restarts do not show.
Store == INSTANCE UnitStore WITH
    Owners <- Tasks, NoOwner <- NoTask, Gone <- Lost, store <- disk, owner <- lock

UnitsAreAtomic == Store!Spec

-----------------------------------------------------------------------------
(* The inductive invariant behind the safety properties.                   *)

Inside == {"begin", "body", "open"}

\* Whoever is inside a unit holds the lock, and a free lock means an idle connection.
HolderInv ==
    /\ \A t \in Tasks : pc[t] \in Inside => lock = t
    /\ lock = NoTask => work = disk

\* Only the unit under way has uncommitted writes, as many as it counted.
WritesInv == \A t \in Tasks :
    /\ pc[t] \notin {"body", "open"} => n[t] = 0
    /\ lock # Lost => work[t] = Advance(disk[t], n[t])

IndInv == StateOK /\ HolderInv /\ WritesInv /\ DurableIsReported /\ FirstRowCommitted
=============================================================================
