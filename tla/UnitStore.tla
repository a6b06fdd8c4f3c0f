------------------------------ MODULE UnitStore ------------------------------
(***************************************************************************)
(* What db/database.py promises its callers, without the connection, the   *)
(* lock's queue and the statements: durable records that change a whole    *)
(* unit at a time, for one owner at a time.  Database implements it.       *)
(***************************************************************************)
EXTENDS Naturals

CONSTANTS
    Owners,   \* tasks that may own a unit
    NoOwner,  \* no unit is open
    Gone      \* the unit's owner has ended and cannot close it

VARIABLES
    store,    \* store[o]: the durable version of the record of o
    owner     \* whose unit is open

Init == store = [o \in Owners |-> 0] /\ owner = NoOwner

Open(o) == owner = NoOwner /\ owner' = o /\ store' = store

\* All of the unit becomes durable, and nothing else.
Commit(o) ==
    /\ owner = o /\ owner' = NoOwner
    /\ store' = [store EXCEPT ![o] = (@ + 2) % 4]

\* The unit leaves nothing.
Abandon(o) == owner = o /\ owner' = NoOwner /\ store' = store

\* The owner ends inside its unit: nobody opens another one ...
Vanish(o) == owner = o /\ owner' = Gone /\ store' = store

\* ... until the process starts again.
Recover == owner' = NoOwner /\ store' = store

Next == \/ \E o \in Owners : Open(o) \/ Commit(o) \/ Abandon(o) \/ Vanish(o)
        \/ Recover

Spec == Init /\ [][Next]_<<store, owner>>
=============================================================================
