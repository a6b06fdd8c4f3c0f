------------------------------- MODULE KeyLife -------------------------------
(***************************************************************************)
(* What a key service promises the rest of the bot (handlers, bundles, the *)
(* expiry job, block_user), without locks, calls, retries, rollbacks and   *)
(* the stages of startup: the life of each key, and which keys the file of *)
(* the backend lets in.  XrayKeys and AwgKeys implement it.                *)
(*                                                                         *)
(* A key whose revocation is under way can still be given back.  From the  *)
(* moment that is over, or its deletion has begun, it is doomed: whatever  *)
(* fails, is retried or is restarted, it never becomes active again.       *)
(***************************************************************************)
CONSTANT Keys

VARIABLES
    life,     \* life[k]: where key k is in its life
    inside,   \* the keys that the file lets in
    serving,  \* the bot is up
    frozen,   \* the backend is marked degraded
    trusted   \* nobody has edited the file by hand since the last clean start

world == <<serving, frozen, trusted>>
vars == <<life, inside, world>>

Dead == {"none", "revoked", "gone"}
InDoubt == {"closing", "cancelling"}

Init ==
    /\ life = [k \in Keys |-> "none"] /\ inside = {}
    /\ serving = FALSE /\ frozen = FALSE /\ trusted = TRUE

Becomes(k, from, to) ==
    life[k] \in from /\ life' = [life EXCEPT ![k] = to] /\ UNCHANGED <<inside, world>>

\* The calls of a running bot; a degraded backend refuses them.
Calls == serving /\ ~frozen

Issue(k) == Calls /\ Becomes(k, {"none"}, "issuing")
BeginRevoke(k) == Calls /\ (Becomes(k, {"active"}, "closing") \/ Becomes(k, {"issuing"}, "cancelling"))
BeginDelete(k) == Calls /\ Becomes(k, {"issuing", "active", "revoked"}, "doomed")

\* A row is settled, by a call or by startup, as the file has it.
Activate(k) == (trusted => k \in inside) /\ Becomes(k, {"issuing"}, "active")
Revoked(k) == (trusted => k \notin inside) /\ Becomes(k, {"doomed"}, "revoked")
Erase(k) == (trusted => k \notin inside) /\ Becomes(k, {"doomed"}, "gone")

\* A revocation fails and is taken back, or there is no way back any more.
GiveBack(k) == Calls /\ (Becomes(k, {"closing"}, "active") \/ Becomes(k, {"cancelling"}, "issuing"))
Doom(k) == Becomes(k, InDoubt, "doomed")

\* An edit of the file is about one key.  It never lets in a dead one, and a running bot
\* never locks out one that is active.
Enter(k) == (trusted => life[k] \notin Dead) /\ inside' = inside \cup {k}
Leave(k) == (serving => life[k] # "active") /\ inside' = inside \ {k}
Edit(k) == (serving => ~frozen) /\ (Enter(k) \/ Leave(k)) /\ UNCHANGED life

Rewrite(k) == Edit(k) /\ UNCHANGED world

\* A start, or the compensation of a failed create, gives up.
GiveUp ==
    /\ (\E k \in Keys : Edit(k)) \/ UNCHANGED <<life, inside>>
    /\ serving' = TRUE /\ frozen' = TRUE /\ trusted' = trusted

\* A start ends clean: file and rows agree.
CleanStart ==
    /\ ~serving /\ serving' = TRUE /\ frozen' = FALSE /\ trusted' = TRUE
    /\ inside = {k \in Keys : life[k] = "active"}
    /\ UNCHANGED <<life, inside>>

\* A kill: nobody is left to give back what is in doubt.
Stop ==
    /\ serving' = FALSE /\ frozen' = FALSE /\ trusted' = trusted
    /\ life' = [k \in Keys |-> IF life[k] \in InDoubt THEN "doomed" ELSE life[k]]
    /\ inside' = inside

HandEdit ==
    /\ ~serving /\ trusted' = FALSE /\ inside' \in SUBSET Keys
    /\ UNCHANGED <<life, serving, frozen>>

Handle(k) == \/ Issue(k) \/ BeginRevoke(k) \/ BeginDelete(k)
             \/ Activate(k) \/ Revoked(k) \/ Erase(k)
             \/ GiveBack(k) \/ Doom(k) \/ Rewrite(k)

Next == (\E k \in Keys : Handle(k)) \/ GiveUp \/ CleanStart \/ Stop \/ HandEdit

Spec == Init /\ [][Next]_vars
==============================================================================
