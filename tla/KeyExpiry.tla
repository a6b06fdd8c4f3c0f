------------------------------ MODULE KeyExpiry ------------------------------
(***************************************************************************)
(* The expiry job (services/key_expiry.py): one loop that sends reminders  *)
(* and then revokes expired keys, a bounded number of rows per pass.       *)
(*                                                                         *)
(* Time is in days and advances while the job sleeps.  A reminder is sent, *)
(* and only then recorded: the two can be torn apart by a send that fails  *)
(* or a crash.  A key whose backend refuses stays active and is first in   *)
(* line again at the next pass.                                            *)
(***************************************************************************)
EXTENDS Naturals, FiniteSets

CONSTANTS EKeys,          \* key ids, naturals: ties of the sort go by id
          ExpiresAt,      \* [EKeys -> day]
          Thresholds,     \* KEY_EXPIRY_NOTIFY_DAYS
          RevokeLimit,    \* rows list_expired_active returns (100)
          RemindLimit,    \* rows list_not_notified_expiring returns (200)
          RefusedKeys,    \* keys whose backend refuses to revoke (degraded)
          LastDay,
          MaxSendFaults, MaxJobCrashes

ASSUME ExpiryAssumption ==
  /\ EKeys \subseteq Nat /\ ExpiresAt \in [EKeys -> Nat] /\ Thresholds \subseteq Nat
  /\ RevokeLimit \in Nat \ {0} /\ RemindLimit \in Nat \ {0} /\ LastDay \in Nat

VARIABLES
  day, activeKeys, noted, \* noted: [key -> thresholds recorded as notified]
  optedOut,               \* keys whose owner switched reminders off
  job,                    \* [pc, todo: thresholds left, queue: keys left, done: reminded this run]
  sent,                   \* [key -> [threshold -> reminders sent]]
  sendFaults, jobCrashes

expiryVars == <<day, activeKeys, noted, optedOut, job, sent, sendFaults, jobCrashes>>

JobIdle == [pc |-> "sleep", todo |-> {}, queue |-> {}, done |-> {}]

Earlier(a, b) == ExpiresAt[a] < ExpiresAt[b] \/ (ExpiresAt[a] = ExpiresAt[b] /\ a < b)

\* ORDER BY expires_at LIMIT n
FirstRows(S, n) == {k \in S : Cardinality({j \in S : Earlier(j, k)}) < n}

ListExpired == FirstRows({k \in activeKeys : ExpiresAt[k] <= day}, RevokeLimit)

ListExpiring(t) ==
  FirstRows({k \in activeKeys : ExpiresAt[k] > day /\ ExpiresAt[k] <= day + t /\ t \notin noted[k]},
            RemindLimit)

\* The rows of a list are handled in its order, the thresholds from the smallest.
NextRow(k) == k \in job.queue /\ \A j \in job.queue \ {k} : Earlier(k, j)
Threshold(t) == t \in job.todo /\ \A u \in job.todo : t <= u

-----------------------------------------------------------------------------
\* The bug of a record that replaces the thresholds already recorded.
Recorded_Replaces(k, t) == {t}

\* mark_expiry_notified: the thresholds are kept as a set.
Recorded(k, t) == noted[k] \cup {t}

\* A pass begins with the smallest threshold.
JobStart ==
  /\ job.pc = "sleep"
  /\ job' = [pc |-> "remind", todo |-> Thresholds, queue |-> {}, done |-> {}]
  /\ UNCHANGED <<day, activeKeys, noted, optedOut, sent, sendFaults, jobCrashes>>

JobList(t) ==
  /\ job.pc = "remind" /\ Threshold(t)
  /\ job' = [job EXCEPT !.queue = ListExpiring(t), !.pc = "key"]
  /\ UNCHANGED <<day, activeKeys, noted, optedOut, sent, sendFaults, jobCrashes>>

Passed(k) == [job EXCEPT !.queue = @ \ {k}, !.pc = "key"]

JobThresholdDone(t) ==
  /\ job.pc = "key" /\ job.queue = {} /\ Threshold(t)
  /\ job' = [job EXCEPT !.todo = @ \ {t}, !.pc = "remind"]
  /\ UNCHANGED <<day, activeKeys, noted, optedOut, sent, sendFaults, jobCrashes>>

\* A key reminded at a smaller threshold in this run only has the larger one
\* recorded; an owner who opted out is skipped without a record; a send that
\* fails leaves none either.
Remind(k, t) ==
  /\ job.pc = "key" /\ NextRow(k) /\ Threshold(t)
  /\ CASE k \in job.done ->
            /\ noted' = [noted EXCEPT ![k] = Recorded(k, t)] /\ job' = Passed(k)
            /\ UNCHANGED <<sent, sendFaults>>
       [] k \notin job.done /\ k \in optedOut ->
            job' = Passed(k) /\ UNCHANGED <<noted, sent, sendFaults>>
       [] OTHER ->
            \/ /\ sent' = [sent EXCEPT ![k][t] = @ + 1]
               /\ job' = [job EXCEPT !.pc = "mark"]
               /\ UNCHANGED <<noted, sendFaults>>
            \/ /\ sendFaults < MaxSendFaults /\ sendFaults' = sendFaults + 1
               /\ job' = Passed(k)
               /\ UNCHANGED <<noted, sent>>
  /\ UNCHANGED <<day, activeKeys, optedOut, jobCrashes>>

MarkNotified(k, t) ==
  /\ job.pc = "mark" /\ NextRow(k) /\ Threshold(t)
  /\ noted' = [noted EXCEPT ![k] = Recorded(k, t)]
  /\ job' = [Passed(k) EXCEPT !.done = @ \cup {k}]
  /\ UNCHANGED <<day, activeKeys, optedOut, sent, sendFaults, jobCrashes>>

JobRevokeList ==
  /\ job.pc = "remind" /\ job.todo = {}
  /\ job' = [JobIdle EXCEPT !.pc = "revoke", !.queue = ListExpired]
  /\ UNCHANGED <<day, activeKeys, noted, optedOut, sent, sendFaults, jobCrashes>>

\* The bug of a pass that gives up at the first key it cannot revoke.
RevokeExpired_Stops(k) ==
  /\ job.pc = "revoke" /\ NextRow(k)
  /\ IF k \in RefusedKeys THEN job' = JobIdle /\ UNCHANGED activeKeys
     ELSE activeKeys' = activeKeys \ {k} /\ job' = [job EXCEPT !.queue = @ \ {k}]
  /\ UNCHANGED <<day, noted, optedOut, sent, sendFaults, jobCrashes>>

\* A key that cannot be revoked is logged and counted, and the pass goes on.
RevokeExpired(k) ==
  /\ job.pc = "revoke" /\ NextRow(k)
  /\ activeKeys' = IF k \in RefusedKeys THEN activeKeys ELSE activeKeys \ {k}
  /\ job' = [job EXCEPT !.queue = @ \ {k}]
  /\ UNCHANGED <<day, noted, optedOut, sent, sendFaults, jobCrashes>>

JobSleep ==
  /\ job.pc = "revoke" /\ job.queue = {}
  /\ job' = JobIdle
  /\ UNCHANGED <<day, activeKeys, noted, optedOut, sent, sendFaults, jobCrashes>>

JobCrash ==
  /\ jobCrashes < MaxJobCrashes /\ jobCrashes' = jobCrashes + 1
  /\ job.pc # "sleep" /\ job' = JobIdle
  /\ UNCHANGED <<day, activeKeys, noted, optedOut, sent, sendFaults>>

NextDay ==
  /\ job.pc = "sleep" /\ day < LastDay
  /\ day' = day + 1
  /\ UNCHANGED <<activeKeys, noted, optedOut, job, sent, sendFaults, jobCrashes>>

\* set_expiry_notifications: an owner's own switch.
SetReminders(k) ==
  /\ job.pc = "sleep" 
  /\ optedOut' = IF k \in optedOut THEN optedOut \ {k} ELSE optedOut \cup {k}
  /\ UNCHANGED <<day, activeKeys, noted, job, sent, sendFaults, jobCrashes>>

ExpiryInit ==
  /\ day = 0 /\ activeKeys = EKeys
  /\ noted = [k \in EKeys |-> {}] /\ optedOut = {}
  /\ job = JobIdle
  /\ sent = [k \in EKeys |-> [t \in Thresholds |-> 0]]
  /\ sendFaults = 0 /\ jobCrashes = 0

JobStep ==
  \/ JobStart \/ JobRevokeList \/ JobSleep
  \/ \E t \in Thresholds : JobList(t) \/ JobThresholdDone(t)
  \/ \E k \in EKeys, t \in Thresholds : Remind(k, t) \/ MarkNotified(k, t)
  \/ \E k \in EKeys : RevokeExpired(k)

ExpiryNext == JobStep \/ JobCrash \/ NextDay \/ \E k \in EKeys : SetReminders(k)

\* The loop runs for ever; days pass.
ExpirySpec == ExpiryInit /\ [][ExpiryNext]_expiryVars /\ WF_expiryVars(JobStep) /\ SF_expiryVars(NextDay)

-----------------------------------------------------------------------------
\* A reminder is sent once per threshold however many passes see the key, but
\* for a crash between the send and its record: the thresholds a key was
\* reminded at or passed over are all kept (notify_expiring_keys,
\* mark_expiry_notified).
RemindedOnce ==
  \A k \in EKeys : \A t \in Thresholds : sent[k][t] <= 1 + jobCrashes

\* An expired key whose backend works is revoked, whatever other keys refuse
\* ("Revoke all active keys whose expiry has passed").
ExpiredGetRevoked == \A k \in EKeys \ RefusedKeys : (day >= ExpiresAt[k]) ~> (k \notin activeKeys)
=============================================================================
