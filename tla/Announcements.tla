---------------------------- MODULE Announcements ----------------------------
(***************************************************************************)
(* One announcement batch and its delivery ledger                          *)
(* (services/announcements.py, repositories/announcements.py,              *)
(* services/scheduled_announcements.py).                                   *)
(*                                                                         *)
(* Two tasks may want to send it: the loop of the scheduled announcements, *)
(* and an admin who sends or resumes it by hand.  Each step between two    *)
(* awaits is an action, so a cancel, a block or the other task may come    *)
(* between reading the ledger, sending and recording.                      *)
(***************************************************************************)
EXTENDS Naturals, FiniteSets

CONSTANTS Recipients,   \* user ids, naturals
          PageSize,     \* rows list_pending_deliveries returns
          MaxAnnFaults, MaxAnnCrashes

ASSUME AnnAssumption == Recipients \subseteq Nat \ {0} /\ PageSize \in Nat \ {0}

VARIABLES
  batch,        \* status of the batch
  ledger,       \* [Recipients -> pending | sent | failed | skipped]
  eligible,     \* recipients who still may get it
  senders,      \* [task -> [pc, seen, page, retry, out]]
  batchLock,    \* task inside _send_batch_locked
  got,          \* [Recipients -> messages the user received]
  afterCancel,  \* messages that left after the cancel
  annFaults, annCrashes

annVars == <<batch, ledger, eligible, senders, batchLock, got, afterCancel, annFaults, annCrashes>>

Tasks == {"loop", "admin"}
Unlocked == "nobody"
SenderIdle == [pc |-> "idle", seen |-> 0, page |-> {}, retry |-> FALSE, out |-> "none"]
Resumable == {"pending", "sending", "failed", "scheduled"}
AnnTrouble == annFaults < MaxAnnFaults /\ annFaults' = annFaults + 1

\* set_batch_status leaves a cancelled batch alone.
SetBatch(s) == batch' = IF batch = "cancelled" THEN batch ELSE s

-----------------------------------------------------------------------------
\* resume_batch, also the end of send_to_all, which retries no failed row.
ResumeBatch(retry) ==
  /\ senders["admin"].pc = "idle" /\ batch \in Resumable
  /\ senders' = [senders EXCEPT !["admin"] = [SenderIdle EXCEPT !.pc = "lock", !.retry = retry]]
  /\ UNCHANGED <<batch, ledger, eligible, batchLock, got, afterCancel, annFaults, annCrashes>>

\* check_and_send_due, for a batch whose time has come.
SendDue ==
  /\ senders["loop"].pc = "idle" /\ batch = "scheduled"
  /\ senders' = [senders EXCEPT !["loop"] = [SenderIdle EXCEPT !.pc = "lock"]]
  /\ UNCHANGED <<batch, ledger, eligible, batchLock, got, afterCancel, annFaults, annCrashes>>

\* The bug of a batch that is sent without its lock.
LockBatch_Free(s) ==
  /\ senders[s].pc = "lock"
  /\ SetBatch("sending") /\ UNCHANGED batchLock
  /\ senders' = [senders EXCEPT ![s].pc = "page"]
  /\ UNCHANGED <<ledger, eligible, got, afterCancel, annFaults, annCrashes>>

LockBatch(s) ==
  /\ senders[s].pc = "lock" /\ batchLock = Unlocked
  /\ batchLock' = s
  /\ SetBatch("sending")
  /\ senders' = [senders EXCEPT ![s].pc = "page"]
  /\ UNCHANGED <<ledger, eligible, got, afterCancel, annFaults, annCrashes>>

Leave(s) == senders' = [senders EXCEPT ![s] = SenderIdle] /\ batchLock' = Unlocked

\* list_pending_deliveries: the next rows after the last user seen.
PendingPage(s) ==
  LET wanted == IF senders[s].retry THEN {"pending", "failed"} ELSE {"pending"}
      all == {u \in Recipients : u > senders[s].seen /\ ledger[u] \in wanted}
  IN {u \in all : Cardinality({v \in all : v < u}) < PageSize}

FetchPage(s) ==
  /\ senders[s].pc = "page"
  /\ IF batch = "cancelled" THEN Leave(s)
     ELSE /\ senders' = [senders EXCEPT ![s].page = PendingPage(s),
                                        ![s].pc = IF PendingPage(s) = {} THEN "finish" ELSE "next"]
          /\ UNCHANGED batchLock
  /\ UNCHANGED <<batch, ledger, eligible, got, afterCancel, annFaults, annCrashes>>

\* Before every delivery the cancel is looked at again.
NextDelivery(s) ==
  LET page == senders[s].page
  IN /\ senders[s].pc = "next"
     /\ \/ page = {} /\ senders' = [senders EXCEPT ![s].pc = "page"] /\ UNCHANGED batchLock
        \/ page # {} /\ batch = "cancelled" /\ Leave(s)
        \/ /\ batch # "cancelled"
           /\ \E u \in page : /\ \A v \in page : u <= v
                              /\ senders' = [senders EXCEPT ![s].pc = "check", ![s].seen = u]
           /\ UNCHANGED batchLock
     /\ UNCHANGED <<batch, ledger, eligible, got, afterCancel, annFaults, annCrashes>>

Marked(s, status) ==
  [senders EXCEPT ![s].pc = "mark", ![s].out = status]

\* is_announcement_recipient, is_segment_recipient: who was blocked or left the
\* segment since the batch was made is skipped.
CheckRecipient(s) ==
  /\ senders[s].pc = "check"
  /\ senders' = IF senders[s].seen \in eligible THEN [senders EXCEPT ![s].pc = "copy"]
                ELSE Marked(s, "skipped")
  /\ UNCHANGED <<batch, ledger, eligible, batchLock, got, afterCancel, annFaults, annCrashes>>

\* _copy_message after its retries: delivered, refused, or delivered with the
\* answer lost, which is taken for a failure.
CopyMessage(s, delivered, ok) ==
  /\ senders[s].pc = "copy"
  /\ ok => delivered
  /\ IF ok THEN UNCHANGED annFaults ELSE AnnTrouble
  /\ got' = [got EXCEPT ![senders[s].seen] = IF delivered THEN @ + 1 ELSE @]
  /\ afterCancel' = IF delivered /\ batch = "cancelled" THEN afterCancel + 1 ELSE afterCancel
  /\ senders' = Marked(s, IF ok THEN "sent" ELSE "failed")
  /\ UNCHANGED <<batch, ledger, eligible, batchLock, annCrashes>>

\* mark_delivery; a row that is settled already stays as it is.
MarkDelivery(s) ==
  /\ senders[s].pc = "mark"
  /\ ledger' = IF ledger[senders[s].seen] \in {"pending", "failed"}
               THEN [ledger EXCEPT ![senders[s].seen] = senders[s].out] ELSE ledger
  /\ senders' = [senders EXCEPT ![s].pc = "next", ![s].page = @ \ {senders[s].seen}, ![s].out = "none"]
  /\ UNCHANGED <<batch, eligible, batchLock, got, afterCancel, annFaults, annCrashes>>

\* The batch is completed unless a row failed or was skipped.
FinishBatch(s) ==
  /\ senders[s].pc = "finish"
  /\ SetBatch(IF \E u \in Recipients : ledger[u] \in {"failed", "skipped"}
              THEN "failed" ELSE "completed")
  /\ Leave(s)
  /\ UNCHANGED <<ledger, eligible, got, afterCancel, annFaults, annCrashes>>

\* A database error anywhere in the loop.
SendError(s) ==
  /\ senders[s].pc \in {"page", "next", "check", "mark"}
  /\ AnnTrouble
  /\ SetBatch("failed") /\ Leave(s)
  /\ UNCHANGED <<ledger, eligible, got, afterCancel, annCrashes>>

CancelBatch ==
  /\ batch \in Resumable /\ batch' = "cancelled"
  /\ UNCHANGED <<ledger, eligible, senders, batchLock, got, afterCancel, annFaults, annCrashes>>

LoseEligibility(u) ==
  /\ u \in eligible /\ eligible' = eligible \ {u}
  /\ UNCHANGED <<batch, ledger, senders, batchLock, got, afterCancel, annFaults, annCrashes>>

\* The ledger survives; nobody sends until an admin resumes.
AnnCrash ==
  /\ annCrashes < MaxAnnCrashes /\ annCrashes' = annCrashes + 1
  /\ senders' = [s \in Tasks |-> SenderIdle] /\ batchLock' = Unlocked
  /\ UNCHANGED <<batch, ledger, eligible, got, afterCancel, annFaults>>

\* send_to_all or schedule_to_all made the batch and a row per recipient.
AnnInit ==
  /\ batch \in {"pending", "scheduled"}
  /\ ledger = [u \in Recipients |-> "pending"]
  /\ eligible = Recipients
  /\ senders = [s \in Tasks |-> SenderIdle] /\ batchLock = Unlocked
  /\ got = [u \in Recipients |-> 0] /\ afterCancel = 0
  /\ annFaults = 0 /\ annCrashes = 0

AnnNext ==
  \/ \E retry \in BOOLEAN : ResumeBatch(retry)
  \/ SendDue \/ CancelBatch \/ AnnCrash
  \/ \E u \in Recipients : LoseEligibility(u)
  \/ \E s \in Tasks : \/ LockBatch(s) \/ FetchPage(s) \/ NextDelivery(s) \/ CheckRecipient(s)
                      \/ MarkDelivery(s) \/ FinishBatch(s) \/ SendError(s)
                      \/ \E delivered, ok \in BOOLEAN : CopyMessage(s, delivered, ok)

AnnSpec == AnnInit /\ [][AnnNext]_annVars

-----------------------------------------------------------------------------
AnnTypeOK ==
  /\ batch \in Resumable \cup {"completed", "cancelled"}
  /\ ledger \in [Recipients -> {"pending", "sent", "failed", "skipped"}]
  /\ eligible \subseteq Recipients /\ batchLock \in Tasks \cup {Unlocked}

\* A user gets the announcement once, although the schedule and an admin may
\* both send it; a crash before the record or a lost answer costs at most one
\* more each (_send_batch: "can never both be inside the send loop").
DeliveredOnce == \A u \in Recipients : got[u] <= 1 + annCrashes + annFaults

\* At most the one message that was past its last check leaves after a cancel
\* (cancel_batch, _send_batch_locked).
CancelStopsSending == afterCancel <= 1

\* A batch goes out as the admin asked: once to each user, and not after a cancel.
SentAsAsked == DeliveredOnce /\ CancelStopsSending
=============================================================================
