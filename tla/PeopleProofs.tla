---------------------------- MODULE PeopleProofs ----------------------------
(***************************************************************************)
(* Proofs about what admins and users do in the chat: relays, an           *)
(* announcement sent by two tasks, maintenance mode, access requests and   *)
(* trials, the wizards of a chat.                                          *)
(***************************************************************************)
EXTENDS Relays, Announcements, Maintenance, AccessRequests, Dialogs, FiniteSetTheorems, SequenceTheorems,
        WellFoundedInduction, TLAPS

-----------------------------------------------------------------------------
(* Relays                                                                  *)

\* Every write of the table is followed by a read of it before the service lock
\* is given back: outside that read the snapshot is the table.
CatalogInv ==
  /\ DOMAIN relayOp = {"pc", "name", "left"}
  /\ relayOp.pc \in {"idle", "keys", "refresh"}
  /\ stale \in BOOLEAN
  /\ relayOp.pc # "refresh" /\ ~stale => \A n \in RelayNames : catalog[n] = table[n]

\* Writes, from the card, the delete screen and the dialogs, hold the lock on to
\* their refresh.
LEMMA WritesKeepCatalog ==
  ASSUME CatalogInv,
         \/ \E n \in RelayNames : ToggleRelay(n) \/ \E press \in {"yes", "keys", "disable"} : DeleteExecute(n, press)
         \/ \E h \in Hosts : EditHost(h)
         \/ AddConfirm
  PROVE  CatalogInv'
<1>1. ASSUME NEW n, NEW row, UpdateRelay(n, row) PROVE CatalogInv'
  BY <1>1 DEF UpdateRelay, CatalogInv, RelayIdle
<1>2. ASSUME NEW n, NEW host, CreateRelay(n, host) PROVE CatalogInv'
  BY <1>2 DEF CreateRelay, CatalogInv, RelayIdle
<1>3. ASSUME NEW n, NEW w, DeleteRelay(n, w) PROVE CatalogInv'
  BY <1>3 DEF DeleteRelay, CatalogInv
<1>4. CASE \E n \in RelayNames : ToggleRelay(n)
  BY <1>1, <1>4 DEF ToggleRelay
<1>5. CASE \E n \in RelayNames, press \in {"yes", "keys", "disable"} : DeleteExecute(n, press)
  BY <1>1, <1>3, <1>5 DEF DeleteExecute
<1>6. CASE \E h \in Hosts : EditHost(h)
  <2>1. CASE UNCHANGED relaysKept
    BY <2>1 DEF relaysKept, CatalogInv
  <2>. QED BY <1>1, <1>6, <2>1 DEF EditHost
<1>7. CASE AddConfirm
  BY <1>2, <1>7 DEF AddConfirm
<1>. QED BY <1>4, <1>5, <1>6, <1>7

\* The rest of a delete, the refresh and a restart.
LEMMA RefreshKeepsCatalog ==
  ASSUME CatalogInv,
         DeleteIfUnused \/ RefreshCatalog \/ RelayCrash \/ \E k \in RelayKeys : DeleteRelayKey(k)
  PROVE  CatalogInv'
<1> USE DEF CatalogInv, RelayIdle
<1>1. CASE DeleteIfUnused
  BY <1>1 DEF DeleteIfUnused
<1>2. CASE RefreshCatalog
  BY <1>2 DEF RefreshCatalog
<1>3. CASE RelayCrash
  BY <1>3 DEF RelayCrash
<1>4. CASE \E k \in RelayKeys : DeleteRelayKey(k)
  BY <1>4 DEF DeleteRelayKey
<1>. QED BY <1>1, <1>2, <1>3, <1>4

\* Links are rendered from the snapshot, and between writes it is the table unless
\* reading it back failed: no link names a deleted relay or an old host
\* (RelayService.create, update, delete and refresh_catalog).
THEOREM Catalog == RelaysSpec => []CatalogIsTable
<1>1. RelaysInit => CatalogInv
  <2>1. RelaysInit => catalog = table /\ relayOp = RelayIdle /\ stale = FALSE
    BY DEF RelaysInit
  <2>2. RelaysInit => stale \in BOOLEAN /\ \A n \in RelayNames : catalog[n] = table[n]
    BY <2>1, Zenon
  <2>3. RelaysInit => DOMAIN relayOp = {"pc", "name", "left"} /\ relayOp.pc = "idle"
    BY <2>1 DEF RelayIdle
  <2>. QED BY <2>2, <2>3 DEF CatalogInv
<1>2. ASSUME CatalogInv, [RelaysNext]_relayVars PROVE CatalogInv'
  <2>1. ASSUME UNCHANGED <<table, catalog, relayOp, stale>> PROVE CatalogInv'
    BY <1>2, <2>1 DEF CatalogInv
  <2>2. ASSUME NEW n \in RelayNames,
               \/ AddName(n) \/ EditStart(n) \/ ForgetRelay(n)
               \/ \E k \in RelayKeys : IssueThrough(k, n)
               \/ \E ok \in BOOLEAN : ProbeRelay(n, ok)
        PROVE  CatalogInv'
    BY <2>1, <2>2 DEF AddName, EditStart, ForgetRelay, IssueThrough, ProbeRelay, relaysKept, relayBounds
  <2>3. ASSUME NEW k \in RelayKeys, InsertKey(k) \/ DropKey(k) PROVE CatalogInv'
    BY <2>1, <2>3 DEF InsertKey, DropKey
  <2>4. CASE AddStart \/ AddSource \/ AddLabel \/ \E h \in Hosts : AddHost(h)
    BY <2>1, <2>4 DEF AddStart, AddSource, AddLabel, AddHost, relaysKept
  <2>5. CASE UNCHANGED relayVars
    BY <2>1, <2>5 DEF relayVars
  <2>. QED BY <1>2, <2>2, <2>3, <2>4, <2>5, WritesKeepCatalog, RefreshKeepsCatalog DEF RelaysNext
<1>3. CatalogInv => CatalogIsTable
  BY DEF CatalogInv, CatalogIsTable
<1>. QED BY <1>1, <1>2, <1>3, PTL DEF RelaysSpec


-----------------------------------------------------------------------------
(* Announcements                                                           *)

Sending == {"page", "next", "check", "copy", "mark", "finish"}

SenderState == [pc : {"idle", "lock"} \cup Sending, seen : Nat, page : SUBSET Recipients,
                retry : BOOLEAN, out : {"none", "sent", "failed", "skipped"}]

AnnTypes ==
  /\ senders \in [Tasks -> SenderState]
  /\ ledger \in [Recipients -> {"pending", "sent", "failed", "skipped"}]
  /\ got \in [Recipients -> Nat]
  /\ annFaults \in Nat /\ annCrashes \in Nat /\ afterCancel \in Nat

\* Who is past the lock holds it.
SenderInv == \A s \in Tasks : senders[s].pc \in Sending => batchLock = s

\* The rows left of a page are unsettled, and the one being handled is among them.
PageInv == \A s \in Tasks :
  /\ senders[s].pc \notin Sending => senders[s].page = {}
  /\ senders[s].pc \in Sending => \A u \in senders[s].page : ledger[u] \in {"pending", "failed"}
  /\ senders[s].pc \in {"check", "copy", "mark"} => senders[s].seen \in senders[s].page
  /\ senders[s].pc = "mark" => senders[s].out # "none"

\* A message left and its record as sent is the next step.
BeingMarked(u) == \E s \in Tasks : senders[s].pc = "mark" /\ senders[s].out = "sent" /\ senders[s].seen = u

\* Beyond crashes and faults, one message, and none unless the row says so or is
\* about to.
GotInv == \A u \in Recipients :
  /\ got[u] <= 1 + annCrashes + annFaults
  /\ ledger[u] # "sent" /\ ~BeingMarked(u) => got[u] <= annCrashes + annFaults

\* After a cancel only the delivery past its check may leave.
CancelInv ==
  /\ batch # "cancelled" => afterCancel = 0
  /\ (\E s \in Tasks : senders[s].pc \in {"check", "copy"}) => afterCancel = 0
  /\ afterCancel <= 1

AnnInv == AnnTypes /\ SenderInv /\ PageInv /\ GotInv /\ CancelInv

\* Nothing has been sent when the batch is made.
LEMMA AnnStarts == AnnInit => AnnInv
<1> SUFFICES ASSUME AnnInit PROVE AnnInv
  OBVIOUS
<1>1. AnnTypes
  BY DEF AnnInit, AnnTypes, SenderState, SenderIdle
<1>2. \A s \in Tasks : senders[s].pc = "idle"
  BY DEF AnnInit, SenderIdle
<1>3. SenderInv /\ PageInv /\ CancelInv
  BY <1>2 DEF SenderInv, PageInv, CancelInv, Sending, AnnInit, SenderIdle
<1>4. GotInv
  BY <1>2 DEF GotInv, AnnInit
<1>. QED BY <1>1, <1>3, <1>4 DEF AnnInv

\* A sender leaves the loop without a delivery of its own pending.
LEMMA LeaveKeeps ==
  ASSUME AnnInv, NEW s \in Tasks, Leave(s), senders[s].pc \in Sending, UNCHANGED <<ledger, got, afterCancel>>,
         annCrashes' = annCrashes, batch = "cancelled" => batch' = "cancelled",
         \/ senders[s].pc # "mark" /\ annFaults' = annFaults
         \/ annFaults' = annFaults + 1
  PROVE  AnnInv'
<1>0. AnnTypes /\ SenderInv /\ PageInv /\ GotInv /\ CancelInv
  BY DEF AnnInv
<1>1. senders' = [senders EXCEPT ![s] = SenderIdle] /\ senders'[s].pc = "idle"
      /\ \A t \in Tasks : t # s => senders'[t] = senders[t] /\ senders[t].pc \notin Sending
  BY <1>0 DEF Leave, SenderIdle, SenderInv, AnnTypes
<1>2. AnnTypes'
  BY <1>0, <1>1 DEF AnnTypes, SenderState, SenderIdle
<1>3. SenderInv' /\ PageInv'
  BY <1>0, <1>1 DEF SenderInv, PageInv, Sending, SenderIdle, AnnTypes
<1>4. GotInv'
  <2>1. \A u \in Recipients : BeingMarked(u) => senders[s].pc = "mark"
    BY <1>1 DEF BeingMarked, Sending
  <2>. QED BY <1>0, <2>1 DEF GotInv, AnnTypes
<1>5. CancelInv'
  BY <1>0, <1>1 DEF CancelInv, Sending
<1>. QED BY <1>2, <1>3, <1>4, <1>5 DEF AnnInv


\* Steps that only move one sender on, to a place where no record of a sent
\* message is due.
LEMMA MoveKeeps ==
  ASSUME AnnInv, NEW s \in Tasks, NEW r, senders' = [senders EXCEPT ![s] = r],
         r \in SenderState,
         senders[s].pc # "mark", r.pc = "mark" => r.out \notin {"sent", "none"},
         r.pc \in Sending => batchLock' = s /\ \A t \in Tasks \ {s} : senders[t].pc \notin Sending,
         r.pc \notin Sending => batchLock' = batchLock /\ senders[s].pc \notin Sending,
         r.pc \notin Sending => r.page = {},
         r.pc \in Sending => \A u \in r.page : ledger[u] \in {"pending", "failed"},
         r.pc \in {"check", "copy", "mark"} => r.seen \in r.page,
         r.pc \in {"check", "copy"} => senders[s].pc \in {"check", "copy"} \/ batch # "cancelled",
         batch = "cancelled" => batch' = "cancelled",
         UNCHANGED <<ledger, got, afterCancel, annFaults, annCrashes>>
  PROVE  AnnInv'
<1>0. AnnTypes /\ SenderInv /\ PageInv /\ GotInv /\ CancelInv
  BY DEF AnnInv
<1>1. senders'[s] = r /\ \A t \in Tasks : t # s => senders'[t] = senders[t]
  BY <1>0 DEF AnnTypes
<1>2. AnnTypes'
  BY <1>0 DEF AnnTypes
<1>3. SenderInv'
  BY <1>0, <1>1 DEF SenderInv
<1>4. PageInv'
  BY <1>0, <1>1 DEF PageInv, Sending
<1>5. GotInv'
  <2>1. \A u \in Recipients : BeingMarked(u)' <=> BeingMarked(u)
    BY <1>1 DEF BeingMarked
  <2>. QED BY <1>0, <2>1 DEF GotInv
<1>6. CancelInv'
  BY <1>0, <1>1 DEF CancelInv
<1>. QED BY <1>2, <1>3, <1>4, <1>5, <1>6 DEF AnnInv

\* What a sender past the lock knows of the others.
LEMMA AloneInside ==
  ASSUME AnnInv, NEW s \in Tasks, senders[s].pc \in Sending
  PROVE  /\ batchLock = s /\ \A t \in Tasks \ {s} : senders[t].pc \notin Sending
         /\ senders[s] \in SenderState
         /\ \A u \in senders[s].page : ledger[u] \in {"pending", "failed"}
         /\ senders[s].pc \in {"check", "copy", "mark"} => senders[s].seen \in senders[s].page
  BY DEF AnnInv, AnnTypes, SenderInv, PageInv

\* Asking to send, and taking the batch's lock.
LEMMA EnterKeeps ==
  ASSUME AnnInv, SendDue \/ (\E retry \in BOOLEAN : ResumeBatch(retry)) \/ \E s \in Tasks : LockBatch(s)
  PROVE  AnnInv'
<1>0. AnnTypes /\ SenderInv /\ \A s \in Tasks : senders[s].pc \in {"idle", "lock"} => senders[s].pc \notin Sending
  BY DEF AnnInv, Sending
<1>1. CASE SendDue
  <2>1. senders' = [senders EXCEPT !["loop"] = [SenderIdle EXCEPT !.pc = "lock"]]
    BY <1>1 DEF SendDue
  <2>2. senders["loop"].pc = "idle" /\ "loop" \in Tasks
    BY <1>1 DEF SendDue, Tasks
  <2>3. UNCHANGED <<batch, batchLock, ledger, got, afterCancel, annFaults, annCrashes>>
    BY <1>1 DEF SendDue
  <2>r. PICK r : r = [SenderIdle EXCEPT !.pc = "lock"]
    OBVIOUS
  <2>4. /\ r \in SenderState
        /\ r.pc = "lock" /\ r.page = {}
    BY <2>r DEF SenderState, SenderIdle
  <2>5. senders["loop"].pc \notin Sending /\ r.pc \notin Sending
    BY <2>2, <2>4 DEF Sending
  <2>. QED BY <2>r, <2>1, <2>2, <2>3, <2>4, <2>5, MoveKeeps
<1>2. ASSUME NEW retry \in BOOLEAN, ResumeBatch(retry) PROVE AnnInv'
  <2>1. senders' = [senders EXCEPT !["admin"] = [SenderIdle EXCEPT !.pc = "lock", !.retry = retry]]
    BY <1>2 DEF ResumeBatch
  <2>2. senders["admin"].pc = "idle" /\ "admin" \in Tasks
    BY <1>2 DEF ResumeBatch, Tasks
  <2>3. UNCHANGED <<batch, batchLock, ledger, got, afterCancel, annFaults, annCrashes>>
    BY <1>2 DEF ResumeBatch
  <2>r. PICK r : r = [SenderIdle EXCEPT !.pc = "lock", !.retry = retry]
    OBVIOUS
  <2>4. /\ r \in SenderState
        /\ r.pc = "lock" /\ r.page = {}
    BY <2>r DEF SenderState, SenderIdle
  <2>5. senders["admin"].pc \notin Sending /\ r.pc \notin Sending
    BY <2>2, <2>4 DEF Sending
  <2>. QED BY <2>r, <2>1, <2>2, <2>3, <2>4, <2>5, MoveKeeps
<1>3. ASSUME NEW s \in Tasks, LockBatch(s) PROVE AnnInv'
  <2>1. senders' = [senders EXCEPT ![s] = [senders[s] EXCEPT !.pc = "page"]] /\ batchLock' = s
    BY <1>3 DEF LockBatch
  <2>2. UNCHANGED <<ledger, got, afterCancel, annFaults, annCrashes>> /\ (batch = "cancelled" => batch' = batch)
    BY <1>3 DEF LockBatch, SetBatch
  <2>3. senders[s].pc = "lock" /\ \A t \in Tasks : senders[t].pc \notin Sending
    BY <1>3, <1>0 DEF LockBatch, SenderInv, Tasks, Unlocked
  <2>r. PICK r : r = [senders[s] EXCEPT !.pc = "page"]
    OBVIOUS
  <2>4. senders[s].page = {}
    BY <2>3 DEF AnnInv, PageInv
  <2>5. /\ r \in SenderState
        /\ r.pc = "page" /\ r.page = {}
    BY <1>0, <2>r, <2>4 DEF AnnTypes, SenderState, Sending
  <2>6. "page" \in Sending
    BY DEF Sending
  <2>. QED BY <2>r, <2>1, <2>2, <2>3, <2>5, <2>6, MoveKeeps
<1>. QED BY <1>1, <1>2, <1>3


\* The loop over the pages, up to the message.
LEMMA PagesKeep ==
  ASSUME AnnInv, NEW s \in Tasks, FetchPage(s) \/ NextDelivery(s) \/ CheckRecipient(s)
  PROVE  AnnInv'
<1>0. senders[s].pc \in Sending /\ senders[s].pc \in {"page", "next", "check"}
  BY DEF FetchPage, NextDelivery, CheckRecipient, Sending
<1>a. /\ batchLock = s /\ \A t \in Tasks \ {s} : senders[t].pc \notin Sending
      /\ senders[s] \in SenderState
      /\ \A u \in senders[s].page : ledger[u] \in {"pending", "failed"}
      /\ senders[s].pc \in {"check", "copy", "mark"} => senders[s].seen \in senders[s].page
  BY <1>0, AloneInside
<1>u. UNCHANGED <<batch, ledger, got, afterCancel, annFaults, annCrashes>>
  BY DEF FetchPage, NextDelivery, CheckRecipient
<1>1. CASE Leave(s)
  BY <1>0, <1>u, <1>1, LeaveKeeps
<1>2. CASE FetchPage(s) /\ ~Leave(s)
  <2>0. PendingPage(s) \in SUBSET Recipients /\ \A u \in PendingPage(s) : ledger[u] \in {"pending", "failed"}
    BY DEF PendingPage
  <2>1. PICK pg \in SUBSET Recipients, pc \in {"finish", "next"} :
           /\ senders' = [senders EXCEPT ![s] = [senders[s] EXCEPT !.page = pg, !.pc = pc]]
           /\ \A u \in pg : ledger[u] \in {"pending", "failed"}
    BY <1>2, <2>0 DEF FetchPage
  <2>r. PICK r : r = [senders[s] EXCEPT !.page = pg, !.pc = pc]
    OBVIOUS
  <2>2. r \in SenderState /\ r.pc = pc /\ r.page = pg
    BY <1>a, <2>r, <2>1 DEF SenderState, Sending
  <2>3. r.pc \in Sending /\ batchLock' = batchLock
    BY <2>1, <2>2, <1>2 DEF Sending, FetchPage
  <2>. QED BY <1>0, <1>a, <1>u, <2>r, <2>1, <2>2, <2>3, MoveKeeps
<1>3. CASE NextDelivery(s) /\ ~Leave(s)
  <2>0. senders[s].pc = "next" /\ batchLock' = batchLock
    BY <1>3 DEF NextDelivery
  <2>1. CASE senders' = [senders EXCEPT ![s].pc = "page"]
    <3>r. PICK r : r = [senders[s] EXCEPT !.pc = "page"]
      OBVIOUS
    <3>2. r \in SenderState /\ r.pc = "page" /\ r.page = senders[s].page /\ r.pc \in Sending
      BY <1>a, <3>r DEF SenderState, Sending
    <3>3. senders' = [senders EXCEPT ![s] = r]
      BY <2>1, <3>r
    <3>. QED BY <1>0, <1>a, <1>u, <2>0, <3>2, <3>3, MoveKeeps
  <2>2. ASSUME NEW u \in senders[s].page, batch # "cancelled",
               senders' = [senders EXCEPT ![s].pc = "check", ![s].seen = u]
        PROVE  AnnInv'
    <3>r. PICK r : r = [senders[s] EXCEPT !.pc = "check", !.seen = u]
      OBVIOUS
    <3>1. u \in Nat
      BY <1>a, <2>2, AnnAssumption DEF SenderState
    <3>2. r \in SenderState /\ r.pc = "check" /\ r.seen = u /\ r.page = senders[s].page /\ r.pc \in Sending
      BY <1>a, <3>r, <3>1 DEF SenderState, Sending
    <3>3. senders' = [senders EXCEPT ![s] = r]
      BY <2>2, <3>r
    <3>. QED BY <1>0, <1>a, <1>u, <2>0, <2>2, <3>2, <3>3, MoveKeeps
  <2>. QED BY <1>3, <2>1, <2>2 DEF NextDelivery
<1>4. CASE CheckRecipient(s)
  <2>0. senders[s].pc = "check" /\ batchLock' = batchLock
    BY <1>4 DEF CheckRecipient
  <2>1. CASE senders' = [senders EXCEPT ![s].pc = "copy"]
    <3>r. PICK r : r = [senders[s] EXCEPT !.pc = "copy"]
      OBVIOUS
    <3>2. r \in SenderState /\ r.pc = "copy" /\ r.seen = senders[s].seen /\ r.page = senders[s].page /\ r.pc \in Sending
      BY <1>a, <3>r DEF SenderState, Sending
    <3>3. senders' = [senders EXCEPT ![s] = r]
      BY <2>1, <3>r
    <3>. QED BY <1>0, <1>a, <1>u, <2>0, <3>2, <3>3, MoveKeeps
  <2>2. CASE senders' = Marked(s, "skipped")
    <3>r. PICK r : r = [senders[s] EXCEPT !.pc = "mark", !.out = "skipped"]
      OBVIOUS
    <3>2. /\ r \in SenderState /\ r.pc = "mark" /\ r.out = "skipped" /\ r.seen = senders[s].seen
          /\ r.page = senders[s].page /\ r.pc \in Sending
      BY <1>a, <3>r DEF SenderState, Sending
    <3>3. senders' = [senders EXCEPT ![s] = r]
      BY <2>2, <3>r DEF Marked
    <3>. QED BY <1>0, <1>a, <1>u, <2>0, <3>2, <3>3, MoveKeeps
  <2>. QED BY <1>4, <2>1, <2>2 DEF CheckRecipient
<1>. QED BY <1>1, <1>2, <1>3, <1>4

\* The message goes to a user whose row is unsettled, and costs a fault when it
\* is not going to be recorded as sent.
LEMMA CopyKeeps ==
  ASSUME AnnInv, NEW s \in Tasks, NEW delivered \in BOOLEAN, NEW ok \in BOOLEAN,
         CopyMessage(s, delivered, ok)
  PROVE  AnnInv'
<1>0. AnnTypes /\ SenderInv /\ PageInv /\ GotInv /\ CancelInv
  BY DEF AnnInv
<1>1. senders[s].pc = "copy" /\ senders[s].pc \in Sending
  BY DEF CopyMessage, Sending
<1>a. /\ batchLock = s /\ \A t \in Tasks \ {s} : senders[t].pc \notin Sending
      /\ senders[s] \in SenderState
      /\ \A u \in senders[s].page : ledger[u] \in {"pending", "failed"}
      /\ senders[s].seen \in senders[s].page
  BY <1>1, AloneInside
<1> DEFINE x == senders[s].seen
<1>2. x \in Recipients /\ ledger[x] # "sent" /\ \A u \in Recipients : ~BeingMarked(u)
  BY <1>1, <1>a DEF BeingMarked, Sending, SenderState
<1>3. afterCancel = 0 /\ afterCancel' \in {0, 1} /\ (batch # "cancelled" => afterCancel' = 0)
  BY <1>0, <1>1 DEF CancelInv, CopyMessage
<1>4. UNCHANGED <<batch, ledger, batchLock, annCrashes>>
  BY DEF CopyMessage
<1>5. PICK out \in {"sent", "failed"} :
         /\ senders' = [senders EXCEPT ![s] = [senders[s] EXCEPT !.pc = "mark", !.out = out]]
         /\ out = "sent" => ok
         /\ out = "failed" => ~ok
  BY DEF CopyMessage, Marked
<1>6. annFaults' = IF ok THEN annFaults ELSE annFaults + 1
  BY DEF CopyMessage, AnnTrouble
<1>7. got' = [got EXCEPT ![x] = IF delivered THEN @ + 1 ELSE @]
  BY DEF CopyMessage
<1>s. /\ senders'[s].pc = "mark" /\ senders'[s].out = out /\ senders'[s].seen = x
      /\ senders'[s].page = senders[s].page /\ senders'[s] \in SenderState
      /\ \A t \in Tasks : t # s => senders'[t] = senders[t]
  BY <1>0, <1>5, <1>a DEF AnnTypes, SenderState, Sending
<1>8. AnnTypes'
  <2>0. (IF delivered THEN got[x] + 1 ELSE got[x]) \in Nat
    BY <1>0, <1>2 DEF AnnTypes
  <2>1. got' \in [Recipients -> Nat] /\ annFaults' \in Nat /\ afterCancel' \in Nat
    <3>1. got' \in [Recipients -> Nat]
      BY <1>0, <1>7, <2>0 DEF AnnTypes
    <3>2. annFaults' \in Nat
      BY <1>0, <1>6 DEF AnnTypes
    <3>3. afterCancel' \in Nat
      BY <1>3
    <3>. QED BY <3>1, <3>2, <3>3
  <2>2. senders' \in [Tasks -> SenderState]
    BY <1>0, <1>5, <1>s DEF AnnTypes
  <2>. QED BY <1>0, <1>4, <2>1, <2>2 DEF AnnTypes
<1>9. SenderInv' /\ PageInv'
  <2>1. SenderInv'
    BY <1>0, <1>1, <1>4, <1>a, <1>s DEF SenderInv
  <2>2. PageInv'
    BY <1>0, <1>1, <1>4, <1>a, <1>s DEF PageInv, Sending
  <2>. QED BY <2>1, <2>2
<1>10. CancelInv'
  BY <1>0, <1>3, <1>4, <1>a, <1>s DEF CancelInv, Sending
<1>11. GotInv'
  <2>1. SUFFICES ASSUME NEW u \in Recipients
                 PROVE  /\ got'[u] <= 1 + annCrashes' + annFaults'
                        /\ ledger'[u] # "sent" /\ ~BeingMarked(u)' => got'[u] <= annCrashes' + annFaults'
    BY DEF GotInv
  <2>2. got[u] <= 1 + annCrashes + annFaults /\ (ledger[u] # "sent" => got[u] <= annCrashes + annFaults)
    BY <1>0, <1>2 DEF GotInv
  <2>3. got[u] \in Nat /\ annCrashes \in Nat /\ annFaults \in Nat
    BY <1>0 DEF AnnTypes
  <2>4. CASE u # x
    BY <1>0, <1>4, <1>6, <1>7, <2>2, <2>3, <2>4 DEF AnnTypes
  <2>5. CASE u = x
    <3>1. got'[u] <= got[u] + 1 /\ got[u] <= annCrashes + annFaults
      BY <1>0, <1>2, <1>7, <2>2, <2>3, <2>5 DEF AnnTypes
    <3>2. got'[u] \in Nat
      BY <1>8 DEF AnnTypes
    <3>3. CASE ok
      <4>1. BeingMarked(u)'
        BY <1>5, <1>s, <2>5, <3>3 DEF BeingMarked
      <4>. QED BY <1>4, <1>6, <2>3, <3>1, <3>2, <3>3, <4>1
    <3>4. CASE ~ok
      BY <1>4, <1>6, <2>3, <3>1, <3>2, <3>4
    <3>. QED BY <3>3, <3>4
  <2>. QED BY <2>4, <2>5
<1>. QED BY <1>8, <1>9, <1>10, <1>11 DEF AnnInv

\* A message that was sent is recorded as sent: its row was not settled.
LEMMA MarkKeeps ==
  ASSUME AnnInv, NEW s \in Tasks, MarkDelivery(s) PROVE AnnInv'
<1>0. AnnTypes /\ SenderInv /\ PageInv /\ GotInv /\ CancelInv
  BY DEF AnnInv
<1>1. senders[s].pc = "mark" /\ senders[s].pc \in Sending
  BY DEF MarkDelivery, Sending
<1>a. /\ batchLock = s /\ \A t \in Tasks \ {s} : senders[t].pc \notin Sending
      /\ senders[s] \in SenderState
      /\ \A u \in senders[s].page : ledger[u] \in {"pending", "failed"}
      /\ senders[s].seen \in senders[s].page
  BY <1>1, AloneInside
<1> DEFINE x == senders[s].seen
<1>2. x \in Recipients /\ ledger' = [ledger EXCEPT ![x] = senders[s].out]
  BY <1>a DEF MarkDelivery, SenderState
<1>3. UNCHANGED <<batch, batchLock, got, afterCancel, annFaults, annCrashes>>
  BY DEF MarkDelivery
<1>4. senders' = [senders EXCEPT ![s] = [senders[s] EXCEPT !.pc = "next", !.page = @ \ {x}, !.out = "none"]]
  BY DEF MarkDelivery
<1>s. /\ senders'[s].pc = "next" /\ senders'[s].page = senders[s].page \ {x} /\ senders'[s] \in SenderState
      /\ \A t \in Tasks : t # s => senders'[t] = senders[t]
  BY <1>0, <1>4, <1>a DEF AnnTypes, SenderState, Sending
<1>5. senders[s].out \in {"sent", "failed", "skipped"}
  BY <1>0, <1>1, <1>a DEF PageInv, SenderState
<1>6. AnnTypes'
  <2>1. senders' \in [Tasks -> SenderState] /\ ledger' \in [Recipients -> {"pending", "sent", "failed", "skipped"}]
    BY <1>0, <1>2, <1>4, <1>5, <1>s DEF AnnTypes
  <2>. QED BY <1>0, <1>3, <2>1 DEF AnnTypes
<1>7. SenderInv' /\ CancelInv'
  BY <1>0, <1>1, <1>3, <1>a, <1>s DEF SenderInv, CancelInv, Sending
<1>8. PageInv'
  <2>1. \A u \in senders'[s].page : ledger'[u] = ledger[u]
    BY <1>0, <1>2, <1>a, <1>s DEF AnnTypes, SenderState
  <2>2. \A t \in Tasks : t # s => senders'[t].pc \notin Sending /\ senders'[t].page = {}
    BY <1>0, <1>a, <1>s DEF PageInv
  <2>. QED BY <1>a, <1>s, <2>1, <2>2 DEF PageInv, Sending
<1>9. GotInv'
  <2>1. SUFFICES ASSUME NEW u \in Recipients
                 PROVE  /\ got'[u] <= 1 + annCrashes' + annFaults'
                        /\ ledger'[u] # "sent" /\ ~BeingMarked(u)' => got'[u] <= annCrashes' + annFaults'
    BY DEF GotInv
  <2>2. BeingMarked(u) => u = x /\ senders[s].out = "sent"
    BY <1>a DEF BeingMarked, Sending
  <2>3. ledger'[u] # "sent" => ledger[u] # "sent" /\ ~BeingMarked(u)
    BY <1>0, <1>2, <1>a, <2>2 DEF AnnTypes, SenderState
  <2>. QED BY <1>0, <1>3, <2>3 DEF GotInv
<1>. QED BY <1>6, <1>7, <1>8, <1>9 DEF AnnInv

\* The batch ends, fails, is cancelled, loses a recipient, or the process dies.
LEMMA AnnEndsKeep ==
  ASSUME AnnInv,
         \/ \E s \in Tasks : FinishBatch(s) \/ SendError(s)
         \/ CancelBatch \/ AnnCrash \/ \E u \in Recipients : LoseEligibility(u)
  PROVE  AnnInv'
<1>0. AnnTypes /\ SenderInv /\ PageInv /\ GotInv /\ CancelInv
  BY DEF AnnInv
<1>1. ASSUME NEW s \in Tasks, FinishBatch(s) PROVE AnnInv'
  <2>1. Leave(s) /\ senders[s].pc = "finish" /\ UNCHANGED <<ledger, got, afterCancel, annFaults, annCrashes>>
    BY <1>1 DEF FinishBatch
  <2>2. batch = "cancelled" => batch' = "cancelled"
    BY <1>1 DEF FinishBatch, SetBatch
  <2>3. senders[s].pc \in Sending
    BY <2>1 DEF Sending
  <2>. QED BY <2>1, <2>2, <2>3, LeaveKeeps
<1>2. ASSUME NEW s \in Tasks, SendError(s) PROVE AnnInv'
  <2>1. Leave(s) /\ UNCHANGED <<ledger, got, afterCancel, annCrashes>> /\ annFaults' = annFaults + 1
    BY <1>2 DEF SendError, AnnTrouble
  <2>2. batch = "cancelled" => batch' = "cancelled"
    BY <1>2 DEF SendError, SetBatch
  <2>3. senders[s].pc \in Sending
    BY <1>2 DEF SendError, Sending
  <2>. QED BY <2>1, <2>2, <2>3, LeaveKeeps
<1>3. CASE CancelBatch
  <2>1. UNCHANGED <<ledger, senders, batchLock, got, afterCancel, annFaults, annCrashes>> /\ batch' = "cancelled"
    BY <1>3 DEF CancelBatch
  <2>. QED BY <1>0, <2>1 DEF AnnInv, AnnTypes, SenderInv, PageInv, GotInv, CancelInv, BeingMarked
<1>4. CASE AnnCrash
  <2>1. /\ senders' = [s \in Tasks |-> SenderIdle] /\ annCrashes' = annCrashes + 1
        /\ UNCHANGED <<batch, ledger, got, afterCancel, annFaults>>
    BY <1>4 DEF AnnCrash
  <2>2. \A s \in Tasks : senders'[s].pc = "idle" /\ senders'[s].page = {} /\ senders'[s] \in SenderState
    BY <2>1 DEF SenderIdle, SenderState
  <2>3. AnnTypes'
    BY <1>0, <2>1, <2>2 DEF AnnTypes
  <2>4. SenderInv' /\ PageInv' /\ CancelInv'
    BY <1>0, <2>1, <2>2 DEF SenderInv, PageInv, CancelInv, Sending
  <2>5. GotInv'
    BY <1>0, <2>1 DEF GotInv, AnnTypes
  <2>. QED BY <2>3, <2>4, <2>5 DEF AnnInv
<1>5. CASE \E u \in Recipients : LoseEligibility(u)
  <2>1. UNCHANGED <<batch, ledger, senders, batchLock, got, afterCancel, annFaults, annCrashes>>
    BY <1>5 DEF LoseEligibility
  <2>. QED BY <1>0, <2>1 DEF AnnInv, AnnTypes, SenderInv, PageInv, GotInv, CancelInv, BeingMarked
<1>. QED BY <1>1, <1>2, <1>3, <1>4, <1>5

\* A user gets the announcement once, although the schedule and an admin may both
\* send it, and at most once more for each crash before the record and each lost
\* answer; at most the one message past its last check leaves after a cancel
\* (_send_batch, _send_batch_locked, cancel_batch).
THEOREM Announced == AnnSpec => []SentAsAsked
<1>1. AnnInit => AnnInv
  BY AnnStarts
<1>2. ASSUME AnnInv, [AnnNext]_annVars PROVE AnnInv'
  <2>1. CASE UNCHANGED annVars
    BY <1>2, <2>1 DEF annVars, AnnInv, AnnTypes, SenderInv, PageInv, GotInv, CancelInv, BeingMarked
  <2>. QED BY <1>2, <2>1, EnterKeeps, PagesKeep, CopyKeeps, MarkKeeps, AnnEndsKeep DEF AnnNext
<1>3. AnnInv => SentAsAsked
  BY DEF AnnInv, GotInv, CancelInv, SentAsAsked, DeliveredOnce, CancelStopsSending
<1>. QED BY <1>1, <1>2, <1>3, PTL DEF AnnSpec

-----------------------------------------------------------------------------
(* Maintenance mode                                                        *)

\* A set of naturals that is not empty has a least member.
LEMMA Least ==
  ASSUME NEW S \in SUBSET Nat, S # {}
  PROVE  \E x \in S : \A y \in S : x <= y
<1>1. PICK x \in S : \A y \in S : ~(<<y, x>> \in OpToRel(<, Nat))
  <2>1. IsWellFoundedOn(OpToRel(<, Nat), Nat)
    BY NatLessThanWellFounded
  <2>2. DEFINE R == OpToRel(<, Nat)
  <2> HIDE DEF R
  <2>3. IsWellFoundedOn(R, Nat)
    BY <2>1 DEF R
  <2>4. \E x \in S : \A y \in S : ~(<<y, x>> \in R)
    BY <2>3, WFMin
  <2>. QED BY <2>4 DEF R
<1>2. ASSUME NEW y \in S PROVE x <= y
  <2>1. ~(y < x)
    <3>1. ASSUME y < x PROVE FALSE
      <4>1. <<y, x>> \in Nat \X Nat
        OBVIOUS
      <4>2. <<y, x>> \in OpToRel(<, Nat)
        BY <4>1, <3>1 DEF OpToRel
      <4>. QED BY <4>2, <1>1
    <3>. QED BY <3>1
  <2>. QED BY <2>1
<1>. QED BY <1>2

\* The first n of a set: some if there are any, and with each all before it
\* (ORDER BY telegram_id LIMIT n).
LEMMA FirstPage ==
  ASSUME NEW S \in SUBSET Nat, IsFiniteSet(S), NEW n \in Nat \ {0}
  PROVE  /\ S # {} => FirstOf(S, n) # {}
         /\ \A u \in FirstOf(S, n), v \in S : v < u => v \in FirstOf(S, n)
<1>1. ASSUME S # {} PROVE FirstOf(S, n) # {}
  <2>1. PICK x \in S : \A y \in S : x <= y
    BY <1>1, Least
  <2>a. \A v \in S : ~(v < x)
    BY <2>1
  <2>2. {v \in S : v < x} = {}
    BY <2>a, Zenon
  <2>3. Cardinality({v \in S : v < x}) = 0
    BY <2>2, FS_EmptySet
  <2>. QED BY <2>1, <2>3 DEF FirstOf
<1>2. ASSUME NEW u \in FirstOf(S, n), NEW v \in S, v < u PROVE v \in FirstOf(S, n)
  <2>1. u \in S /\ Cardinality({w \in S : w < u}) < n
    BY DEF FirstOf
  <2>a. \A w \in S : w < v => w < u
    BY <1>2, <2>1
  <2>2. {w \in S : w < v} \in SUBSET {w \in S : w < u}
    BY <2>a, Zenon
  <2>3. IsFiniteSet({w \in S : w < u}) /\ IsFiniteSet({w \in S : w < v})
    BY FS_Subset
  <2>4. Cardinality({w \in S : w < v}) <= Cardinality({w \in S : w < u})
    BY <2>2, <2>3, FS_Subset
  <2>5. Cardinality({w \in S : w < v}) \in Nat /\ Cardinality({w \in S : w < u}) \in Nat
    BY <2>3, FS_CardinalityType
  <2>. QED BY <2>1, <2>4, <2>5 DEF FirstOf
<1>. QED BY <1>1, <1>2


TaskState == [pc : {"idle", "write", "read", "page", "send", "sent"},
              want : [enabled : BOOLEAN, message : Banners], n : Nat, seen : Nat,
              page : SUBSET Readers, owed : SUBSET Readers]

MtTypes ==
  /\ mtask \in [Bosses -> TaskState] /\ readers \in SUBSET Readers
  /\ switches \in 0 .. MaxSwitches
  /\ notices \in [Readers -> [1 .. MaxSwitches -> Nat]]

\* The copy is the row once every write has been read back.
GateInv == (\A b \in Bosses : mtask[b].pc # "read") /\ ~staleCopy => mem = mrow

\* Every switch under way has a number of its own, and no switch to come has sent
\* a notice.
NumberInv ==
  /\ \A b \in Bosses : mtask[b].pc # "idle" => mtask[b].n \in 1 .. switches
  /\ \A b, c \in Bosses : b # c /\ mtask[b].pc # "idle" /\ mtask[c].pc # "idle" => mtask[b].n # mtask[c].n
  /\ \A u \in Readers, m \in 1 .. MaxSwitches : notices[u][m] <= 1 /\ (m > switches => notices[u][m] = 0)

\* Where a broadcast t stands: nobody beyond the last id has its notice, everybody
\* owed one up to it has, and no one owed is passed over by the page.
Broadcast(t) ==
  /\ t.pc \in {"write", "read"} => t.seen = 0 /\ \A u \in Readers : notices[u][t.n] = 0
  /\ t.pc \in {"page", "send"} => \A u \in Readers : u > t.seen => notices[u][t.n] = 0
  /\ t.pc \in {"page", "send", "sent"} =>
       t.owed \subseteq readers /\ \A u \in t.owed : u <= t.seen => notices[u][t.n] = 1
  /\ t.pc = "send" =>
       /\ \A u \in t.page : u > t.seen
       /\ \A v \in t.owed : v > t.seen => v \in t.page \/ \A u \in t.page : u < v
  /\ t.pc = "sent" => \A u \in t.owed : u <= t.seen

BroadcastInv == \A b \in Bosses : Broadcast(mtask[b])

MtInv == MtTypes /\ GateInv /\ NumberInv /\ BroadcastInv

\* No switch is under way at the start.
LEMMA MtStarts == MtInit => MtInv
<1> SUFFICES ASSUME MtInit PROVE MtInv
  OBVIOUS
<1>1. NoSwitch \in TaskState /\ NoSwitch.pc = "idle"
  BY DEF NoSwitch, TaskState, Disabled, State, Banners
<1>2. \A b \in Bosses : mtask[b] = NoSwitch
  BY DEF MtInit
<1>3. MtTypes
  BY <1>1, MaintenanceAssumption DEF MtInit, MtTypes
<1>4. GateInv
  BY DEF MtInit, GateInv
<1>5. NumberInv
  BY <1>1, <1>2, MaintenanceAssumption DEF MtInit, NumberInv
<1>6. BroadcastInv
  BY <1>1, <1>2 DEF BroadcastInv, Broadcast
<1>. QED BY <1>3, <1>4, <1>5, <1>6 DEF MtInv

\* Steps that leave the switches alone.
LEMMA MtFrame ==
  ASSUME MtInv, UNCHANGED <<mrow, mem, mtask, readers, notices, switches, staleCopy>>
  PROVE  MtInv'
  BY DEF MtInv, MtTypes, GateInv, NumberInv, BroadcastInv, Broadcast

\* One switch moves on, and the notices of the others stay as they are.
LEMMA TaskMoves ==
  ASSUME MtInv, NEW b \in Bosses, NEW t \in TaskState, mtask' = [mtask EXCEPT ![b] = t],
         readers' = readers, switches' = switches, notices' = notices,
         t.pc # "idle" => mtask[b].pc # "idle" /\ t.n = mtask[b].n,
         Broadcast(t)
  PROVE  MtTypes' /\ NumberInv' /\ BroadcastInv'
<1>0. MtTypes /\ NumberInv /\ BroadcastInv
  BY DEF MtInv
<1>1. mtask'[b] = t /\ \A c \in Bosses : c # b => mtask'[c] = mtask[c]
  BY <1>0 DEF MtTypes
<1>2. MtTypes'
  BY <1>0 DEF MtTypes
<1>3. NumberInv'
  BY <1>0, <1>1 DEF NumberInv
<1>4. ASSUME NEW c \in Bosses PROVE Broadcast(mtask[c])'
  <2>1. Broadcast(mtask'[c])
    BY <1>0, <1>1 DEF BroadcastInv
  <2>. QED BY <2>1 DEF Broadcast
<1>. QED BY <1>2, <1>3, <1>4 DEF BroadcastInv


\* A new switch takes the next number.
LEMMA SwitchKeeps ==
  ASSUME MtInv, NEW b \in Bosses, mtask[b].pc = "idle",
         NEW want \in [enabled : BOOLEAN, message : Banners], Switch(b, want)
  PROVE  MtInv'
<1>0. MtTypes /\ GateInv /\ NumberInv /\ BroadcastInv
  BY DEF MtInv
<1>r. PICK t : t = [NoSwitch EXCEPT !.pc = "write", !.want = want, !.n = switches + 1]
  OBVIOUS
<1>n. switches \in Nat /\ MaxSwitches \in Nat /\ switches < MaxSwitches
  BY <1>0, MaintenanceAssumption DEF MtTypes, Switch
<1>1. t \in TaskState /\ t.pc = "write" /\ t.n = switches + 1 /\ t.seen = 0
  <2>1. NoSwitch \in TaskState /\ NoSwitch.seen = 0
    BY DEF NoSwitch, TaskState, Disabled, State, Banners
  <2>2. PICK s : s = NoSwitch
    OBVIOUS
  <2>3. s \in TaskState /\ s.seen = 0 /\ switches + 1 \in Nat
    BY <1>n, <2>1, <2>2
  <2>4. t = [s EXCEPT !.pc = "write", !.want = want, !.n = switches + 1]
    BY <1>r, <2>2
  <2>5. t \in TaskState
    BY <2>3, <2>4 DEF TaskState
  <2>6. t.pc = "write" /\ t.n = switches + 1 /\ t.seen = 0
    BY <2>3, <2>4 DEF TaskState
  <2>. QED BY <2>5, <2>6
<1>2. /\ mtask' = [mtask EXCEPT ![b] = t] /\ switches' = switches + 1
      /\ UNCHANGED <<mrow, mem, readers, notices, staleCopy>>
  BY <1>r DEF Switch
<1>3. mtask'[b] = t /\ \A c \in Bosses : c # b => mtask'[c] = mtask[c]
  BY <1>0, <1>2 DEF MtTypes
<1>4. MtTypes'
  BY <1>0, <1>n, <1>1, <1>2 DEF MtTypes
<1>5. GateInv'
  BY <1>0, <1>1, <1>2, <1>3 DEF GateInv
<1>6. NumberInv'
  <2>1. \A c \in Bosses : c # b /\ mtask'[c].pc # "idle" => mtask'[c].n \in 1 .. switches
    BY <1>0, <1>3 DEF NumberInv
  <2>2. \A u \in Readers, m \in 1 .. MaxSwitches : notices[u][m] <= 1 /\ (m > switches + 1 => notices[u][m] = 0)
    BY <1>0, <1>n DEF NumberInv
  <2>3. \A c \in Bosses : mtask'[c].pc # "idle" => mtask'[c].n \in 1 .. switches + 1
    BY <1>1, <1>3, <1>n, <2>1
  <2>4. \A c, d \in Bosses : c # d /\ mtask'[c].pc # "idle" /\ mtask'[d].pc # "idle" => mtask'[c].n # mtask'[d].n
    BY <1>0, <1>1, <1>3, <1>n, <2>1 DEF NumberInv
  <2>. QED BY <1>2, <2>2, <2>3, <2>4 DEF NumberInv
<1>7. BroadcastInv'
  <2>1. ASSUME NEW c \in Bosses PROVE Broadcast(mtask[c])'
    <3>1. CASE c = b
      <4>1. \A u \in Readers : notices[u][t.n] = 0
        BY <1>0, <1>1, <1>n DEF NumberInv
      <4>. QED BY <1>1, <1>2, <1>3, <3>1, <4>1 DEF Broadcast
    <3>2. CASE c # b
      BY <1>0, <1>2, <1>3, <3>2 DEF BroadcastInv, Broadcast
    <3>. QED BY <3>1, <3>2
  <2>. QED BY <2>1 DEF BroadcastInv
<1>. QED BY <1>4, <1>5, <1>6, <1>7 DEF MtInv

\* The write, the read back and the end of a switch.
LEMMA RowKeeps ==
  ASSUME MtInv, NEW b \in Bosses, NEW ok \in BOOLEAN, SetState(b, ok) \/ RefreshCopy(b, ok) \/ SwitchDone(b)
  PROVE  MtInv'
<1>0. MtTypes /\ GateInv /\ NumberInv /\ BroadcastInv
  BY DEF MtInv
<1>a. mtask[b] \in TaskState /\ Broadcast(mtask[b])
  BY <1>0 DEF MtTypes, BroadcastInv
<1>i. NoSwitch \in TaskState /\ NoSwitch.pc = "idle" /\ Broadcast(NoSwitch)
  BY DEF NoSwitch, TaskState, Disabled, State, Banners, Broadcast
<1>u. readers' = readers /\ switches' = switches /\ notices' = notices
  BY DEF SetState, RefreshCopy, SwitchDone
<1>1. CASE SetState(b, ok)
  <2>r. PICK t : t = IF ok THEN [mtask[b] EXCEPT !.pc = "read"] ELSE NoSwitch
    OBVIOUS
  <2>1. mtask[b].pc = "write" /\ mtask' = [mtask EXCEPT ![b] = t] /\ UNCHANGED <<mem, staleCopy>>
    BY <1>1, <2>r DEF SetState
  <2>2. t \in TaskState /\ (t.pc # "idle" => t.n = mtask[b].n) /\ Broadcast(t)
    <3>1. CASE ok
      <4>1. t \in TaskState /\ t.pc = "read" /\ t.n = mtask[b].n /\ t.seen = mtask[b].seen
        BY <1>a, <2>r, <3>1 DEF TaskState
      <4>. QED BY <1>a, <2>1, <4>1 DEF Broadcast
    <3>2. CASE ~ok
      BY <1>i, <2>r, <3>2
    <3>. QED BY <3>1, <3>2
  <2>3. MtTypes' /\ NumberInv' /\ BroadcastInv'
    BY <1>u, <2>1, <2>2, TaskMoves
  <2>4. GateInv'
    <3>1. CASE ok
      <4>1. mtask'[b].pc = "read"
        BY <1>0, <1>a, <2>r, <2>1, <3>1 DEF MtTypes, TaskState
      <4>. QED BY <4>1 DEF GateInv
    <3>2. CASE ~ok
      <4>1. mrow' = mrow
        BY <1>1, <3>2 DEF SetState
      <4>2. \A c \in Bosses : mtask'[c].pc # "read" => mtask[c].pc # "read"
        BY <1>0, <2>1 DEF MtTypes
      <4>. QED BY <1>0, <2>1, <4>1, <4>2 DEF GateInv
    <3>. QED BY <3>1, <3>2
  <2>. QED BY <2>3, <2>4 DEF MtInv
<1>2. CASE RefreshCopy(b, ok)
  <2>r. PICK t : t = IF ok THEN [mtask[b] EXCEPT !.pc = "page", !.owed = readers] ELSE NoSwitch
    OBVIOUS
  <2>1. mtask[b].pc = "read" /\ mtask' = [mtask EXCEPT ![b] = t]
    BY <1>2, <2>r DEF RefreshCopy
  <2>2. t \in TaskState /\ (t.pc # "idle" => t.n = mtask[b].n) /\ Broadcast(t)
    <3>1. CASE ok
      <4>1. t \in TaskState /\ t.pc = "page" /\ t.n = mtask[b].n /\ t.seen = mtask[b].seen /\ t.owed = readers
        BY <1>0, <1>a, <2>r, <3>1 DEF MtTypes, TaskState
      <4>2. t.seen = 0 /\ \A u \in Readers : notices[u][t.n] = 0 /\ u > 0
        BY <1>a, <2>1, <4>1, MaintenanceAssumption DEF Broadcast
      <4>3. \A u \in t.owed : ~(u <= t.seen)
        <5>1. \A u \in Readers : ~(u <= 0)
          BY MaintenanceAssumption
        <5>. QED BY <1>0, <4>1, <4>2, <5>1 DEF MtTypes
      <4>. QED BY <4>1, <4>2, <4>3 DEF Broadcast
    <3>2. CASE ~ok
      BY <1>i, <2>r, <3>2
    <3>. QED BY <3>1, <3>2
  <2>3. MtTypes' /\ NumberInv' /\ BroadcastInv'
    BY <1>u, <2>1, <2>2, TaskMoves
  <2>4. (staleCopy' => ~ok) /\ (~ok => staleCopy') /\ (ok => mem' = mrow /\ mrow' = mrow)
    BY <1>2, Zenon DEF RefreshCopy, ReadBack
  <2>. QED BY <2>3, <2>4 DEF MtInv, GateInv
<1>3. CASE SwitchDone(b)
  <2>1. mtask[b].pc = "sent" /\ mtask' = [mtask EXCEPT ![b] = NoSwitch] /\ UNCHANGED <<mrow, mem, staleCopy>>
    BY <1>3 DEF SwitchDone
  <2>2. MtTypes' /\ NumberInv' /\ BroadcastInv'
    BY <1>i, <1>u, <2>1, TaskMoves
  <2>3. \A c \in Bosses : mtask'[c].pc # "read" => mtask[c].pc # "read"
    BY <1>0, <2>1 DEF MtTypes
  <2>. QED BY <1>0, <2>1, <2>2, <2>3 DEF MtInv, GateInv
<1>. QED BY <1>1, <1>2, <1>3

\* A page is taken: it passes over nobody, and is empty when nobody is left.
LEMMA TakePageKeeps ==
  ASSUME MtInv, NEW b \in Bosses, TakePage(b) PROVE MtInv'
<1>0. MtTypes /\ GateInv /\ NumberInv /\ BroadcastInv
  BY DEF MtInv
<1>a. mtask[b] \in TaskState /\ Broadcast(mtask[b]) /\ mtask[b].pc = "page"
  BY <1>0 DEF MtTypes, BroadcastInv, TakePage
<1> DEFINE after == {u \in readers : u > mtask[b].seen}
<1>1. after \in SUBSET Nat /\ IsFiniteSet(after) /\ after \in SUBSET Readers
  <2>1. after \in SUBSET Readers
    BY <1>0 DEF MtTypes
  <2>. QED BY <2>1, MaintenanceAssumption, FS_Subset
<1>p. PICK pg : pg = NextPage(b)
  OBVIOUS
<1>2. /\ pg \in SUBSET after
      /\ after # {} => pg # {}
      /\ \A u \in pg, v \in after : v < u => v \in pg
  <2>1. pg = FirstOf(after, NoticePage)
    BY <1>p DEF NextPage
  <2>2. pg \in SUBSET after
    BY <2>1 DEF FirstOf
  <2> HIDE DEF after
  <2>. QED BY <1>1, <2>1, <2>2, FirstPage, MaintenanceAssumption
<1>r. PICK t : t = [mtask[b] EXCEPT !.page = pg, !.pc = IF pg = {} THEN "sent" ELSE "send"]
  OBVIOUS
<1>3. mtask' = [mtask EXCEPT ![b] = t] /\ UNCHANGED <<mrow, mem, staleCopy, readers, switches, notices>>
  BY <1>p, <1>r DEF TakePage
<1>4. /\ t \in TaskState /\ t.n = mtask[b].n /\ t.seen = mtask[b].seen /\ t.owed = mtask[b].owed /\ t.page = pg
      /\ t.pc = IF pg = {} THEN "sent" ELSE "send"
  <2>1. pg \in SUBSET Readers
    BY <1>1, <1>2
  <2>. QED BY <1>a, <1>r, <2>1 DEF TaskState
<1>5. Broadcast(t)
  <2>1. t.owed \subseteq readers /\ \A u \in t.owed : u <= t.seen => notices[u][t.n] = 1
    BY <1>a, <1>4 DEF Broadcast
  <2>2. \A u \in Readers : u > t.seen => notices[u][t.n] = 0
    BY <1>a, <1>4 DEF Broadcast
  <2>3. \A u \in pg : u > t.seen /\ u \in Nat
    BY <1>1, <1>2, <1>4
  <2>4. ASSUME NEW v \in t.owed, v > t.seen, v \notin pg PROVE \A u \in pg : u < v
    <3>1. v \in after /\ v \in Nat
      BY <1>1, <1>4, <2>1, <2>4
    <3>. QED BY <1>2, <2>3, <2>4, <3>1
  <2>5. ASSUME pg = {}, NEW u \in t.owed PROVE u <= t.seen
    <3>1. u \notin after
      BY <1>2, <2>5
    <3>2. u \in Nat /\ t.seen \in Nat /\ ~(u > t.seen)
      BY <1>0, <1>4, <2>1, <3>1, MaintenanceAssumption DEF MtTypes, TaskState
    <3>. QED BY <3>2
  <2>. QED BY <1>4, <2>1, <2>2, <2>3, <2>4, <2>5 DEF Broadcast
<1>6. MtTypes' /\ NumberInv' /\ BroadcastInv'
  BY <1>a, <1>3, <1>4, <1>5, TaskMoves
<1>7. GateInv'
  <2>1. \A c \in Bosses : mtask'[c].pc # "read" => mtask[c].pc # "read"
    BY <1>0, <1>a, <1>3 DEF MtTypes
  <2>. QED BY <1>0, <1>3, <2>1 DEF GateInv
<1>. QED BY <1>6, <1>7 DEF MtInv


\* A notice goes to the next id of the page, who had none of this switch.
LEMMA NoticeKeeps ==
  ASSUME MtInv, NEW b \in Bosses, NEW u \in Readers, NEW ok \in BOOLEAN, SendNotice(b, u, ok)
  PROVE  MtInv'
<1>0. MtTypes /\ GateInv /\ NumberInv /\ BroadcastInv
  BY DEF MtInv
<1>a. mtask[b] \in TaskState /\ Broadcast(mtask[b]) /\ mtask[b].pc = "send"
  BY <1>0 DEF MtTypes, BroadcastInv, SendNotice
<1>n. \A v \in Readers : v \in Nat
  BY MaintenanceAssumption
<1> DEFINE old == mtask[b]
           rest == old.page \ {u}
<1>r. PICK t : t = [old EXCEPT !.seen = u, !.page = rest, !.owed = IF ok THEN @ ELSE @ \ {u},
                               !.pc = IF rest = {} THEN "page" ELSE "send"]
  OBVIOUS
<1>1. /\ mtask' = [mtask EXCEPT ![b] = t] /\ UNCHANGED <<mrow, mem, staleCopy, readers, switches>>
      /\ notices' = IF ok THEN [notices EXCEPT ![u][old.n] = @ + 1] ELSE notices
      /\ u \in old.page /\ \A v \in old.page : u <= v
  BY <1>r DEF SendNotice
<1>2. /\ t \in TaskState /\ t.n = old.n /\ t.seen = u /\ t.page = rest
      /\ t.owed = IF ok THEN old.owed ELSE old.owed \ {u}
      /\ t.pc = IF rest = {} THEN "page" ELSE "send"
  BY <1>a, <1>n, <1>r DEF TaskState
<1>3. old.n \in 1 .. switches /\ old.n \in 1 .. MaxSwitches /\ u > old.seen /\ notices[u][old.n] = 0
  <2>1. old.n \in 1 .. switches
    BY <1>0, <1>a DEF NumberInv
  <2>2. u > old.seen /\ notices[u][old.n] = 0
    BY <1>a, <1>1 DEF Broadcast
  <2>. QED BY <1>0, <2>1, <2>2, MaintenanceAssumption DEF MtTypes
<1>4. /\ \A v \in Readers, m \in 1 .. MaxSwitches :
             v # u \/ m # old.n => notices'[v][m] = notices[v][m]
      /\ notices'[u][old.n] = IF ok THEN 1 ELSE 0
      /\ notices' \in [Readers -> [1 .. MaxSwitches -> Nat]]
  <2>1. notices \in [Readers -> [1 .. MaxSwitches -> Nat]]
    BY <1>0 DEF MtTypes
  <2>2. CASE ok
    <3>1. notices' = [notices EXCEPT ![u] = [notices[u] EXCEPT ![old.n] = 1]]
      BY <1>1, <1>3, <2>2
    <3>2. [notices[u] EXCEPT ![old.n] = 1] \in [1 .. MaxSwitches -> Nat]
      BY <2>1
    <3>. QED BY <1>3, <2>1, <2>2, <3>1, <3>2
  <2>3. CASE ~ok
    BY <1>1, <1>3, <2>1, <2>3
  <2>. QED BY <2>2, <2>3
<1>5. mtask'[b] = t /\ \A c \in Bosses : c # b => mtask'[c] = mtask[c]
  BY <1>0, <1>1 DEF MtTypes
<1>6. MtTypes'
  BY <1>0, <1>1, <1>2, <1>4 DEF MtTypes
<1>7. GateInv'
  <2>1. \A c \in Bosses : mtask'[c].pc # "read" => mtask[c].pc # "read"
    BY <1>a, <1>5
  <2>. QED BY <1>0, <1>1, <2>1 DEF GateInv
<1>8. NumberInv'
  <2>1. \A v \in Readers, m \in 1 .. MaxSwitches : notices'[v][m] <= 1 /\ (m > switches => notices'[v][m] = 0)
    <3>1. \A v \in Readers, m \in 1 .. MaxSwitches : notices[v][m] <= 1 /\ (m > switches => notices[v][m] = 0)
      BY <1>0 DEF NumberInv
    <3>2. ~(old.n > switches)
      BY <1>0, <1>3, MaintenanceAssumption DEF MtTypes
    <3>. QED BY <1>4, <3>1, <3>2
  <2>2. \A c \in Bosses : mtask'[c].pc # "idle" => mtask'[c].n \in 1 .. switches
    BY <1>0, <1>2, <1>3, <1>5 DEF NumberInv
  <2>3. \A c, d \in Bosses : c # d /\ mtask'[c].pc # "idle" /\ mtask'[d].pc # "idle" => mtask'[c].n # mtask'[d].n
    BY <1>0, <1>a, <1>2, <1>5 DEF NumberInv
  <2>. QED BY <1>1, <2>1, <2>2, <2>3 DEF NumberInv
<1>9. BroadcastInv'
  <2>1. Broadcast(mtask[b])'
    <3>1. \A v \in Readers : v > u => notices'[v][old.n] = 0
      BY <1>a, <1>n, <1>3, <1>4 DEF Broadcast, TaskState
    <3>2. t.owed \subseteq readers /\ t.owed \subseteq Readers
      BY <1>0, <1>a, <1>2 DEF Broadcast, MtTypes
    <3>3. ASSUME NEW v \in t.owed, v <= u PROVE notices'[v][old.n] = 1
      <4>1. v \in Readers /\ v \in Nat /\ v \in old.owed /\ old.seen \in Nat
        BY <1>a, <1>n, <1>2, <3>2 DEF TaskState
      <4>2. CASE v = u
        BY <1>2, <1>4, <4>2
      <4>3. CASE v # u /\ v <= old.seen
        BY <1>a, <1>3, <1>4, <4>1, <4>3 DEF Broadcast
      <4>4. CASE v # u /\ v > old.seen
        <5>1. v \in old.page \/ u < v
          BY <1>a, <1>1, <4>1, <4>4 DEF Broadcast
        <5>. QED BY <1>1, <3>3, <4>1, <4>4, <5>1, <1>n
      <4>. QED BY <4>1, <4>2, <4>3, <4>4
    <3>4. \A v \in rest : v > u
      <4>1. \A v \in rest : v \in Nat /\ u <= v /\ v # u
        BY <1>a, <1>n, <1>1 DEF TaskState
      <4>. QED BY <1>n, <4>1
    <3>5. ASSUME NEW v \in t.owed, v > u PROVE v \in rest \/ \A w \in rest : w < v
      <4>1. v \in Readers /\ v \in Nat /\ v \in old.owed /\ old.seen \in Nat /\ u \in Nat
        BY <1>a, <1>n, <1>2, <3>2 DEF TaskState
      <4>2. v > old.seen /\ v # u
        BY <1>3, <3>5, <4>1
      <4>3. v \in old.page \/ \A w \in old.page : w < v
        BY <1>a, <4>1, <4>2 DEF Broadcast
      <4>. QED BY <4>2, <4>3
    <3>6. readers' = readers
      BY <1>1
    <3>. QED BY <1>2, <1>5, <3>1, <3>2, <3>3, <3>4, <3>5, <3>6 DEF Broadcast
  <2>2. ASSUME NEW c \in Bosses, c # b PROVE Broadcast(mtask[c])'
    <3>1. Broadcast(mtask[c]) /\ mtask'[c] = mtask[c] /\ readers' = readers
      BY <1>0, <1>1, <1>5, <2>2 DEF BroadcastInv
    <3>2. CASE mtask[c].pc = "idle"
      BY <3>1, <3>2 DEF Broadcast
    <3>3. CASE mtask[c].pc # "idle"
      <4>1. mtask[c].n \in 1 .. MaxSwitches /\ mtask[c].n # old.n
        BY <1>0, <1>a, <2>2, <3>3, MaintenanceAssumption DEF NumberInv, MtTypes
      <4>2. \A v \in Readers : notices'[v][mtask[c].n] = notices[v][mtask[c].n]
        BY <1>4, <4>1
      <4>3. mtask[c].owed \subseteq Readers
        BY <1>0 DEF MtTypes, TaskState
      <4>. QED BY <3>1, <4>2, <4>3 DEF Broadcast
    <3>. QED BY <3>2, <3>3
  <2>. QED BY <2>1, <2>2 DEF BroadcastInv
<1>. QED BY <1>6, <1>7, <1>8, <1>9 DEF MtInv

\* Who comes or goes is owed nothing any more; a restart ends every switch.
LEMMA UsersKeep ==
  ASSUME MtInv, MtCrash \/ \E u \in Readers : ReaderChanges(u)
  PROVE  MtInv'
<1>0. MtTypes /\ GateInv /\ NumberInv /\ BroadcastInv
  BY DEF MtInv
<1>1. CASE MtCrash
  <2>1. /\ mem' = mrow /\ mrow' = mrow /\ mtask' = [b \in Bosses |-> NoSwitch]
        /\ UNCHANGED <<readers, notices, switches>>
    BY <1>1 DEF MtCrash
  <2>2. NoSwitch \in TaskState /\ NoSwitch.pc = "idle"
    BY DEF NoSwitch, TaskState, Disabled, State, Banners
  <2>3. MtTypes' /\ GateInv'
    BY <1>0, <2>1, <2>2 DEF MtTypes, GateInv
  <2>4. NumberInv' /\ BroadcastInv'
    BY <1>0, <2>1, <2>2 DEF NumberInv, BroadcastInv, Broadcast
  <2>. QED BY <2>3, <2>4 DEF MtInv
<1>2. ASSUME NEW u \in Readers, ReaderChanges(u) PROVE MtInv'
  <2>1. /\ readers' = IF u \in readers THEN readers \ {u} ELSE readers \cup {u}
        /\ mtask' = [b \in Bosses |-> [mtask[b] EXCEPT !.owed = @ \ {u}]]
        /\ UNCHANGED <<mrow, mem, notices, switches, staleCopy>>
    BY <1>2 DEF ReaderChanges
  <2>2. ASSUME NEW b \in Bosses
        PROVE  /\ mtask'[b] \in TaskState /\ mtask'[b].pc = mtask[b].pc /\ mtask'[b].n = mtask[b].n
               /\ mtask'[b].seen = mtask[b].seen /\ mtask'[b].page = mtask[b].page
               /\ mtask'[b].owed = mtask[b].owed \ {u}
    <3>1. mtask[b] \in TaskState
      BY <1>0 DEF MtTypes
    <3>. QED BY <2>1, <3>1 DEF TaskState
  <2>3. MtTypes'
    BY <1>0, <2>1, <2>2 DEF MtTypes
  <2>6. \A b \in Bosses : mtask'[b].pc = mtask[b].pc /\ mtask'[b].n = mtask[b].n
    BY <2>2
  <2>7. GateInv'
    BY <1>0, <2>1, <2>6 DEF GateInv
  <2>8. NumberInv'
    BY <1>0, <2>1, <2>6 DEF NumberInv
  <2>4. GateInv' /\ NumberInv'
    BY <2>7, <2>8
  <2>5. BroadcastInv'
    <3>1. ASSUME NEW b \in Bosses PROVE Broadcast(mtask[b])'
      <4>1. Broadcast(mtask[b])
        BY <1>0 DEF BroadcastInv
      <4>. QED BY <2>1, <2>2, <4>1 DEF Broadcast
    <3>. QED BY <3>1 DEF BroadcastInv
  <2>. QED BY <2>3, <2>4, <2>5 DEF MtInv
<1>. QED BY <1>1, <1>2

\* The panel's buttons.
LEMMA PanelKeeps ==
  ASSUME MtInv, NEW b \in Bosses,
         OpenPanel(b) \/ EnableStart(b) \/ EnableMessage(b) \/ EnableDefault(b) \/ DisableMode(b)
  PROVE  MtInv'
<1>1. CASE OpenPanel(b) \/ EnableStart(b)
  BY <1>1, MtFrame DEF OpenPanel, EnableStart
<1>2. \A on \in BOOLEAN, banner \in Banners : State(on, banner) \in [enabled : BOOLEAN, message : Banners]
  BY DEF State
<1>3. CASE EnableMessage(b) \/ EnableDefault(b) \/ DisableMode(b)
  <2>1. "default" \in Banners
    BY DEF Banners
  <2>2. \E want \in [enabled : BOOLEAN, message : Banners] : Switch(b, want) /\ mtask[b].pc = "idle"
    BY <1>2, <1>3, <2>1 DEF EnableMessage, EnableDefault, DisableMode, Disabled, Idle
  <2>. QED BY <2>2, SwitchKeeps
<1>. QED BY <1>1, <1>3

\* However the switches of two superadmins, users and crashes interleave: the gate
\* ends up with the row unless the read after the last write failed, and a
\* broadcast that ends has reached everyone who could be told throughout, and
\* nobody twice (MaintenanceService.enable, disable and load, send_text_to_all).
THEOREM Gate == MtSpec => []MaintenanceHolds
<1>1. MtInit => MtInv
  BY MtStarts
<1>2. ASSUME MtInv, [MtNext]_mtVars PROVE MtInv'
  <2>1. CASE UNCHANGED mtVars
    BY <1>2, <2>1, MtFrame DEF mtVars
  <2>2. ASSUME NEW u \in Readers, ReaderUpdate(u) PROVE MtInv'
    BY <1>2, <2>2, MtFrame DEF ReaderUpdate
  <2>3. ASSUME NEW b \in Bosses, SwitchDone(b) PROVE MtInv'
    BY <1>2, <2>3, RowKeeps
  <2>. QED BY <1>2, <2>1, <2>2, <2>3, PanelKeeps, RowKeeps, TakePageKeeps, NoticeKeeps, UsersKeep DEF MtNext
<1>3. MtInv => MaintenanceHolds
  <2>1. MtInv => GateFollowsRow
    BY DEF MtInv, GateInv, GateFollowsRow
  <2>2. ASSUME MtInv PROVE NoticesAreExact
    <3>1. \A b \in Bosses : mtask[b].pc = "sent" => \A u \in mtask[b].owed : notices[u][mtask[b].n] = 1
      BY <2>2 DEF MtInv, BroadcastInv, Broadcast
    <3>. QED BY <2>2, <3>1 DEF MtInv, NumberInv, NoticesAreExact
  <2>. QED BY <2>1, <2>2 DEF MaintenanceHolds
<1>. QED BY <1>1, <1>2, <1>3, PTL DEF MtSpec

-----------------------------------------------------------------------------
(* Access requests and trials                                              *)

Asking == [user : Guests, at : Nat, status : {"pending", "approved", "rejected"}]
Trying == [user : Guests, at : Nat, status : {"pending", "approved", "rejected"}, key : Nat]

Keying == [req : Nat, live : BOOLEAN]
Deciding == [pc : {"none", "issue", "record", "rollback"}, req : Nat, key : Nat]

AskTypes ==
  /\ clock \in Nat /\ asked \in Seq(Asking) /\ trials \in Seq(Trying)
  /\ trialKeys \in Seq(Keying)
  /\ decision \in Deciding
  /\ askFaults \in Nat /\ askCrashes \in Nat

\* The request whose approval is under way is pending, and the key it got is one
\* of its own; every key was issued for a request.
DecisionInv ==
  /\ decision.pc # "none" => decision.req \in DOMAIN trials /\ trials[decision.req].status = "pending"
  /\ decision.pc \in {"record", "rollback"} =>
       decision.key \in DOMAIN trialKeys /\ trialKeys[decision.key].req = decision.req
  /\ decision.pc = "rollback" => askFaults >= 1
  /\ \A k \in DOMAIN trialKeys : trialKeys[k].req \in DOMAIN trials

LiveOf(i) == {k \in DOMAIN trialKeys : trialKeys[k].req = i /\ trialKeys[k].live}

\* The key of the approval under way, whose fate is open.
Open == IF decision.pc \in {"record", "rollback"} THEN {decision.key} ELSE {}

Half(f) == f \div 2

\* A failing record is half of what leaves a key behind: it pays with the failing
\* rollback.
Left == askCrashes + Half(IF decision.pc = "rollback" THEN askFaults - 1 ELSE askFaults)

\* But for the open one, only an approved request has a key of its own; any other
\* live key was left behind by a crash or a failed rollback.
SpareInv ==
  \A i \in DOMAIN trials :
    Cardinality(LiveOf(i) \ Open) <= Left + (IF trials[i].status = "approved" THEN 1 ELSE 0)

TrialInv == AskTypes /\ DecisionInv /\ SpareInv

\* Halves of the number of faults.
LEMMA Halves ==
  /\ \A f \in Nat : Half(f) \in Nat /\ Half(f) <= Half(f + 1)
  /\ \A f \in Nat : f >= 1 => (f - 1) \in Nat /\ Half(f - 1) + 1 = Half(f + 1) /\ Half(f - 1) <= Half(f)
<1>1. \A f \in Nat : f \div 2 \in Nat /\ f \div 2 <= (f + 1) \div 2
  OBVIOUS
<1>2. \A f \in Nat : f >= 1 => (f - 1) \in Nat /\ (f - 1) \div 2 + 1 = (f + 1) \div 2 /\ (f - 1) \div 2 <= f \div 2
  OBVIOUS
<1>. QED BY <1>1, <1>2 DEF Half

\* A sequence some of whose elements are replaced is one.
LEMMA Replaced ==
  ASSUME NEW S, NEW s \in Seq(S), NEW f \in [DOMAIN s -> S]
  PROVE  f \in Seq(S)
<1>1. DOMAIN s = 1 .. Len(s) /\ Len(s) \in Nat
  OBVIOUS
<1>2. f \in [1 .. Len(s) -> S]
  BY <1>1
<1>. QED BY <1>1, <1>2

\* The same for one place.
LEMMA ReplacedAt ==
  ASSUME NEW S, NEW s \in Seq(S), NEW x, NEW e, x \in DOMAIN s => e \in S
  PROVE  [s EXCEPT ![x] = e] \in Seq(S)
<1>1. s \in [DOMAIN s -> S]
  OBVIOUS
<1>2. [s EXCEPT ![x] = e] \in [DOMAIN s -> S]
  BY <1>1
<1>. QED BY <1>2, Replaced

\* What appending changes, and what it leaves.
LEMMA Grown ==
  ASSUME NEW S, NEW s \in Seq(S), NEW e \in S
  PROVE  /\ Append(s, e) \in Seq(S) /\ Len(Append(s, e)) = Len(s) + 1 /\ Len(s) \in Nat
         /\ DOMAIN Append(s, e) = DOMAIN s \cup {Len(s) + 1} /\ Len(s) + 1 \notin DOMAIN s
         /\ Append(s, e)[Len(s) + 1] = e
         /\ \A i \in DOMAIN s : Append(s, e)[i] = s[i]
<1>1. /\ Append(s, e) \in Seq(S) /\ Len(Append(s, e)) = Len(s) + 1 /\ Len(s) \in Nat
      /\ DOMAIN s = 1 .. Len(s)
  BY AppendProperties
<1>2. DOMAIN Append(s, e) = 1 .. Len(s) + 1
  BY <1>1
<1>3. Append(s, e)[Len(s) + 1] = e /\ \A i \in DOMAIN s : Append(s, e)[i] = s[i]
  BY <1>1, AppendProperties
<1>. QED BY <1>1, <1>2, <1>3

\* The live keys of a request are finitely many, and any part of them no more.
LEMMA LiveFinite ==
  ASSUME AskTypes, NEW i
  PROVE  /\ IsFiniteSet(LiveOf(i)) /\ Cardinality(LiveOf(i)) \in Nat
         /\ \A T \in SUBSET LiveOf(i) : IsFiniteSet(T) /\ Cardinality(T) \in Nat /\ Cardinality(T) <= Cardinality(LiveOf(i))
<1>1. DOMAIN trialKeys = 1 .. Len(trialKeys) /\ Len(trialKeys) \in Nat
  BY DEF AskTypes
<1>2. IsFiniteSet(DOMAIN trialKeys)
  BY <1>1, FS_Interval
<1>3. IsFiniteSet(LiveOf(i))
  BY <1>2, FS_Subset DEF LiveOf
<1>. QED BY <1>3, FS_Subset, FS_CardinalityType

\* Nothing that the trials are made of changes.
LEMMA TrialFrame ==
  ASSUME TrialInv, AskTypes', UNCHANGED <<trials, trialKeys, decision, askFaults, askCrashes>>
  PROVE  TrialInv'
<1>1. DecisionInv'
  BY DEF TrialInv, DecisionInv
<1>2. SpareInv'
  BY DEF TrialInv, SpareInv, LiveOf, Open, Left
<1>. QED BY <1>1, <1>2 DEF TrialInv


\* Every step keeps the types.
LEMMA AskTypesKept ==
  ASSUME AskTypes, AskNext
  PROVE  AskTypes'
<1>1. ASSUME NEW u \in Guests, StartCommand(u) PROVE AskTypes'
  <2>1. [user |-> u, at |-> clock, status |-> "pending"] \in Asking
    BY DEF AskTypes, Asking
  <2>2. asked' \in Seq(Asking)
    BY <1>1, <2>1, Grown DEF StartCommand, CreateOrGetRequest, AskTypes
  <2>. QED BY <1>1, <2>2 DEF StartCommand, AskTypes, trialVars, boundVars
<1>2. ASSUME NEW u \in Guests,
             UserCard(u) \/ TrialRequestStart(u) \/ ResetTrialQuota(u)
      PROVE  AskTypes'
  BY <1>2 DEF UserCard, TrialRequestStart, ResetTrialQuota, AskTypes, trialVars, boundVars
<1>3. ASSUME NEW u \in Guests, TapApprove(u) \/ TapModerator(u) \/ TapUnblock(u) PROVE AskTypes'
  BY <1>3 DEF TapApprove, TapModerator, TapUnblock, SetRole, UnblockUser, AskTypes, trialVars, boundVars
<1>4. ASSUME NEW u \in Guests, TapBlock(u) PROVE AskTypes'
  <2>1. UNCHANGED <<clock, asked, trials, decision, askCrashes>>
    BY <1>4 DEF TapBlock, BlockUser
  <2>2. askFaults' \in Nat
    BY <1>4 DEF TapBlock, BlockUser, AskTrouble, AskTypes
  <2>3. trialKeys' \in Seq(Keying)
    <3>1. PICK S : trialKeys' = [k \in DOMAIN trialKeys |->
                        IF k \in S THEN [trialKeys[k] EXCEPT !.live = FALSE] ELSE trialKeys[k]]
      BY <1>4 DEF TapBlock, BlockUser
    <3>2. \A k \in DOMAIN trialKeys : trialKeys[k] \in Keying
      BY DEF AskTypes
    <3>3. \A r \in Keying : [r EXCEPT !.live = FALSE] \in Keying
      BY DEF Keying
    <3>4. trialKeys' \in [DOMAIN trialKeys -> Keying]
      BY <3>1, <3>2, <3>3
    <3>. QED BY <3>4, Replaced DEF AskTypes
  <2>. QED BY <2>1, <2>2, <2>3 DEF AskTypes
<1>5. ASSUME NEW u \in Guests, TrialRequestProto(u) PROVE AskTypes'
  <2>1. [user |-> u, at |-> clock, status |-> "pending", key |-> 0] \in Trying
    BY DEF AskTypes, Trying
  <2>2. trials' \in Seq(Trying)
    <3>1. trials' = trials \/ trials' = Append(trials, [user |-> u, at |-> clock, status |-> "pending", key |-> 0])
      BY <1>5 DEF TrialRequestProto, CreateTrialRequest
    <3>2. Append(trials, [user |-> u, at |-> clock, status |-> "pending", key |-> 0]) \in Seq(Trying)
      BY <2>1, Grown DEF AskTypes
    <3>. QED BY <3>1, <3>2 DEF AskTypes
  <2>. QED BY <1>5, <2>2 DEF TrialRequestProto, AskTypes, boundVars
<1>6. ASSUME NEW i \in DOMAIN asked, AccessDecision(i) PROVE AskTypes'
  <2>1. asked[i] \in Asking
    BY DEF AskTypes
  <2>2. \A s \in {"approved", "rejected"} : [asked[i] EXCEPT !.status = s] \in Asking
    BY <2>1 DEF Asking
  <2>3. PICK a \in Asking : asked' = [asked EXCEPT ![i] = a]
    <3>1. \/ asked' = [asked EXCEPT ![i] = [asked[i] EXCEPT !.status = "approved"]]
          \/ asked' = [asked EXCEPT ![i] = [asked[i] EXCEPT !.status = "rejected"]]
      BY <1>6 DEF AccessDecision, ApproveRequest, RejectRequest
    <3>. QED BY <2>2, <3>1
  <2>4. asked' \in [DOMAIN asked -> Asking]
    BY <2>3 DEF AskTypes
  <2>5. asked' \in Seq(Asking)
    BY <2>4, Replaced DEF AskTypes
  <2>. QED BY <1>6, <2>5 DEF AccessDecision, ApproveRequest, RejectRequest, AskTypes, trialVars, boundVars
<1>7. ASSUME NEW i \in DOMAIN trials, TakeTrial(i) PROVE AskTypes'
  <2>1. i \in Nat
    BY DEF AskTypes
  <2>. QED BY <1>7, <2>1 DEF TakeTrial, AskTypes, boundVars, Deciding
<1>8. ASSUME NEW i \in DOMAIN trials, RejectTrial(i) PROVE AskTypes'
  <2>1. trials[i] \in Trying
    BY DEF AskTypes
  <2>2. [trials[i] EXCEPT !.status = "rejected"] \in Trying
    BY <2>1 DEF Trying
  <2>3. trials' \in Seq(Trying)
    BY <1>8, <2>2 DEF RejectTrial, AskTypes
  <2>. QED BY <1>8, <2>3 DEF RejectTrial, AskTypes, boundVars
<1>9. ASSUME NEW k \in DOMAIN trialKeys, TrialKeyEnds(k) PROVE AskTypes'
  <2>1. [trialKeys[k] EXCEPT !.live = FALSE] \in Keying
    <3>1. trialKeys[k] \in Keying
      BY DEF AskTypes
    <3>. QED BY <3>1 DEF Keying
  <2>2. trialKeys' \in Seq(Keying)
    BY <1>9, <2>1, ReplacedAt DEF TrialKeyEnds, AskTypes
  <2>. QED BY <1>9, <2>2 DEF TrialKeyEnds, AskTypes, boundVars
<1>10. CASE IssueTrial
  <2>0. NoDecision \in Deciding
    BY DEF NoDecision, Deciding
  <2>1. trialKeys' \in Seq(Keying)
    <3>1. [req |-> decision.req, live |-> TRUE] \in Keying
      BY DEF AskTypes, Keying, Deciding
    <3>2. trialKeys' = trialKeys \/ trialKeys' = Append(trialKeys, [req |-> decision.req, live |-> TRUE])
      BY <1>10 DEF IssueTrial
    <3>3. Append(trialKeys, [req |-> decision.req, live |-> TRUE]) \in Seq(Keying)
      BY <3>1, Grown DEF AskTypes
    <3>. QED BY <3>2, <3>3 DEF AskTypes
  <2>2. Len(trialKeys') \in Nat
    BY <2>1
  <2>3. decision' \in Deciding
    BY <1>10, <2>0, <2>2 DEF IssueTrial, AskTypes, Deciding
  <2>4. askFaults' \in Nat /\ askCrashes' = askCrashes /\ clock' = clock /\ asked' = asked /\ trials' = trials
    BY <1>10 DEF IssueTrial, AskTrouble, AskTypes
  <2>. QED BY <2>1, <2>3, <2>4 DEF AskTypes
<1>11. CASE RecordTrial
  <2>0. NoDecision \in Deciding
    BY DEF NoDecision, Deciding
  <2>1. decision' \in Deciding
    BY <1>11, <2>0 DEF RecordTrial, AskTypes, Deciding
  <2>2. trials' \in Seq(Trying)
    <3>1. CASE trials' = trials
      BY <3>1 DEF AskTypes
    <3>2. CASE trials' = [trials EXCEPT ![decision.req] = [trials[decision.req] EXCEPT !.status = "approved", !.key = decision.key]]
      <4>1. \A r \in Trying : [r EXCEPT !.status = "approved", !.key = decision.key] \in Trying
        BY DEF AskTypes, Trying, Deciding
      <4>2. decision.req \in DOMAIN trials => trials[decision.req] \in Trying
        BY DEF AskTypes
      <4>. QED BY <3>2, <4>1, <4>2, ReplacedAt DEF AskTypes
    <3>. QED BY <1>11, <3>1, <3>2 DEF RecordTrial
  <2>4. askFaults' \in Nat /\ askCrashes' = askCrashes /\ clock' = clock /\ asked' = asked /\ trialKeys' = trialKeys
    BY <1>11 DEF RecordTrial, AskTrouble, AskTypes
  <2>. QED BY <2>1, <2>2, <2>4 DEF AskTypes
<1>12. CASE RollbackTrial
  <2>1. trialKeys' \in Seq(Keying)
    <3>1. CASE trialKeys' = trialKeys
      BY <3>1 DEF AskTypes
    <3>2. CASE trialKeys' = [trialKeys EXCEPT ![decision.key] = [trialKeys[decision.key] EXCEPT !.live = FALSE]]
      <4>1. \A r \in Keying : [r EXCEPT !.live = FALSE] \in Keying
        BY DEF Keying
      <4>2. decision.key \in DOMAIN trialKeys => trialKeys[decision.key] \in Keying
        BY DEF AskTypes
      <4>. QED BY <3>2, <4>1, <4>2, ReplacedAt DEF AskTypes
    <3>. QED BY <1>12, <3>1, <3>2 DEF RollbackTrial
  <2>2. askFaults' \in Nat /\ askCrashes' = askCrashes /\ clock' = clock /\ asked' = asked /\ trials' = trials
    BY <1>12 DEF RollbackTrial, AskTrouble, AskTypes
  <2>3. decision' \in Deciding
    BY <1>12 DEF RollbackTrial, NoDecision, Deciding
  <2>. QED BY <2>1, <2>2, <2>3 DEF AskTypes
<1>13. CASE AskTick \/ AskCrash
  <2>1. NoDecision \in Deciding
    BY DEF NoDecision, Deciding
  <2>. QED BY <1>13, <2>1 DEF AskTick, AskCrash, AskTypes, trialVars, boundVars
<1>. QED BY <1>1, <1>2, <1>3, <1>4, <1>5, <1>6, <1>7, <1>8, <1>9, <1>10, <1>11, <1>12, <1>13
         DEF AskNext, TrialDecision

\* What is left of a budget when only faults were added.
LEMMA LeftGrows ==
  ASSUME AskTypes, DecisionInv, decision' = decision, askCrashes' = askCrashes,
         askFaults' \in {askFaults, askFaults + 1}
  PROVE  Left \in Nat /\ Left' \in Nat /\ Left <= Left'
<1>1. PICK f \in Nat : f = IF decision.pc = "rollback" THEN askFaults - 1 ELSE askFaults
  BY DEF DecisionInv, AskTypes
<1>2. Left = askCrashes + Half(f) /\ (Left' = askCrashes + Half(f) \/ Left' = askCrashes + Half(f + 1))
  <2>1. (IF decision'.pc = "rollback" THEN askFaults' - 1 ELSE askFaults') \in {f, f + 1}
    <3>1. CASE decision.pc = "rollback"
      <4>1. askFaults \in Nat /\ f = askFaults - 1 /\ decision'.pc = "rollback"
        BY <1>1, <3>1 DEF AskTypes
      <4>2. askFaults' - 1 = askFaults - 1 \/ askFaults' - 1 = askFaults
        <5>1. CASE askFaults' = askFaults
          BY <5>1
        <5>2. CASE askFaults' = askFaults + 1
          <6>1. (askFaults + 1) - 1 = askFaults
            BY <4>1
          <6>. QED BY <5>2, <6>1
        <5>. QED BY <5>1, <5>2
      <4>3. f + 1 = askFaults
        BY <4>1
      <4>. QED BY <4>1, <4>2, <4>3
    <3>2. CASE decision.pc # "rollback"
      <4>1. askFaults \in Nat /\ f = askFaults /\ decision'.pc # "rollback"
        BY <1>1, <3>2 DEF AskTypes
      <4>. QED BY <4>1
    <3>. QED BY <3>1, <3>2
  <2>. QED BY <1>1, <2>1 DEF Left
<1>3. Half(f) \in Nat /\ Half(f + 1) \in Nat /\ Half(f) <= Half(f + 1) /\ askCrashes \in Nat
  <2>1. f + 1 \in Nat /\ askCrashes \in Nat
    BY DEF AskTypes
  <2>. QED BY <2>1, Halves
<1>. QED BY <1>2, <1>3

\* Keys that end, one by one or in the sweep of a block, only shorten the count.
LEMMA KeysEnd ==
  ASSUME TrialInv, AskTypes', UNCHANGED <<trials, decision, askCrashes>>,
         askFaults' \in {askFaults, askFaults + 1},
         DOMAIN trialKeys' = DOMAIN trialKeys,
         \A k \in DOMAIN trialKeys :
           trialKeys'[k].req = trialKeys[k].req /\ (trialKeys'[k].live => trialKeys[k].live)
  PROVE  TrialInv'
<1>0. AskTypes /\ DecisionInv /\ SpareInv
  BY DEF TrialInv
<1>1. DecisionInv'
  <2>1. decision.pc = "rollback" => askFaults' >= 1
    BY <1>0 DEF DecisionInv, AskTypes
  <2>. QED BY <1>0, <2>1 DEF DecisionInv
<1>2. ASSUME NEW i \in DOMAIN trials
      PROVE  Cardinality(LiveOf(i)' \ Open') <= Left' + (IF trials[i].status = "approved" THEN 1 ELSE 0)
  <2>1. LiveOf(i)' \subseteq LiveOf(i) /\ Open' = Open
    BY DEF LiveOf, Open
  <2>2. IsFiniteSet(LiveOf(i) \ Open) /\ Cardinality(LiveOf(i) \ Open) \in Nat
    BY <1>0, LiveFinite
  <2>3. /\ Cardinality(LiveOf(i)' \ Open') <= Cardinality(LiveOf(i) \ Open)
        /\ Cardinality(LiveOf(i)' \ Open') \in Nat
    <3>1. LiveOf(i)' \ Open' \subseteq LiveOf(i) \ Open
      BY <2>1
    <3>. QED BY <2>2, <3>1, FS_Subset, FS_CardinalityType
  <2>4. Cardinality(LiveOf(i) \ Open) <= Left + (IF trials[i].status = "approved" THEN 1 ELSE 0)
    BY <1>0 DEF SpareInv
  <2>5. Left \in Nat /\ Left' \in Nat /\ Left <= Left'
    BY <1>0, LeftGrows
  <2>. QED BY <2>2, <2>3, <2>4, <2>5
<1>3. SpareInv'
  BY <1>2 DEF SpareInv
<1>. QED BY <1>1, <1>3 DEF TrialInv

\* A request is filed: no key was issued for its number.
LEMMA FiledKeeps ==
  ASSUME TrialInv, AskTypes', UNCHANGED <<trialKeys, decision, askFaults, askCrashes>>,
         NEW r \in Trying, trials' = Append(trials, r)
  PROVE  TrialInv'
<1>0. AskTypes /\ DecisionInv /\ SpareInv
  BY DEF TrialInv
<1>1. /\ DOMAIN trials' = DOMAIN trials \cup {Len(trials) + 1} /\ Len(trials) + 1 \notin DOMAIN trials
      /\ \A i \in DOMAIN trials : trials'[i] = trials[i]
  BY <1>0, Grown DEF AskTypes
<1>2. DecisionInv'
  BY <1>0, <1>1 DEF DecisionInv
<1>3. \A i : LiveOf(i)' = LiveOf(i)
  BY DEF LiveOf
<1>4. Open' = Open /\ Left' = Left /\ Left \in Nat
  BY <1>0, LeftGrows DEF Open, Left
<1>5. PICK n : n = Len(trials) + 1
  OBVIOUS
<1>6. LiveOf(n) \ Open = {}
  BY <1>0, <1>1, <1>5 DEF LiveOf, DecisionInv
<1>7. SpareInv'
  <2>1. ASSUME NEW i \in DOMAIN trials
        PROVE  Cardinality(LiveOf(i)' \ Open') <= Left' + (IF trials'[i].status = "approved" THEN 1 ELSE 0)
    BY <1>0, <1>1, <1>3, <1>4 DEF SpareInv
  <2>2. Cardinality(LiveOf(n)' \ Open') = 0
    BY <1>3, <1>4, <1>6, FS_EmptySet
  <2>3. Cardinality(LiveOf(n)' \ Open') <= Left' + (IF trials'[n].status = "approved" THEN 1 ELSE 0)
    BY <1>4, <2>2
  <2>. QED BY <1>1, <1>5, <2>1, <2>3 DEF SpareInv
<1>. QED BY <1>2, <1>7 DEF TrialInv

\* Decisions, up to the key: nothing is issued yet.
LEMMA TakeKeeps ==
  ASSUME TrialInv, AskTypes', NEW i \in DOMAIN trials, TakeTrial(i)
  PROVE  TrialInv'
<1>0. AskTypes /\ DecisionInv /\ SpareInv
  BY DEF TrialInv
<1>1. /\ decision.pc = "none" /\ decision' = [pc |-> "issue", req |-> i, key |-> 0]
      /\ trials[i].status = "pending" /\ UNCHANGED <<trials, trialKeys, askFaults, askCrashes>>
  BY DEF TakeTrial, boundVars
<1>2. DecisionInv'
  BY <1>0, <1>1 DEF DecisionInv
<1>3. Open = {} /\ Open' = {} /\ Left' = Left /\ \A j : LiveOf(j)' = LiveOf(j)
  BY <1>1 DEF Open, Left, LiveOf
<1>4. SpareInv'
  BY <1>0, <1>1, <1>3 DEF SpareInv
<1>. QED BY <1>2, <1>4 DEF TrialInv

\* A rejected request had at most what was left behind.
LEMMA RejectKeeps ==
  ASSUME TrialInv, AskTypes', NEW i \in DOMAIN trials, RejectTrial(i)
  PROVE  TrialInv'
<1>0. AskTypes /\ DecisionInv /\ SpareInv
  BY DEF TrialInv
<1>1. /\ decision.pc = "none" /\ trials[i].status = "pending"
      /\ trials' = [trials EXCEPT ![i] = [trials[i] EXCEPT !.status = "rejected"]]
      /\ UNCHANGED <<decision, trialKeys, askFaults, askCrashes>>
  BY DEF RejectTrial, boundVars
<1>2. DOMAIN trials' = DOMAIN trials /\ \A j \in DOMAIN trials : trials'[j].status = IF j = i THEN "rejected" ELSE trials[j].status
  <2>1. trials[i] \in Trying
    BY <1>0 DEF AskTypes
  <2>2. [trials[i] EXCEPT !.status = "rejected"].status = "rejected"
    BY <2>1 DEF Trying
  <2>. QED BY <1>0, <1>1, <2>2 DEF AskTypes
<1>3. DecisionInv'
  BY <1>0, <1>1, <1>2 DEF DecisionInv
<1>4. Open' = Open /\ Left' = Left /\ \A j : LiveOf(j)' = LiveOf(j)
  BY <1>1 DEF Open, Left, LiveOf
<1>5. SpareInv'
  BY <1>0, <1>1, <1>2, <1>4 DEF SpareInv
<1>. QED BY <1>3, <1>5 DEF TrialInv

\* The key is issued, and is open until its approval is recorded.
LEMMA IssueKeeps ==
  ASSUME TrialInv, AskTypes', IssueTrial
  PROVE  TrialInv'
<1>0. AskTypes /\ DecisionInv /\ SpareInv
  BY DEF TrialInv
<1>1. decision.pc = "issue" /\ Open = {} /\ UNCHANGED <<trials, askCrashes>>
  BY DEF IssueTrial, Open
<1>2. ASSUME trialKeys' = Append(trialKeys, [req |-> decision.req, live |-> TRUE]), UNCHANGED askFaults,
             decision' = [decision EXCEPT !.pc = "record", !.key = Len(trialKeys')]
      PROVE  TrialInv'
  <2>1. PICK n : n = Len(trialKeys) + 1
    OBVIOUS
  <2>2. [req |-> decision.req, live |-> TRUE] \in Keying
    BY <1>0 DEF AskTypes, Keying, Deciding
  <2>3. /\ DOMAIN trialKeys' = DOMAIN trialKeys \cup {n} /\ n \notin DOMAIN trialKeys
        /\ trialKeys'[n] = [req |-> decision.req, live |-> TRUE] /\ Len(trialKeys') = n
        /\ \A k \in DOMAIN trialKeys : trialKeys'[k] = trialKeys[k]
    BY <1>0, <1>2, <2>1, <2>2, Grown DEF AskTypes
  <2>4. decision'.pc = "record" /\ decision'.req = decision.req /\ decision'.key = n
    BY <1>0, <1>2, <2>3 DEF AskTypes, Deciding
  <2>5. DecisionInv'
    BY <1>0, <1>1, <2>3, <2>4 DEF DecisionInv
  <2>6. Open' = {n} /\ Left' = Left
    BY <1>1, <1>2, <2>4 DEF Open, Left
  <2>7. \A i : LiveOf(i)' \ Open' = LiveOf(i) \ Open
    BY <1>1, <2>3, <2>6 DEF LiveOf
  <2>8. SpareInv'
    BY <1>0, <1>1, <2>6, <2>7 DEF SpareInv
  <2>. QED BY <2>5, <2>8 DEF TrialInv
<1>3. ASSUME decision' = NoDecision, trialKeys' = trialKeys, askFaults' \in {askFaults, askFaults + 1}
      PROVE  TrialInv'
  <2>1. decision'.pc = "none"
    BY <1>3 DEF NoDecision
  <2>2. DecisionInv'
    BY <1>0, <1>1, <1>3, <2>1 DEF DecisionInv
  <2>3. Open' = {} /\ \A i : LiveOf(i)' = LiveOf(i)
    BY <1>3, <2>1 DEF Open, LiveOf
  <2>4. Left \in Nat /\ Left' \in Nat /\ Left <= Left'
    <3>1. Left = askCrashes + Half(askFaults) /\ Left' = askCrashes + Half(askFaults')
      BY <1>1, <2>1 DEF Left
    <3>2. askFaults \in Nat /\ askFaults' \in Nat /\ askCrashes \in Nat
      BY <1>0 DEF AskTypes
    <3>3. Half(askFaults) \in Nat /\ Half(askFaults') \in Nat /\ Half(askFaults) <= Half(askFaults + 1)
      BY <3>2, Halves
    <3>4. Half(askFaults) <= Half(askFaults')
      BY <1>3, <3>3
    <3>. QED BY <3>1, <3>2, <3>3, <3>4
  <2>5. ASSUME NEW i \in DOMAIN trials
        PROVE  Cardinality(LiveOf(i)' \ Open') <= Left' + (IF trials[i].status = "approved" THEN 1 ELSE 0)
    <3>1. Cardinality(LiveOf(i) \ Open) <= Left + (IF trials[i].status = "approved" THEN 1 ELSE 0)
      BY <1>0 DEF SpareInv
    <3>2. LiveOf(i)' \ Open' = LiveOf(i) \ Open /\ Cardinality(LiveOf(i) \ Open) \in Nat
      BY <1>0, <1>1, <2>3, LiveFinite
    <3>. QED BY <2>4, <3>1, <3>2
  <2>6. SpareInv'
    BY <1>1, <2>5 DEF SpareInv
  <2>. QED BY <2>2, <2>6 DEF TrialInv
<1>. QED BY <1>2, <1>3 DEF IssueTrial, AskTrouble

\* A key more is one more at most.
LEMMA OneMore ==
  ASSUME AskTypes, NEW i
  PROVE  /\ Cardinality(LiveOf(i) \ Open) \in Nat /\ Cardinality(LiveOf(i)) \in Nat
         /\ Cardinality(LiveOf(i)) <= Cardinality(LiveOf(i) \ Open) + 1
<1>1. IsFiniteSet(LiveOf(i)) /\ Cardinality(LiveOf(i)) \in Nat
  BY LiveFinite
<1>2. CASE decision.pc \in {"record", "rollback"}
  <2>1. Open = {decision.key}
    BY <1>2 DEF Open
  <2>2. /\ Cardinality(LiveOf(i) \ {decision.key}) =
             IF decision.key \in LiveOf(i) THEN Cardinality(LiveOf(i)) - 1 ELSE Cardinality(LiveOf(i))
        /\ IsFiniteSet(LiveOf(i) \ {decision.key})
    BY <1>1, FS_RemoveElement
  <2>3. Cardinality(LiveOf(i) \ Open) \in Nat
    BY <2>1, <2>2, FS_CardinalityType
  <2>. QED BY <1>1, <2>1, <2>2, <2>3
<1>3. CASE decision.pc \notin {"record", "rollback"}
  <2>1. LiveOf(i) \ Open = LiveOf(i)
    BY <1>3 DEF Open
  <2>. QED BY <1>1, <2>1
<1>. QED BY <1>2, <1>3

\* A recorded approval takes the open key for its own; a failing record leaves it
\* open for the rollback.
LEMMA RecordKeeps ==
  ASSUME TrialInv, AskTypes', RecordTrial
  PROVE  TrialInv'
<1>0. AskTypes /\ DecisionInv /\ SpareInv
  BY DEF TrialInv
<1>1. decision.pc = "record" /\ UNCHANGED <<trialKeys, askCrashes>> /\ \A i : LiveOf(i)' = LiveOf(i)
  BY DEF RecordTrial, LiveOf
<1>2. decision.req \in DOMAIN trials /\ trials[decision.req].status = "pending"
      /\ decision.key \in DOMAIN trialKeys /\ trialKeys[decision.key].req = decision.req
  BY <1>0, <1>1 DEF DecisionInv
<1>3. Left = askCrashes + Half(askFaults) /\ Left \in Nat
  <2>1. askFaults \in Nat /\ askCrashes \in Nat
    BY <1>0 DEF AskTypes
  <2>2. Left = askCrashes + Half(askFaults)
    BY <1>1 DEF Left
  <2>. QED BY <2>1, <2>2, Halves
<1>4. CASE /\ trials' = [trials EXCEPT ![decision.req] = [trials[decision.req] EXCEPT !.status = "approved", !.key = decision.key]]
           /\ decision' = NoDecision /\ UNCHANGED askFaults
  <2>1. decision'.pc = "none"
    BY <1>4 DEF NoDecision
  <2>2. /\ DOMAIN trials' = DOMAIN trials
        /\ \A j \in DOMAIN trials : trials'[j].status = IF j = decision.req THEN "approved" ELSE trials[j].status
    <3>1. trials[decision.req] \in Trying
      BY <1>0, <1>2 DEF AskTypes
    <3>2. [trials[decision.req] EXCEPT !.status = "approved", !.key = decision.key].status = "approved"
      BY <3>1 DEF Trying
    <3>. QED BY <1>0, <1>2, <1>4, <3>2 DEF AskTypes
  <2>3. DecisionInv'
    BY <1>0, <1>1, <2>1, <2>2 DEF DecisionInv
  <2>4. Open' = {} /\ Left' = Left
    BY <1>1, <1>4, <2>1 DEF Open, Left
  <2>5. ASSUME NEW i \in DOMAIN trials
        PROVE  Cardinality(LiveOf(i)' \ Open') <= Left' + (IF trials'[i].status = "approved" THEN 1 ELSE 0)
    <3>1. Cardinality(LiveOf(i) \ Open) <= Left + (IF trials[i].status = "approved" THEN 1 ELSE 0)
      BY <1>0 DEF SpareInv
    <3>2. CASE i = decision.req
      <4>1. /\ Cardinality(LiveOf(i)) <= Cardinality(LiveOf(i) \ Open) + 1
            /\ Cardinality(LiveOf(i) \ Open) \in Nat /\ Cardinality(LiveOf(i)) \in Nat
        BY <1>0, OneMore
      <4>2. Cardinality(LiveOf(i) \ Open) <= Left
        BY <1>2, <1>3, <3>1, <3>2
      <4>3. Cardinality(LiveOf(i)) <= Left + 1
        BY <1>3, <4>1, <4>2
      <4>4. LiveOf(i)' \ Open' = LiveOf(i) /\ trials'[i].status = "approved"
        BY <1>1, <2>2, <2>4, <3>2
      <4>. QED BY <2>4, <4>3, <4>4
    <3>3. CASE i # decision.req
      <4>1. LiveOf(i) \ Open = LiveOf(i)
        BY <1>1, <1>2, <3>3 DEF LiveOf, Open
      <4>. QED BY <1>1, <2>2, <2>4, <3>1, <3>3, <4>1
    <3>. QED BY <3>2, <3>3
  <2>6. SpareInv'
    BY <2>2, <2>5 DEF SpareInv
  <2>. QED BY <2>3, <2>6 DEF TrialInv
<1>5. CASE decision' = [decision EXCEPT !.pc = "rollback"] /\ askFaults' = askFaults + 1 /\ UNCHANGED trials
  <2>1. decision'.pc = "rollback" /\ decision'.req = decision.req /\ decision'.key = decision.key
    BY <1>0, <1>5 DEF AskTypes, Deciding
  <2>2. askFaults' >= 1 /\ askFaults' - 1 = askFaults
    <3>1. askFaults \in Nat /\ (askFaults + 1) - 1 = askFaults /\ askFaults + 1 >= 1
      BY <1>0 DEF AskTypes
    <3>. QED BY <1>5, <3>1
  <2>3. DecisionInv'
    BY <1>0, <1>1, <1>2, <1>5, <2>1, <2>2 DEF DecisionInv
  <2>4. Open' = Open /\ Left' = Left
    BY <1>1, <2>1, <2>2 DEF Open, Left
  <2>5. SpareInv'
    BY <1>0, <1>1, <1>5, <2>4 DEF SpareInv
  <2>. QED BY <2>3, <2>5 DEF TrialInv
<1>. QED BY <1>4, <1>5 DEF RecordTrial, AskTrouble

\* Two faults, or a crash, leave the open key behind.
LEMMA RollbackKeeps ==
  ASSUME TrialInv, AskTypes', RollbackTrial
  PROVE  TrialInv'
<1>0. AskTypes /\ DecisionInv /\ SpareInv
  BY DEF TrialInv
<1>1. decision.pc = "rollback" /\ decision' = NoDecision /\ decision'.pc = "none" /\ UNCHANGED <<trials, askCrashes>>
  BY DEF RollbackTrial, NoDecision
<1>2. decision.req \in DOMAIN trials /\ trials[decision.req].status = "pending" /\ askFaults >= 1
      /\ decision.key \in DOMAIN trialKeys /\ trialKeys[decision.key].req = decision.req
  BY <1>0, <1>1 DEF DecisionInv
<1>3. Left = askCrashes + Half(askFaults - 1) /\ Left' = askCrashes + Half(askFaults') /\ Open = {decision.key} /\ Open' = {}
  BY <1>1 DEF Left, Open
<1>4. askCrashes \in Nat /\ askFaults \in Nat /\ askFaults - 1 \in Nat /\ Half(askFaults - 1) \in Nat /\ Half(askFaults) \in Nat
      /\ Half(askFaults - 1) <= Half(askFaults) /\ Half(askFaults + 1) = Half(askFaults - 1) + 1
  BY <1>0, <1>2, Halves DEF AskTypes
<1>5. CASE trialKeys' = [trialKeys EXCEPT ![decision.key] = [trialKeys[decision.key] EXCEPT !.live = FALSE]] /\ UNCHANGED askFaults
  <2>1. /\ DOMAIN trialKeys' = DOMAIN trialKeys
        /\ trialKeys'[decision.key].req = decision.req /\ ~trialKeys'[decision.key].live
        /\ \A k \in DOMAIN trialKeys : k # decision.key => trialKeys'[k] = trialKeys[k]
    <3>1. trialKeys[decision.key] \in Keying
      BY <1>0, <1>2 DEF AskTypes
    <3>. QED BY <1>0, <1>2, <1>5, <3>1 DEF AskTypes, Keying
  <2>2. DecisionInv'
    BY <1>0, <1>1, <1>2, <2>1 DEF DecisionInv
  <2>3. \A i : LiveOf(i)' \ Open' = LiveOf(i) \ Open
    BY <1>2, <1>3, <2>1 DEF LiveOf
  <2>4. Left \in Nat /\ Left' \in Nat /\ Left <= Left'
    BY <1>3, <1>4, <1>5
  <2>5. ASSUME NEW i \in DOMAIN trials
        PROVE  Cardinality(LiveOf(i)' \ Open') <= Left' + (IF trials[i].status = "approved" THEN 1 ELSE 0)
    <3>1. Cardinality(LiveOf(i) \ Open) <= Left + (IF trials[i].status = "approved" THEN 1 ELSE 0)
      BY <1>0 DEF SpareInv
    <3>2. Cardinality(LiveOf(i) \ Open) \in Nat
      BY <1>0, OneMore
    <3>. QED BY <2>3, <2>4, <3>1, <3>2
  <2>6. SpareInv'
    BY <1>1, <2>5 DEF SpareInv
  <2>. QED BY <2>2, <2>6 DEF TrialInv
<1>6. CASE trialKeys' = trialKeys /\ askFaults' = askFaults + 1
  <2>1. DecisionInv'
    BY <1>0, <1>1, <1>6 DEF DecisionInv
  <2>2. Left' = Left + 1 /\ Left \in Nat /\ \A i : LiveOf(i)' = LiveOf(i)
    BY <1>3, <1>4, <1>6 DEF LiveOf
  <2>3. ASSUME NEW i \in DOMAIN trials
        PROVE  Cardinality(LiveOf(i)' \ Open') <= Left' + (IF trials[i].status = "approved" THEN 1 ELSE 0)
    <3>1. Cardinality(LiveOf(i) \ Open) <= Left + (IF trials[i].status = "approved" THEN 1 ELSE 0)
      BY <1>0 DEF SpareInv
    <3>2. /\ Cardinality(LiveOf(i) \ Open) \in Nat /\ Cardinality(LiveOf(i)) \in Nat
          /\ Cardinality(LiveOf(i)) <= Cardinality(LiveOf(i) \ Open) + 1
      BY <1>0, OneMore
    <3>3. LiveOf(i)' \ Open' = LiveOf(i)
      BY <1>3, <2>2
    <3>. QED BY <2>2, <3>1, <3>2, <3>3
  <2>4. SpareInv'
    BY <1>1, <2>3 DEF SpareInv
  <2>. QED BY <2>1, <2>4 DEF TrialInv
<1>. QED BY <1>5, <1>6 DEF RollbackTrial, AskTrouble

\* A restart leaves the open key behind, and counts for it.
LEMMA RestartKeeps ==
  ASSUME TrialInv, AskTypes', AskCrash
  PROVE  TrialInv'
<1>0. AskTypes /\ DecisionInv /\ SpareInv
  BY DEF TrialInv
<1>1. /\ decision'.pc = "none" /\ UNCHANGED <<trials, trialKeys, askFaults>>
      /\ askCrashes' = askCrashes + 1
  BY DEF AskCrash, NoDecision
<1>2. DecisionInv'
  BY <1>0, <1>1 DEF DecisionInv
<1>3. Left \in Nat /\ Left' \in Nat /\ Left + 1 <= Left'
  <2>1. PICK f \in Nat : f = IF decision.pc = "rollback" THEN askFaults - 1 ELSE askFaults
    BY <1>0 DEF DecisionInv, AskTypes
  <2>2. Half(f) <= Half(askFaults) /\ Half(f) \in Nat /\ Half(askFaults) \in Nat /\ askCrashes \in Nat
    <3>1. askFaults \in Nat /\ askCrashes \in Nat
      BY <1>0 DEF AskTypes
    <3>2. CASE decision.pc = "rollback"
      <4>1. askFaults >= 1 /\ f = askFaults - 1
        BY <1>0, <2>1, <3>2 DEF DecisionInv
      <4>. QED BY <3>1, <4>1, Halves
    <3>3. CASE decision.pc # "rollback"
      <4>1. f = askFaults
        BY <2>1, <3>3
      <4>2. Half(askFaults) \in Nat
        BY <3>1, Halves
      <4>. QED BY <3>1, <4>1, <4>2
    <3>. QED BY <3>2, <3>3
  <2>3. Left = askCrashes + Half(f) /\ Left' = (askCrashes + 1) + Half(askFaults)
    BY <1>1, <2>1 DEF Left
  <2>. QED BY <2>2, <2>3
<1>4. Open' = {} /\ \A i : LiveOf(i)' = LiveOf(i)
  BY <1>1 DEF Open, LiveOf
<1>5. ASSUME NEW i \in DOMAIN trials
      PROVE  Cardinality(LiveOf(i)' \ Open') <= Left' + (IF trials[i].status = "approved" THEN 1 ELSE 0)
  <2>1. Cardinality(LiveOf(i) \ Open) <= Left + (IF trials[i].status = "approved" THEN 1 ELSE 0)
    BY <1>0 DEF SpareInv
  <2>2. /\ Cardinality(LiveOf(i) \ Open) \in Nat /\ Cardinality(LiveOf(i)) \in Nat
        /\ Cardinality(LiveOf(i)) <= Cardinality(LiveOf(i) \ Open) + 1
    BY <1>0, OneMore
  <2>3. LiveOf(i)' \ Open' = LiveOf(i)
    BY <1>4
  <2>4. CASE trials[i].status = "approved"
    BY <1>3, <2>1, <2>2, <2>3, <2>4
  <2>5. CASE trials[i].status # "approved"
    BY <1>3, <2>1, <2>2, <2>3, <2>5
  <2>. QED BY <2>4, <2>5
<1>6. SpareInv'
  BY <1>1, <1>5 DEF SpareInv
<1>. QED BY <1>2, <1>6 DEF TrialInv

\* Nothing is filed at the start.
LEMMA TrialStarts == AskInit => TrialInv
<1> SUFFICES ASSUME AskInit PROVE TrialInv
  OBVIOUS
<1>1. AskTypes
  BY DEF AskInit, AskTypes, NoDecision, Deciding
<1>2. DecisionInv
  BY DEF AskInit, DecisionInv, NoDecision
<1>3. SpareInv
  BY DEF AskInit, SpareInv
<1>. QED BY <1>1, <1>2, <1>3 DEF TrialInv

\* The other steps decide no trial, or end keys.
LEMMA TrialStep == TrialInv /\ [AskNext]_askVars => TrialInv'
<1> SUFFICES ASSUME TrialInv, [AskNext]_askVars PROVE TrialInv'
  OBVIOUS
<1>0. AskTypes
  BY DEF TrialInv
<1>1. CASE UNCHANGED askVars
  <2>1. AskTypes'
    BY <1>0, <1>1 DEF askVars, AskTypes
  <2>. QED BY <1>1, <2>1, TrialFrame DEF askVars
<1>2. ASSUME AskNext PROVE TrialInv'
  <2>0. AskTypes'
    BY <1>0, <1>2, AskTypesKept
  <2>1. ASSUME NEW u \in Guests, StartCommand(u) \/ UserCard(u) \/ TrialRequestStart(u) \/ ResetTrialQuota(u)
        PROVE  TrialInv'
    BY <2>0, <2>1, TrialFrame DEF StartCommand, UserCard, TrialRequestStart, ResetTrialQuota, trialVars, boundVars
  <2>2. ASSUME NEW u \in Guests, TapApprove(u) \/ TapModerator(u) \/ TapUnblock(u) PROVE TrialInv'
    BY <2>0, <2>2, TrialFrame DEF TapApprove, TapModerator, TapUnblock, SetRole, UnblockUser, trialVars, boundVars
  <2>3. ASSUME NEW u \in Guests, TapBlock(u) PROVE TrialInv'
    <3>1. UNCHANGED <<trials, decision, askCrashes>> /\ askFaults' \in {askFaults, askFaults + 1}
      BY <2>3 DEF TapBlock, BlockUser, AskTrouble
    <3>2. PICK S : trialKeys' = [k \in DOMAIN trialKeys |->
                        IF k \in S THEN [trialKeys[k] EXCEPT !.live = FALSE] ELSE trialKeys[k]]
      BY <2>3 DEF TapBlock, BlockUser
    <3>3. \A k \in DOMAIN trialKeys : trialKeys[k] \in Keying
      BY <1>0 DEF AskTypes
    <3>4. DOMAIN trialKeys' = DOMAIN trialKeys /\ \A k \in DOMAIN trialKeys :
            trialKeys'[k].req = trialKeys[k].req /\ (trialKeys'[k].live => trialKeys[k].live)
      BY <3>2, <3>3 DEF Keying
    <3>. QED BY <2>0, <3>1, <3>4, KeysEnd
  <2>4. ASSUME NEW u \in Guests, TrialRequestProto(u) PROVE TrialInv'
    <3>0. UNCHANGED <<trialKeys, decision, askFaults, askCrashes>>
      BY <2>4 DEF TrialRequestProto, boundVars
    <3>1. CASE trials' = trials
      BY <2>0, <3>0, <3>1, TrialFrame
    <3>2. CASE trials' = Append(trials, [user |-> u, at |-> clock, status |-> "pending", key |-> 0])
      <4>1. [user |-> u, at |-> clock, status |-> "pending", key |-> 0] \in Trying
        BY <1>0 DEF AskTypes, Trying
      <4>. QED BY <2>0, <3>0, <3>2, <4>1, FiledKeeps
    <3>. QED BY <2>4, <3>1, <3>2 DEF TrialRequestProto, CreateTrialRequest
  <2>5. ASSUME NEW i \in DOMAIN asked, AccessDecision(i) PROVE TrialInv'
    BY <2>0, <2>5, TrialFrame DEF AccessDecision, ApproveRequest, RejectRequest, trialVars, boundVars
  <2>6. ASSUME NEW i \in DOMAIN trials, TrialDecision(i) PROVE TrialInv'
    BY <2>0, <2>6, TakeKeeps, RejectKeeps DEF TrialDecision
  <2>7. ASSUME NEW k \in DOMAIN trialKeys, TrialKeyEnds(k) PROVE TrialInv'
    <3>1. UNCHANGED <<trials, decision, askCrashes, askFaults>>
          /\ trialKeys' = [trialKeys EXCEPT ![k] = [trialKeys[k] EXCEPT !.live = FALSE]]
      BY <2>7 DEF TrialKeyEnds, boundVars
    <3>2. trialKeys[k] \in Keying
      BY <1>0 DEF AskTypes
    <3>3. [trialKeys[k] EXCEPT !.live = FALSE].req = trialKeys[k].req /\ ~[trialKeys[k] EXCEPT !.live = FALSE].live
      BY <3>2 DEF Keying
    <3>4. DOMAIN trialKeys' = DOMAIN trialKeys /\ \A j \in DOMAIN trialKeys :
            trialKeys'[j] = IF j = k THEN [trialKeys[k] EXCEPT !.live = FALSE] ELSE trialKeys[j]
      BY <1>0, <3>1 DEF AskTypes
    <3>5. \A j \in DOMAIN trialKeys :
            trialKeys'[j].req = trialKeys[j].req /\ (trialKeys'[j].live => trialKeys[j].live)
      BY <3>3, <3>4
    <3>. QED BY <2>0, <3>1, <3>4, <3>5, KeysEnd
  <2>8. CASE AskTick
    BY <2>0, <2>8, TrialFrame DEF AskTick, trialVars, boundVars
  <2>. QED BY <1>2, <2>0, <2>1, <2>2, <2>3, <2>4, <2>5, <2>6, <2>7, <2>8,
              IssueKeeps, RecordKeeps, RollbackKeeps, RestartKeeps DEF AskNext
<1>. QED BY <1>1, <1>2

\* For any number of guests, requests, faults and crashes a trial request has one
\* live key at most, but for one per crash and one per failed rollback
\* (approve_trial_request).
THEOREM Trial == AskSpec => []OneKeyPerTrial
<1>1. TrialInv => OneKeyPerTrial
  <2> SUFFICES ASSUME TrialInv, NEW i \in DOMAIN trials
               PROVE  Cardinality(LiveOf(i)) <= 1 + askCrashes + askFaults \div 2
    BY DEF OneKeyPerTrial, LiveOf
  <2>0. AskTypes /\ DecisionInv /\ SpareInv
    BY DEF TrialInv
  <2>1. Cardinality(LiveOf(i) \ Open) <= Left + (IF trials[i].status = "approved" THEN 1 ELSE 0)
    BY <2>0 DEF SpareInv
  <2>2. /\ Cardinality(LiveOf(i) \ Open) \in Nat /\ Cardinality(LiveOf(i)) \in Nat
        /\ Cardinality(LiveOf(i)) <= Cardinality(LiveOf(i) \ Open) + 1
    BY <2>0, OneMore
  <2>3. Left \in Nat /\ Left <= askCrashes + Half(askFaults) /\ Half(askFaults) \in Nat /\ askCrashes \in Nat
    <3>1. askFaults \in Nat /\ askCrashes \in Nat
      BY <2>0 DEF AskTypes
    <3>2. CASE decision.pc = "rollback"
      <4>1. askFaults >= 1 /\ Left = askCrashes + Half(askFaults - 1)
        BY <2>0, <3>2 DEF DecisionInv, Left
      <4>2. askFaults - 1 \in Nat /\ Half(askFaults - 1) \in Nat /\ Half(askFaults) \in Nat /\ Half(askFaults - 1) <= Half(askFaults)
        BY <3>1, <4>1, Halves
      <4>. QED BY <3>1, <4>1, <4>2
    <3>3. CASE decision.pc # "rollback"
      <4>1. Left = askCrashes + Half(askFaults) /\ Half(askFaults) \in Nat
        BY <3>1, <3>3, Halves DEF Left
      <4>. QED BY <3>1, <4>1
    <3>. QED BY <3>2, <3>3
  <2>4. CASE trials[i].status = "approved"
    <3>1. LiveOf(i) \ Open = LiveOf(i)
      BY <2>0, <2>4 DEF DecisionInv, Open, LiveOf
    <3>2. Cardinality(LiveOf(i)) <= 1 + askCrashes + Half(askFaults)
      BY <2>1, <2>2, <2>3, <2>4, <3>1
    <3>. QED BY <3>2 DEF Half
  <2>5. CASE trials[i].status # "approved"
    <3>1. Cardinality(LiveOf(i)) <= 1 + askCrashes + Half(askFaults)
      BY <2>1, <2>2, <2>3, <2>5
    <3>. QED BY <3>1 DEF Half
  <2>. QED BY <2>4, <2>5
<1>. QED BY <1>1, TrialStarts, TrialStep, PTL DEF AskSpec

\* The requests keep their shape.
LEMMA AskedTypes == AskSpec => []AskTypes
<1>1. TrialInv => AskTypes
  BY DEF TrialInv
<1>. QED BY <1>1, TrialStarts, TrialStep, PTL DEF AskSpec

\* No approval of any request lifts a block that is not older than the request
\* (approve_access_request_user).
THEOREM StaleApproval == AskSpec => StaleApprovalKeepsBlock
<1>1. ASSUME AskTypes, [AskNext]_askVars, NEW i \in DOMAIN asked,
             asked'[i].status = "approved", asked[i].status = "pending", IsBlocked(asked[i].user)
      PROVE  asked[i].at > blockedAt[asked[i].user]
  <2>1. CASE asked' = asked
    BY <1>1, <2>1
  <2>2. ASSUME NEW u \in Guests, StartCommand(u) PROVE asked' = asked \/ asked'[i] = asked[i]
    <3>1. [user |-> u, at |-> clock, status |-> "pending"] \in Asking
      BY <1>1 DEF AskTypes, Asking
    <3>2. Append(asked, [user |-> u, at |-> clock, status |-> "pending"])[i] = asked[i]
      BY <1>1, <3>1, Grown DEF AskTypes
    <3>. QED BY <2>2, <3>2 DEF StartCommand, CreateOrGetRequest
  <2>3. ASSUME NEW j \in DOMAIN asked, ApproveRequest(j) PROVE asked[i].at > blockedAt[asked[i].user]
    <3>1. asked' = [asked EXCEPT ![j] = [asked[j] EXCEPT !.status = "approved"]]
      BY <2>3 DEF ApproveRequest
    <3>2. i = j
      BY <1>1, <3>1 DEF AskTypes
    <3>. QED BY <1>1, <2>3, <3>2 DEF ApproveRequest, RequestIsAfterBlock
  <2>4. ASSUME NEW j \in DOMAIN asked, RejectRequest(j) PROVE asked'[i].status # "approved"
    <3>1. asked' = [asked EXCEPT ![j] = [asked[j] EXCEPT !.status = "rejected"]]
      BY <2>4 DEF RejectRequest
    <3>2. [asked[j] EXCEPT !.status = "rejected"].status = "rejected"
      <4>1. asked[j] \in Asking
        BY <1>1 DEF AskTypes
      <4>. QED BY <4>1 DEF Asking
    <3>3. asked'[i] = IF i = j THEN [asked[j] EXCEPT !.status = "rejected"] ELSE asked[i]
      BY <1>1, <3>1 DEF AskTypes
    <3>. QED BY <1>1, <3>2, <3>3
  <2>5. ASSUME NEW u \in Guests,
               \/ UserCard(u) \/ TapApprove(u) \/ TapModerator(u) \/ TapBlock(u) \/ TapUnblock(u)
               \/ TrialRequestStart(u) \/ TrialRequestProto(u) \/ ResetTrialQuota(u)
        PROVE  asked' = asked
    BY <2>5 DEF UserCard, TapApprove, TapModerator, TapBlock, TapUnblock, SetRole, BlockUser, UnblockUser,
                TrialRequestStart, TrialRequestProto, ResetTrialQuota
  <2>6. ASSUME \/ UNCHANGED askVars \/ \E j \in DOMAIN trials : TrialDecision(j)
               \/ \E k \in DOMAIN trialKeys : TrialKeyEnds(k)
               \/ IssueTrial \/ RecordTrial \/ RollbackTrial \/ AskTick \/ AskCrash
        PROVE  asked' = asked
    BY <2>6 DEF askVars, TrialDecision, TakeTrial, RejectTrial, TrialKeyEnds, IssueTrial, RecordTrial,
                RollbackTrial, AskTick, AskCrash
  <2>. QED BY <1>1, <2>1, <2>2, <2>3, <2>4, <2>5, <2>6 DEF AskNext, AccessDecision
<1>2. AskTypes /\ [AskNext]_askVars =>
        \A i \in DOMAIN asked :
          asked'[i].status = "approved" /\ asked[i].status = "pending" /\ IsBlocked(asked[i].user)
            => asked[i].at > blockedAt[asked[i].user]
  BY <1>1
<1>. QED BY <1>2, AskedTypes, PTL DEF AskSpec, StaleApprovalKeepsBlock

-----------------------------------------------------------------------------
(* The wizards of a chat.  A deed is done with the number of its wizard, and *)
(* that number then leaves the data (Clear) or is refused by the limiter for *)
(* whoever captured it before (SpentInv).  While one update is answered at a *)
(* time a handler finds the screen it was dispatched on (Unmoved), and every *)
(* choice behind that screen is of the present wizard (Chosen).              *)

\* What the data is made of.
Fields == {"wiz", "kind", "owner", "relay", "fp", "mtu", "note", "days", "key", "bundle", "user", "nonce", "msg",
           "roles", "protos", "trs"}

\* The data has its fields, and its tags are numbers of the n wizards opened.
DataFine(d, n) ==
  /\ DOMAIN d = Fields
  /\ d.wiz \in 0..n /\ d.nonce \in 0..n
  /\ d.relay \in Nat /\ d.fp \in Nat /\ d.mtu \in Nat /\ d.note \in Nat /\ d.days \in Nat
  /\ d.key \in Nat /\ d.bundle \in Nat /\ d.user \in Nat /\ d.msg \in Nat

Doings == [what : {"key", "note", "fp", "usernote", "proxy", "announcement"}, wiz : Nat, used : SUBSET Nat, relay : Nat]

\* A task answers a screen that was shown; what it captured was the data of a moment.
TaskFine(t, n) ==
  /\ DOMAIN t = {"h", "f", "arg", "wiz", "pc", "cap"}
  /\ t.wiz \in 0..n /\ t.pc \in Nat
  /\ t.h = "confirm" /\ t.pc \in {1, 2} => DataFine(t.cap[1], n)
  /\ t.h = "usernoteinput" /\ t.pc = 2 => DataFine(t.cap[1], n)
  /\ t.h = "proxyconfirm" => t.arg \in 1..n

ChatTypes ==
  /\ wizNo \in Nat /\ races \in Nat /\ done \in Seq(Doings) /\ DataFine(data, wizNo)
  /\ DOMAIN tasks = Slots /\ \A s \in Slots : TaskFine(tasks[s], wizNo)

\* A task that will issue a key from data it has captured
Holding(t) == t.h = "confirm" /\ (t.pc = 2 \/ (t.pc = 1 /\ t.f # "admin"))

\* What a wizard did is no longer in the data; who still holds it will be refused.
SpentInv == \A i \in DOMAIN done :
  /\ done[i].wiz <= wizNo
  /\ done[i].what \in {"key", "announcement"} /\ done[i].wiz # 0 => data.wiz # done[i].wiz
  /\ done[i].what = "proxy" => done[i].wiz # 0 /\ data.nonce # done[i].wiz
  /\ done[i].what = "key" /\ done[i].wiz # 0 =>
       \A s \in Slots : Holding(tasks[s]) /\ tasks[s].cap[1].wiz = done[i].wiz => "create" \in cooling

\* One update at a time.
Serial == \A s, o \in Slots : s # o => tasks[s] = NoTask \/ tasks[o] = NoTask

Answered == {"profile", "bundlekind", "note", "route", "fp", "mtu", "mtucustom", "days", "dayscustom", "confirm", "type",
           "newnote", "savenote", "message", "send", "schedule"}

\* The screen a handler answers
StepsOf(h) ==
  CASE h \in Answered -> {h}
    [] h = "mtuask" -> {"mtu"} [] h = "daysask" -> {"days"} [] h = "vless" -> {"type", "profile"}
    [] h = "setfp" -> {"fp"} [] h = "usernoteinput" -> {"usernote"}
    [] h \in {"role", "rolesdone"} -> {"roles"} [] h \in {"proto", "backroles", "protosdone"} -> {"protos"}
    [] h \in {"tr", "backprotos", "trsdone"} -> {"trs"} [] h = "schedulerequest" -> {"send"}
    [] OTHER -> {}

\* In that case a handler finds the state it was dispatched in, and what it stored.
Stands(t, state, d, n) ==
  /\ t.pc # 0 => t.wiz = n
  /\ t.h = "confirm" => t.f \in {"own", "admin"}
  /\ t.h \in {"newnote", "savenote", "usernoteinput"} => t.f = "edit"
  /\ StepsOf(t.h) # {} /\ t.pc \in {1, 2} => state \in {At(t.f, step) : step \in StepsOf(t.h)}
  /\ t.h = "confirm" /\ (t.pc = 2 \/ (t.pc = 1 /\ t.f = "own")) => t.cap[1] = d
  /\ t.h = "usernoteinput" /\ t.pc = 2 => t.cap[1] = d
  /\ t.h \in {"note", "newnote"} /\ t.pc = 2 => d.note = d.wiz
  /\ t.h = "note" /\ t.pc = 2 => t.cap[1] = d.kind
  /\ t.h = "mtucustom" /\ t.pc = 2 => d.mtu = d.wiz
  /\ t.h \in {"days", "dayscustom"} /\ t.pc = 2 => d.days = d.wiz
Unmoved == \A s \in Slots : Stands(tasks[s], fsm, data, wizNo)

AsksFp(kind) == kind = "xray" \/ (kind = "bundle" /\ BundleAsksFp)
Noted == {"mtu", "mtucustom", "fp", "days", "dayscustom", "confirm"}

\* What the steps behind the present one have chosen is of this wizard.
Own(state, d) ==
  /\ state.flow \in {"own", "admin"} =>
       /\ state.step \in Noted \cup {"note"} /\ d.kind \in RelayProtocols => d.relay \in {0, d.wiz}
       /\ state.step = "route" => d.relay = 0
       /\ state.step \in Noted => d.note = d.wiz
       /\ state.step = "fp" => AsksFp(d.kind)
       /\ state.step \in {"mtu", "mtucustom"} => d.kind = "awg"
       /\ state.step \in {"days", "dayscustom", "confirm"} =>
            (AsksFp(d.kind) => d.fp = d.wiz) /\ (d.kind = "awg" => d.mtu = d.wiz)
       /\ state.step = "confirm" => d.days = d.wiz
  /\ state.flow = "edit" =>
       /\ state.step \in {"newnote", "savenote", "fp"} => EditTarget(d) = d.wiz
       /\ state.step = "savenote" => d.note = d.wiz
       /\ state.step = "usernote" => d.user = d.wiz
  /\ state.flow = "ann" =>
       /\ state.step \in {"send", "schedule"} => d.msg = d.wiz
       /\ state.step = "trs" => "xray" \in d.protos
       /\ state.step \in {"message", "send", "schedule"} /\ d.trs # {} => "xray" \in d.protos
Chosen ==
  /\ fsm = NoState => data = NoData
  /\ fsm # NoState => data.wiz = wizNo /\ wizNo # 0
  /\ Own(fsm, data)

Calm == Serial /\ Unmoved /\ Chosen /\ OwnChoicesOnly
OneByOne == races = 0 => Calm

ChatOnce == ChatTypes /\ SpentInv /\ OncePerWizard
ChatInv == ChatOnce /\ OneByOne

-----------------------------------------------------------------------------
(* One key per wizard.                                                     *)

\* What a step makes of the data's tag w: kept, emptied, or a new wizard's.
Tag(w, old) == w \in {old, 0} \/ (wizNo' = wizNo + 1 /\ w = wizNo + 1)

SlotMoves(s) ==
  \/ tasks'[s] = tasks[s]
  \/ TaskFine(tasks'[s], wizNo') /\ (Holding(tasks'[s]) => tasks'[s].cap[1].wiz = data.wiz)

\* A step that finishes no wizard and ends no rate-limit window.
Quiet ==
  /\ done' = done /\ cooling \subseteq cooling' /\ wizNo' \in {wizNo, wizNo + 1} /\ races' \in {races, races + 1}
  /\ DataFine(data', wizNo') /\ Tag(data'.wiz, data.wiz) /\ Tag(data'.nonce, data.nonce)
  /\ DOMAIN tasks' = Slots /\ \A s \in Slots : SlotMoves(s)

\* A step of slot s that finishes a wizard: what it did is new.
Finishes(s, r) ==
  /\ done' = Append(done, r) /\ r \in Doings /\ r.wiz <= wizNo
  /\ data' = NoData /\ cooling \subseteq cooling' /\ wizNo' = wizNo /\ races' = races
  /\ DOMAIN tasks' = Slots /\ TaskFine(tasks'[s], wizNo) /\ ~Holding(tasks'[s])
  /\ \A o \in Slots \ {s} : tasks'[o] = tasks[o]
  /\ r.what = "key" => "create" \in cooling'
  /\ r.what = "proxy" => r.wiz # 0
  /\ r.what \in {"key", "proxy", "announcement"} /\ r.wiz # 0 =>
       \A i \in DOMAIN done : done[i].what = r.what => done[i].wiz # r.wiz

\* Numbers of wizards only grow.
LEMMA FineGrows ==
  ASSUME NEW n \in Nat, NEW m \in Nat, n <= m
  PROVE /\ \A d : DataFine(d, n) => DataFine(d, m)
        /\ \A t : TaskFine(t, n) => TaskFine(t, m)
  <1>1. \A d : DataFine(d, n) => DataFine(d, m) BY DEF DataFine
  <1> QED BY <1>1 DEF TaskFine

\* The empty data and the empty slot are well formed.
LEMMA NothingFine ==
  ASSUME NEW n \in Nat
  PROVE DataFine(NoData, n) /\ TaskFine(NoTask, n) /\ ~Holding(NoTask)
  <1>1. DataFine(NoData, n) BY DEF DataFine, NoData, Fields
  <1> QED BY <1>1 DEF TaskFine, NoTask, Holding

\* A quiet step keeps every wizard to its one deed.
LEMMA QuietOnce == ASSUME ChatOnce, Quiet PROVE ChatOnce'
  <1> USE DEF ChatOnce, Quiet
  <1>0. wizNo \in Nat /\ wizNo' \in Nat /\ wizNo <= wizNo' BY DEF ChatTypes
  <1>1. ChatTypes'
    <2>1. \A s \in Slots : TaskFine(tasks'[s], wizNo')
      BY <1>0, FineGrows DEF ChatTypes, SlotMoves
    <2> QED BY <2>1 DEF ChatTypes
  <1>2. SpentInv'
    <2> SUFFICES ASSUME NEW i \in DOMAIN done
                 PROVE /\ done[i].wiz <= wizNo'
                       /\ done[i].what \in {"key", "announcement"} /\ done[i].wiz # 0 => data'.wiz # done[i].wiz
                       /\ done[i].what = "proxy" => done[i].wiz # 0 /\ data'.nonce # done[i].wiz
                       /\ done[i].what = "key" /\ done[i].wiz # 0 =>
                            \A s \in Slots : Holding(tasks'[s]) /\ tasks'[s].cap[1].wiz = done[i].wiz
                                             => "create" \in cooling'
      BY Zenon DEF SpentInv
    <2>a. done[i] \in Doings BY DEF ChatTypes
    <2>0. done[i].wiz \in Nat /\ done[i].wiz <= wizNo BY <2>a DEF SpentInv, Doings
    <2>1. done[i].what \in {"key", "announcement"} /\ done[i].wiz # 0 => data.wiz # done[i].wiz BY DEF SpentInv
    <2>2. done[i].what \in {"key", "announcement"} /\ done[i].wiz # 0 => data'.wiz # done[i].wiz
      BY <2>0, <2>1, <1>0 DEF Tag
    <2>3. done[i].what = "proxy" => done[i].wiz # 0 /\ data'.nonce # done[i].wiz
      BY <2>0, <1>0 DEF Tag, SpentInv
    <2>4. done[i].what = "key" /\ done[i].wiz # 0 =>
            \A s \in Slots : Holding(tasks'[s]) /\ tasks'[s].cap[1].wiz = done[i].wiz => "create" \in cooling'
      BY <2>1 DEF SlotMoves, SpentInv
    <2> QED BY <2>0, <1>0, <2>2, <2>3, <2>4
  <1>3. OncePerWizard' BY DEF OncePerWizard
  <1> QED BY <1>1, <1>2, <1>3

\* A step that finishes a wizard does so for the only time.
LEMMA FinishOnce == ASSUME ChatOnce, NEW s \in Slots, NEW r, Finishes(s, r) PROVE ChatOnce'
  <1> USE DEF ChatOnce, Finishes
  <1>0. wizNo \in Nat /\ done \in Seq(Doings) BY DEF ChatTypes
  <1>1. done' \in Seq(Doings) /\ Len(done') = Len(done) + 1 /\ done'[Len(done) + 1] = r
        /\ \A i \in DOMAIN done : done'[i] = done[i]
    BY <1>0
  <1>2. \A i \in DOMAIN done' : i \in DOMAIN done \/ i = Len(done) + 1 BY <1>0, <1>1
  <1>3. ChatTypes' BY <1>0, <1>1, NothingFine DEF ChatTypes
  <1>4. SpentInv'
    <2> SUFFICES ASSUME NEW i \in DOMAIN done'
                 PROVE /\ done'[i].wiz <= wizNo
                       /\ done'[i].what \in {"key", "announcement"} /\ done'[i].wiz # 0 => NoData.wiz # done'[i].wiz
                       /\ done'[i].what = "proxy" => done'[i].wiz # 0 /\ NoData.nonce # done'[i].wiz
                       /\ done'[i].what = "key" /\ done'[i].wiz # 0 =>
                            \A o \in Slots : Holding(tasks'[o]) /\ tasks'[o].cap[1].wiz = done'[i].wiz
                                             => "create" \in cooling'
      BY Zenon DEF SpentInv
    <2>1. CASE i \in DOMAIN done BY <2>1, <1>1 DEF SpentInv, NoData
    <2>2. CASE i = Len(done) + 1 BY <2>2, <1>1 DEF NoData
    <2> QED BY <2>1, <2>2, <1>2
  <1>5. OncePerWizard'
    <2> SUFFICES ASSUME NEW i \in DOMAIN done', NEW j \in DOMAIN done',
                        done'[i].what \in {"key", "proxy", "announcement"}, done'[j].what = done'[i].what,
                        done'[j].wiz = done'[i].wiz, done'[i].wiz # 0
                 PROVE i = j
      BY DEF OncePerWizard
    <2>1. CASE i \in DOMAIN done /\ j \in DOMAIN done BY <2>1, <1>1 DEF OncePerWizard
    <2>2. CASE i = Len(done) + 1 /\ j \in DOMAIN done BY <2>2, <1>1
    <2>3. CASE i \in DOMAIN done /\ j = Len(done) + 1 BY <2>3, <1>1
    <2> QED BY <2>1, <2>2, <2>3, <1>2
  <1> QED BY <1>3, <1>4, <1>5

\* A handler that ends its update and finishes nothing.
LEMMA EndsQuiet ==
  ASSUME ChatOnce, NEW s \in Slots, Ends(s), KeepWorld,
         wizNo' \in {wizNo, wizNo + 1}, DataFine(data', wizNo'), Tag(data'.wiz, data.wiz), Tag(data'.nonce, data.nonce)
  PROVE Quiet
  <1>1. wizNo' \in Nat BY DEF ChatOnce, ChatTypes
  <1>2. DOMAIN tasks' = Slots /\ tasks'[s] = NoTask /\ \A o \in Slots \ {s} : tasks'[o] = tasks[o]
    BY DEF Ends, ChatOnce, ChatTypes
  <1>3. \A o \in Slots : SlotMoves(o) BY <1>1, <1>2, NothingFine DEF SlotMoves
  <1> QED BY <1>2, <1>3 DEF Quiet, KeepWorld

\* Data edited by a step of a running wizard.
Edited(d) == DataFine(d, wizNo) /\ d.wiz = data.wiz /\ d.nonce = data.nonce

\* The edits the steps make.
LEMMA Edits ==
  ASSUME ChatOnce
  PROVE /\ Edited(data)
        /\ \A v \in Nat : /\ Edited([data EXCEPT !.note = v]) /\ Edited([data EXCEPT !.fp = v])
                           /\ Edited([data EXCEPT !.mtu = v]) /\ Edited([data EXCEPT !.days = v])
                           /\ Edited([data EXCEPT !.msg = v]) /\ Edited([data EXCEPT !.user = v])
                           /\ Edited([data EXCEPT !.relay = v])
                           /\ Edited(TargetKey(data, v)) /\ Edited(TargetBundle(data, v))
        /\ \A k : Edited([data EXCEPT !.kind = k]) /\ Edited([data EXCEPT !.kind = k, !.relay = 0])
        /\ \A o : Edited([data EXCEPT !.owner = o])
        /\ \A v : Edited([data EXCEPT !.roles = v]) /\ Edited([data EXCEPT !.protos = v])
                   /\ Edited([data EXCEPT !.trs = v]) /\ Edited([data EXCEPT !.protos = v, !.trs = v])
  BY DEF ChatOnce, ChatTypes, DataFine, Edited, Fields, TargetKey, TargetBundle

\* A step that answers, edits the data and ends.
LEMMA AnswerQuiet ==
  ASSUME ChatOnce, NEW s \in Slots, Ends(s), Keep, data' = NoData \/ Edited(data')
  PROVE Quiet
  <1>1. wizNo \in Nat /\ wizNo' = wizNo /\ KeepWorld BY DEF ChatOnce, ChatTypes, Keep
  <1>2. DataFine(data', wizNo') /\ Tag(data'.wiz, data.wiz) /\ Tag(data'.nonce, data.nonce)
    <2>1. CASE data' = NoData BY <2>1, <1>1, NothingFine DEF NoData, Tag
    <2>2. CASE Edited(data') BY <2>2, <1>1 DEF Edited, Tag
    <2> QED BY <2>1, <2>2
  <1> QED BY <1>1, <1>2, EndsQuiet

\* A wizard that opens.
LEMMA OpenQuiet ==
  ASSUME ChatOnce, NEW s \in Slots, NEW state, NEW m, Opens(s, state, m),
         m = NoData \/ Edited(m) \/ m = [data EXCEPT !.nonce = wizNo + 1]
  PROVE Quiet
  <1>1. wizNo \in Nat /\ wizNo' = wizNo + 1 /\ KeepWorld /\ Ends(s) /\ data' = [m EXCEPT !.wiz = wizNo + 1]
    BY DEF ChatOnce, ChatTypes, Opens
  <1>0. DataFine(data, wizNo) BY DEF ChatOnce, ChatTypes
  <1>2. DataFine(m, wizNo + 1) /\ m.nonce \in {data.nonce, 0, wizNo + 1}
    <2>1. CASE m = NoData BY <2>1, <1>1, NothingFine DEF NoData
    <2>2. CASE Edited(m)
      <3>1. wizNo + 1 \in Nat /\ wizNo <= wizNo + 1 BY <1>1
      <3>2. \A d : DataFine(d, wizNo) => DataFine(d, wizNo + 1) BY <3>1, <1>1, FineGrows
      <3> QED BY <2>2, <3>2 DEF Edited
    <2>3. CASE m = [data EXCEPT !.nonce = wizNo + 1] BY <2>3, <1>0, <1>1 DEF DataFine, Fields
    <2> QED BY <2>1, <2>2, <2>3
  <1>3. DataFine(data', wizNo') /\ data'.wiz = wizNo + 1 /\ data'.nonce = m.nonce
    BY <1>1, <1>2 DEF DataFine, Fields
  <1> QED BY <1>1, <1>2, <1>3, EndsQuiet DEF Tag

\* A handler that stores its answer and waits for something.
LEMMA SuspendQuiet ==
  ASSUME ChatOnce, NEW s \in Slots, NEW cap, Suspends(s, cap), UNCHANGED <<done, races, wizNo>>,
         cooling \subseteq cooling', Edited(data'),
         tasks[s].h \in {"confirm", "usernoteinput"} => DataFine(cap[1], wizNo),
         tasks[s].h = "confirm" => cap[1].wiz = data.wiz
  PROVE Quiet
  <1>1. wizNo \in Nat /\ TaskFine(tasks[s], wizNo) /\ DOMAIN tasks = Slots BY DEF ChatOnce, ChatTypes
  <1>2. /\ DOMAIN tasks' = Slots /\ tasks'[s] = [tasks[s] EXCEPT !.pc = 2, !.cap = cap]
        /\ \A o \in Slots \ {s} : tasks'[o] = tasks[o]
    BY <1>1 DEF Suspends
  <1>3. /\ tasks'[s].h = tasks[s].h /\ tasks'[s].f = tasks[s].f /\ tasks'[s].wiz = tasks[s].wiz
        /\ tasks'[s].arg = tasks[s].arg /\ tasks'[s].pc = 2 /\ tasks'[s].cap = cap
        /\ DOMAIN tasks'[s] = {"h", "f", "arg", "wiz", "pc", "cap"}
    BY <1>1, <1>2 DEF TaskFine
  <1>4. TaskFine(tasks'[s], wizNo) BY <1>1, <1>3 DEF TaskFine
  <1>6. wizNo' = wizNo OBVIOUS
  <1>7. Holding(tasks'[s]) => tasks'[s].cap[1].wiz = data.wiz BY <1>3 DEF Holding
  <1>8. SlotMoves(s) BY <1>4, <1>6, <1>7 DEF SlotMoves
  <1>5. \A o \in Slots : SlotMoves(o) BY <1>2, <1>8 DEF SlotMoves
  <1> QED BY <1>2, <1>5 DEF Quiet, Edited, Tag

\* Dispatch.
LEMMA TapQuiet ==
  ASSUME ChatOnce, NEW s \in Slots, NEW f, NEW h, NEW steps, NEW arg, Tap(s, f, h, steps, arg),
         h = "proxyconfirm" => arg \in 1..wizNo
  PROVE Quiet
  <1>1. wizNo \in Nat /\ DOMAIN tasks = Slots /\ DataFine(data, wizNo) BY DEF ChatOnce, ChatTypes
  <1> DEFINE t == [h |-> h, f |-> f, arg |-> arg, wiz |-> wizNo, pc |-> 1, cap |-> IF h = "confirm" THEN <<data>> ELSE <<>>]
  <1>2. DOMAIN tasks' = Slots /\ tasks'[s] = t /\ \A o \in Slots \ {s} : tasks'[o] = tasks[o] BY <1>1 DEF Tap
  <1>3. TaskFine(t, wizNo) /\ (Holding(t) => t.cap[1].wiz = data.wiz) BY <1>1 DEF TaskFine, Holding
  <1> HIDE DEF t
  <1>4. \A o \in Slots : SlotMoves(o) BY <1>2, <1>3 DEF SlotMoves, Tap
  <1> QED BY <1>1, <1>2, <1>4 DEF Quiet, Tap, Overlap, Tag

\* The taps that are offered.
LEMMA TapsQuiet ==
  ASSUME ChatOnce, NEW s \in Slots,
         OwnTaps(s) \/ AdminTaps(s) \/ EditTaps(s) \/ ProxyTaps(s) \/ AnnTaps(s)
  PROVE Quiet
  <1>1. CASE OwnTaps(s) BY <1>1, TapQuiet DEF OwnTaps
  <1>2. CASE AdminTaps(s) BY <1>2, TapQuiet DEF AdminTaps
  <1>3. CASE EditTaps(s) BY <1>3, TapQuiet DEF EditTaps
  <1>4. CASE ProxyTaps(s) BY <1>4, TapQuiet DEF ProxyTaps
  <1>5. CASE AnnTaps(s) BY <1>5, TapQuiet DEF AnnTaps
  <1> QED BY <1>1, <1>2, <1>3, <1>4, <1>5

\* A screen's number is that of a wizard.
LEMMA Screens ==
  ASSUME ChatOnce, NEW s \in Slots
  PROVE Screen(s) \in Nat /\ Screen(s) <= wizNo /\ TaskFine(tasks[s], wizNo) /\ wizNo \in Nat /\ DOMAIN tasks = Slots
  BY DEF Screen, ChatOnce, ChatTypes, TaskFine

\* The user's wizard up to its confirmation.
LEMMA OwnQuiet ==
  ASSUME ChatOnce, NEW s \in Slots, OwnSteps(s), ~CreateKeyConfirm(s)
  PROVE Quiet
  <1> USE Screens, Edits
  <1>1. CASE CreateKeyChoose(s) BY <1>1, OpenQuiet DEF CreateKeyChoose, PromptRouteOrNote
  <1>2. CASE CreateKeyChooseXhttp(s) BY <1>2, OpenQuiet DEF CreateKeyChooseXhttp
  <1>3. CASE CreateKeyXhttpProfile(s) BY <1>3, AnswerQuiet DEF CreateKeyXhttpProfile, PromptRouteOrNote, Answers
  <1>4. CASE CreateKeyBundle(s) BY <1>4, OpenQuiet DEF CreateKeyBundle
  <1>5. CASE CreateKeyBundleKind(s) BY <1>5, AnswerQuiet DEF CreateKeyBundleKind, Answers
  <1>6. CASE CreateKeyRoute(s) BY <1>6, AnswerQuiet DEF CreateKeyRoute, ChooseRoute, Answers
  <1>7. CASE CreateKeyNote(s)
    <2>1. CASE TakeNote(s, "own")
      BY <2>1, SuspendQuiet DEF TakeNote, Runs, Keep, KeepWorld
    <2>2. CASE NoteTaken(s, "own") BY <2>2, AnswerQuiet DEF NoteTaken
    <2> QED BY <1>7, <2>1, <2>2 DEF CreateKeyNote
  <1>8. CASE CreateKeyFp(s) \/ CreateKeyMtu(s) BY <1>8, AnswerQuiet DEF CreateKeyFp, TakeFp, CreateKeyMtu, TakeMtu, Answers
  <1>9. CASE CreateKeyMtuAsk(s) \/ CreateKeyDaysAsk(s)
    BY <1>9, AnswerQuiet DEF CreateKeyMtuAsk, AskMtu, CreateKeyDaysAsk, AskDays, Answers
  <1>10. CASE CreateKeyMtuCustom(s)
    BY <1>10, SuspendQuiet, AnswerQuiet DEF CreateKeyMtuCustom, TakeCustomMtu, Runs, Keep, KeepWorld, Answers
  <1>11. CASE CreateKeyExpiry(s) \/ CreateKeyCustomDays(s)
    BY <1>11, AnswerQuiet DEF CreateKeyExpiry, CreateKeyCustomDays, Answers
  <1> QED BY <1>1, <1>2, <1>3, <1>4, <1>5, <1>6, <1>7, <1>8, <1>9, <1>10, <1>11 DEF OwnSteps

\* The admin's wizard up to its confirmation.
LEMMA AdminQuiet ==
  ASSUME ChatOnce, NEW s \in Slots, AdminSteps(s), ~AdminIssueConfirm(s)
  PROVE Quiet
  <1> USE Screens, Edits
  <1>1. CASE AdminIssueUserSelected(s) BY <1>1, OpenQuiet DEF AdminIssueUserSelected
  <1>2. CASE AdminIssueVless(s) BY <1>2, AnswerQuiet DEF AdminIssueVless, SameOwner, Answers, Clear
  <1>3. CASE AdminIssueType(s) BY <1>3, AnswerQuiet DEF AdminIssueType, SameOwner, PromptRouteOrNote, Answers, Clear
  <1>4. CASE AdminIssueProfile(s) BY <1>4, AnswerQuiet DEF AdminIssueProfile, SameOwner, PromptRouteOrNote, Answers, Clear
  <1>5. CASE AdminIssueRoute(s) BY <1>5, AnswerQuiet DEF AdminIssueRoute, SameOwner, ChooseRoute, Answers, Clear
  <1>7. CASE AdminIssueNote(s)
    <2>1. CASE TakeNote(s, "admin")
      BY <2>1, SuspendQuiet DEF TakeNote, Runs, Keep, KeepWorld
    <2>2. CASE NoteTaken(s, "admin") BY <2>2, AnswerQuiet DEF NoteTaken
    <2> QED BY <1>7, <2>1, <2>2 DEF AdminIssueNote
  <1>8. CASE AdminIssueFp(s) \/ AdminIssueMtu(s) BY <1>8, AnswerQuiet DEF AdminIssueFp, TakeFp, AdminIssueMtu, TakeMtu, Answers
  <1>9. CASE AdminIssueMtuAsk(s) \/ AdminIssueDaysAsk(s)
    BY <1>9, AnswerQuiet DEF AdminIssueMtuAsk, AskMtu, AdminIssueDaysAsk, AskDays, Answers
  <1>10. CASE AdminIssueMtuCustom(s)
    BY <1>10, SuspendQuiet, AnswerQuiet DEF AdminIssueMtuCustom, TakeCustomMtu, Runs, Keep, KeepWorld, Answers
  <1>11. CASE AdminIssueExpiry(s)
    BY <1>11, SuspendQuiet, AnswerQuiet DEF AdminIssueExpiry, AdminDays, Runs, Keep, KeepWorld, Answers
  <1>12. CASE AdminIssueCustomDays(s)
    BY <1>12, SuspendQuiet, AnswerQuiet DEF AdminIssueCustomDays, AdminDays, Runs, Keep, KeepWorld, Answers
  <1> QED BY <1>1, <1>2, <1>3, <1>4, <1>5, <1>7, <1>8, <1>9, <1>10, <1>11, <1>12 DEF AdminSteps

\* A finished wizard with a record of what it did.
LEMMA DidFinishes ==
  ASSUME ChatOnce, NEW s \in Slots, NEW what, NEW d, NEW used, NEW relay, Did(what, d, used, relay),
         what \in {"key", "note", "fp", "usernote", "proxy", "announcement"}, used \subseteq Nat, relay \in Nat,
         d.wiz \in 0..wizNo, data' = NoData, cooling \subseteq cooling', UNCHANGED <<wizNo, races>>,
         DOMAIN tasks' = Slots, TaskFine(tasks'[s], wizNo), ~Holding(tasks'[s]),
         \A o \in Slots \ {s} : tasks'[o] = tasks[o],
         what = "key" => "create" \in cooling',
         what = "proxy" => d.wiz # 0,
         what \in {"key", "proxy", "announcement"} /\ d.wiz # 0 =>
           \A i \in DOMAIN done : done[i].what = what => done[i].wiz # d.wiz
  PROVE ChatOnce'
  <1> DEFINE r == [what |-> what, wiz |-> d.wiz, used |-> used, relay |-> relay]
  <1>1. r \in Doings /\ r.wiz = d.wiz /\ r.what = what /\ done' = Append(done, r) /\ d.wiz <= wizNo
    BY DEF Doings, Did, ChatOnce, ChatTypes
  <1> HIDE DEF r
  <1>2. Finishes(s, r) BY <1>1 DEF Finishes
  <1> QED BY <1>2, FinishOnce

\* The slot of a handler that ends.
LEMMA SlotEnds ==
  ASSUME ChatOnce, NEW s \in Slots, Ends(s)
  PROVE /\ DOMAIN tasks' = Slots /\ TaskFine(tasks'[s], wizNo) /\ ~Holding(tasks'[s])
        /\ \A o \in Slots \ {s} : tasks'[o] = tasks[o]
  BY NothingFine DEF Ends, ChatOnce, ChatTypes

\* The tags of the data, and of what a task captured, are numbers.
LEMMA TagsAre ==
  ASSUME NEW n \in Nat, NEW d, DataFine(d, n)
  PROVE /\ Used(d) \subseteq Nat /\ d.relay \in Nat /\ d.wiz \in 0..n /\ {EditTarget(d), d.note} \subseteq Nat
        /\ {d.user} \subseteq Nat /\ {d.nonce} \subseteq Nat /\ {d.msg} \subseteq Nat
  BY DEF DataFine, Used, EditTarget

\* A key is issued from data that was captured, once.
LEMMA IssueOnce ==
  ASSUME ChatOnce, NEW s \in Slots, NEW t, DataFine(tasks[s].cap[1], wizNo), Holding(tasks[s]),
         IssueKey(tasks[s].cap[1], [slot |-> s, task |-> t]), TaskFine(t, wizNo), ~Holding(t)
  PROVE ChatOnce'
  <1> DEFINE d == tasks[s].cap[1]
             n == [slot |-> s, task |-> t]
  <1>0. wizNo \in Nat /\ DOMAIN tasks = Slots /\ DataFine(data, wizNo) /\ wizNo' = wizNo /\ races' = races
    BY DEF ChatOnce, ChatTypes, IssueKey
  <1>1. DataFine(d, wizNo) /\ IssueKey(d, n) /\ n.slot = s /\ n.task = t OBVIOUS
  <1>2. \A i \in DOMAIN done : done[i].what = "key" /\ done[i].wiz # 0 /\ done[i].wiz = d.wiz => "create" \in cooling
    BY DEF ChatOnce, SpentInv
  <1> HIDE DEF d, n
  <1>3. CASE ~LimiterPasses("create") \/ (d.relay # 0 /\ ~relayOn /\ d.kind # "bundle")
    <2>1. Ends(s) /\ data' = data /\ done' = done /\ cooling \subseteq cooling'
      BY <1>1, <1>3 DEF IssueKey, Ends
    <2>2. \A o \in Slots : SlotMoves(o) BY <2>1, <1>0, SlotEnds DEF SlotMoves
    <2>3. Quiet BY <2>1, <2>2, <1>0, SlotEnds DEF Quiet, Tag
    <2> QED BY <2>3, QuietOnce
  <1>4. CASE ~(~LimiterPasses("create") \/ (d.relay # 0 /\ ~relayOn /\ d.kind # "bundle"))
    <2>1. /\ "create" \notin cooling /\ cooling' = cooling \cup {"create"} /\ data' = NoData
          /\ tasks' = [tasks EXCEPT ![s] = t]
          /\ d.kind = "none" => done' = done
          /\ d.kind # "none" => Did("key", d, Used(d), d.relay)
      BY <1>1, <1>4 DEF IssueKey, Clear, LimiterPasses
    <2>2. DOMAIN tasks' = Slots /\ tasks'[s] = t /\ \A o \in Slots \ {s} : tasks'[o] = tasks[o] BY <2>1, <1>0
    <2>3. CASE d.kind = "none"
      <3>1. \A o \in Slots : SlotMoves(o) BY <2>2, <1>0 DEF SlotMoves
      <3>2. Quiet BY <2>1, <2>2, <2>3, <3>1, <1>0, NothingFine DEF Quiet, Tag, NoData
      <3> QED BY <3>2, QuietOnce
    <2>4. CASE d.kind # "none"
      <3>1. \A i \in DOMAIN done : done[i].what = "key" /\ done[i].wiz # 0 => done[i].wiz # d.wiz BY <1>2, <2>1
      <3>2. Used(d) \subseteq Nat /\ d.relay \in Nat /\ d.wiz \in 0..wizNo BY <1>0, <1>1, TagsAre
      <3>3. TaskFine(tasks'[s], wizNo) /\ ~Holding(tasks'[s]) BY <2>2
      <3> QED BY <2>1, <2>2, <2>4, <3>1, <3>2, <3>3, <1>0, DidFinishes
    <2> QED BY <2>3, <2>4
  <1> QED BY <1>3, <1>4

\* Both confirm buttons.
LEMMA ConfirmOnce ==
  ASSUME ChatOnce, NEW s \in Slots, CreateKeyConfirm(s) \/ AdminIssueConfirm(s)
  PROVE ChatOnce'
  <1>0. wizNo \in Nat /\ DataFine(data, wizNo) /\ TaskFine(tasks[s], wizNo) BY DEF ChatOnce, ChatTypes
  <1>1. CASE CreateKeyConfirm(s)
    <2>1. Holding(tasks[s]) /\ DataFine(tasks[s].cap[1], wizNo) BY <1>0, <1>1 DEF CreateKeyConfirm, Runs, Holding, TaskFine
    <2> QED BY <1>1, <2>1, <1>0, NothingFine, IssueOnce DEF CreateKeyConfirm
  <1>2. CASE AdminIssueConfirm(s)
    <2>1. CASE Runs(s, "admin", "confirm") /\ Ends(s) /\ Keep /\ data' = data
      BY <2>1, AnswerQuiet, Edits, QuietOnce
    <2>2. CASE Runs(s, "admin", "confirm") /\ Suspends(s, <<data>>) /\ Keep /\ data' = data
      <3>1. Quiet BY <2>2, <1>0, SuspendQuiet, Edits DEF Runs, Keep, KeepWorld
      <3> QED BY <3>1, QuietOnce
    <2>3. CASE /\ tasks[s].h = "confirm" /\ tasks[s].pc = 2
               /\ IssueKey(tasks[s].cap[1], [slot |-> s, task |-> [tasks[s] EXCEPT !.pc = 3, !.cap = <<>>]])
      <3> DEFINE t == [tasks[s] EXCEPT !.pc = 3, !.cap = <<>>]
      <3>1. Holding(tasks[s]) /\ DataFine(tasks[s].cap[1], wizNo) BY <1>0, <2>3 DEF Holding, TaskFine
      <3>2. TaskFine(t, wizNo) /\ ~Holding(t) BY <1>0, <2>3 DEF TaskFine, Holding
      <3>3. IssueKey(tasks[s].cap[1], [slot |-> s, task |-> t]) BY <2>3
      <3> HIDE DEF t
      <3> QED BY <3>1, <3>2, <3>3, IssueOnce
    <2>4. CASE tasks[s].h = "confirm" /\ tasks[s].pc = 3 /\ Ends(s) /\ Keep /\ data' = data
      BY <2>4, AnswerQuiet, Edits, QuietOnce
    <2> QED BY <1>2, <2>1, <2>2, <2>3, <2>4 DEF AdminIssueConfirm
  <1> QED BY <1>1, <1>2

\* An edit may be repeated.
LEMMA EditFinishes ==
  ASSUME ChatOnce, NEW s \in Slots, NEW what \in {"note", "fp", "usernote"}, NEW d, DataFine(d, wizNo), NEW used,
         used \subseteq Nat, Ends(s), Clear, Does(what, d, used), UNCHANGED <<wizNo, cooling, relayOn, races>>
  PROVE ChatOnce'
  <1>1. wizNo \in Nat BY DEF ChatOnce, ChatTypes
  <1>2. d.wiz \in 0..wizNo BY DEF DataFine
  <1>3. Did(what, d, used, 0) /\ data' = NoData /\ 0 \in Nat BY DEF Does, Clear
  <1>4. UNCHANGED <<wizNo, races>> /\ cooling \subseteq cooling' OBVIOUS
  <1> QED BY <1>1, <1>2, <1>3, <1>4, SlotEnds, DidFinishes

\* Editing notes and fingerprints.
LEMMA EditOnce ==
  ASSUME ChatOnce, NEW s \in Slots, EditSteps(s)
  PROVE ChatOnce'
  <1>a. wizNo \in Nat /\ DataFine(data, wizNo) /\ TaskFine(tasks[s], wizNo) BY DEF ChatOnce, ChatTypes
  <1>0. wizNo \in Nat /\ DataFine(data, wizNo) /\ TaskFine(tasks[s], wizNo) /\ wizNo + 1 \in Nat BY <1>a
  <1>b. {EditTarget(data), data.note} \subseteq Nat /\ {EditTarget(data)} \subseteq Nat BY <1>0, TagsAre
  <1>1. CASE EditNotePrompt(s) BY <1>0, <1>1, Edits, OpenQuiet, QuietOnce DEF EditNotePrompt
  <1>2. CASE EditBundleNotePrompt(s) BY <1>0, <1>2, Edits, OpenQuiet, QuietOnce DEF EditBundleNotePrompt
  <1>3. CASE EditFpPrompt(s) BY <1>0, <1>3, Edits, OpenQuiet, QuietOnce DEF EditFpPrompt
  <1>4. CASE ChangeBundleFpPrompt(s) BY <1>0, <1>4, Edits, OpenQuiet, QuietOnce DEF ChangeBundleFpPrompt
  <1>5. CASE EditNoteWaiting(s)
    BY <1>5, Screens, Edits, SuspendQuiet, AnswerQuiet, QuietOnce DEF EditNoteWaiting, Runs, Keep, KeepWorld, Answers
  <1>6. CASE EditNoteConfirm(s)
    <2>1. CASE Runs(s, "edit", "savenote") /\ LimiterPasses("note") /\ cooling' = cooling \cup {"note"} /\ Suspends(s, <<>>)
               /\ UNCHANGED <<fsm, data, wizNo, done, relayOn, races>>
      <3>1. Quiet BY <2>1, Edits, SuspendQuiet DEF Runs
      <3> QED BY <3>1, QuietOnce
    <2>2. CASE Ends(s) /\ UNCHANGED cooling /\ UNCHANGED <<fsm, data, wizNo, done, relayOn, races>>
      BY <2>2, Edits, AnswerQuiet, QuietOnce DEF Keep, KeepWorld
    <2>3. CASE /\ tasks[s].h = "savenote" /\ tasks[s].pc = 2 /\ Ends(s) /\ Clear
               /\ done' = done /\ UNCHANGED <<wizNo, cooling, relayOn, races>>
      BY <2>3, AnswerQuiet, QuietOnce DEF Keep, KeepWorld, Clear
    <2>4. CASE /\ Ends(s) /\ Clear /\ Does("note", data, {EditTarget(data), data.note})
               /\ UNCHANGED <<wizNo, cooling, relayOn, races>>
      BY <2>4, <1>0, <1>b, EditFinishes
    <2> QED BY <1>6, <2>1, <2>2, <2>3, <2>4 DEF EditNoteConfirm
  <1>7. CASE EditFpSelect(s)
    <2>1. CASE Ends(s) /\ Clear /\ done' = done /\ UNCHANGED <<wizNo, cooling, relayOn, races>>
      BY <2>1, AnswerQuiet, QuietOnce DEF Keep, KeepWorld, Clear
    <2>2. CASE Ends(s) /\ Clear /\ Does("fp", data, {EditTarget(data)}) /\ UNCHANGED <<wizNo, cooling, relayOn, races>>
      BY <2>2, <1>0, <1>b, EditFinishes
    <2> QED BY <1>7, <2>1, <2>2 DEF EditFpSelect
  <1>8. CASE AdminEditUserNote(s) BY <1>0, <1>8, Edits, OpenQuiet, QuietOnce DEF AdminEditUserNote
  <1>9. CASE AdminEditUserNoteInput(s)
    <2>1. CASE Runs(s, "edit", "usernoteinput") /\ Ends(s) /\ Clear /\ Keep BY <2>1, AnswerQuiet, QuietOnce DEF Clear
    <2>2. CASE Runs(s, "edit", "usernoteinput") /\ Suspends(s, <<data>>) /\ UNCHANGED <<fsm, data>> /\ Keep
      <3>1. Quiet BY <2>2, <1>0, Edits, SuspendQuiet DEF Runs, Keep, KeepWorld
      <3> QED BY <3>1, QuietOnce
    <2>3. CASE /\ tasks[s].h = "usernoteinput" /\ tasks[s].pc = 2 /\ Ends(s) /\ Clear
               /\ Does("usernote", tasks[s].cap[1], {tasks[s].cap[1].user})
               /\ UNCHANGED <<wizNo, cooling, relayOn, races>>
      <3>1. DataFine(tasks[s].cap[1], wizNo) BY <1>0, <2>3 DEF TaskFine
      <3>2. {tasks[s].cap[1].user} \subseteq Nat BY <3>1, <1>0, TagsAre
      <3> QED BY <2>3, <3>1, <3>2, EditFinishes
    <2> QED BY <1>9, <2>1, <2>2, <2>3 DEF AdminEditUserNoteInput
  <1> QED BY <1>1, <1>2, <1>3, <1>4, <1>5, <1>6, <1>7, <1>8, <1>9 DEF EditSteps

\* Announcements up to sending.
LEMMA AnnQuiet ==
  ASSUME ChatOnce, NEW s \in Slots, AnnSteps(s), ~AnnouncementSend(s), ~AnnouncementScheduleTime(s)
  PROVE Quiet
  <1> USE Screens, Edits
  <1>1. CASE AdminAnnouncementStart(s) BY <1>1, OpenQuiet DEF AdminAnnouncementStart
  <1>2. CASE ToggleRole(s) BY <1>2, AnswerQuiet DEF ToggleRole, Answers
  <1>3. CASE RolesDone(s) BY <1>3, AnswerQuiet DEF RolesDone, Answers
  <1>4. CASE BackToRoles(s) BY <1>4, AnswerQuiet DEF BackToRoles, Answers
  <1>5. CASE ToggleProtocol(s) BY <1>5, AnswerQuiet DEF ToggleProtocol, Answers
  <1>6. CASE ProtocolsDone(s) BY <1>6, AnswerQuiet DEF ProtocolsDone, Answers
  <1>7. CASE BackToProtocols(s) BY <1>7, AnswerQuiet DEF BackToProtocols, Answers
  <1>8. CASE ToggleTransport(s) BY <1>8, AnswerQuiet DEF ToggleTransport, Answers
  <1>9. CASE TransportsDone(s) BY <1>9, AnswerQuiet DEF TransportsDone, Answers
  <1>10. CASE AnnouncementMessage(s) BY <1>10, AnswerQuiet DEF AnnouncementMessage, Answers
  <1>11. CASE AnnouncementScheduleRequest(s) BY <1>11, AnswerQuiet DEF AnnouncementScheduleRequest, Answers
  <1>12. CASE AnnouncementCancel(s) BY <1>12, AnswerQuiet DEF AnnouncementCancel, Clear
  <1> QED BY <1>1, <1>2, <1>3, <1>4, <1>5, <1>6, <1>7, <1>8, <1>9, <1>10, <1>11, <1>12 DEF AnnSteps

\* An announcement leaves with the number of its wizard, which then is gone from the data.
LEMMA SendOnce ==
  ASSUME ChatOnce, NEW s \in Slots, AnnouncementSend(s) \/ AnnouncementScheduleTime(s)
  PROVE ChatOnce'
  <1>0. wizNo \in Nat /\ DataFine(data, wizNo) BY DEF ChatOnce, ChatTypes
  <1>1. CASE Ends(s) /\ UNCHANGED <<wizNo, relayOn, races, data, done, cooling>>
    BY <1>1, AnswerQuiet, Edits, QuietOnce DEF Keep, KeepWorld
  <1>2. CASE Ends(s) /\ Clear /\ UNCHANGED <<wizNo, relayOn, races, done, cooling>>
    BY <1>2, AnswerQuiet, QuietOnce DEF Keep, KeepWorld, Clear
  <1>3. CASE /\ Ends(s) /\ Clear /\ cooling \subseteq cooling' /\ Does("announcement", data, {data.msg})
             /\ UNCHANGED <<wizNo, relayOn, races>>
    <2>1. data.wiz # 0 => \A i \in DOMAIN done : done[i].what = "announcement" => done[i].wiz # data.wiz
      BY DEF ChatOnce, SpentInv
    <2> QED BY <1>0, <1>3, <2>1, TagsAre, SlotEnds, DidFinishes DEF Does, Clear
  <1> QED BY <1>1, <1>2, <1>3 DEF AnnouncementSend, AnnouncementScheduleTime

\* Proxy access: the button's nonce must be the data's, and that is gone afterwards.
LEMMA ProxyOnce ==
  ASSUME ChatOnce, NEW s \in Slots, ProxyGetPrompt(s) \/ ProxyConfirm(s)
  PROVE ChatOnce'
  <1>0. wizNo \in Nat /\ DataFine(data, wizNo) /\ TaskFine(tasks[s], wizNo) BY DEF ChatOnce, ChatTypes
  <1>1. CASE ProxyGetPrompt(s) BY <1>1, OpenQuiet, QuietOnce DEF ProxyGetPrompt
  <1>2. CASE Ends(s) /\ UNCHANGED <<wizNo, relayOn, races, data, done, cooling>>
    BY <1>2, AnswerQuiet, Edits, QuietOnce DEF Keep, KeepWorld
  <1>3. CASE Ends(s) /\ Clear /\ UNCHANGED <<wizNo, relayOn, races, done, cooling>>
    BY <1>3, AnswerQuiet, QuietOnce DEF Keep, KeepWorld, Clear
  <1>4. CASE /\ tasks[s].h = "proxyconfirm" /\ Ends(s) /\ Clear /\ cooling' = cooling \cup {"proxy"} /\ data.nonce = Arg(s)
             /\ Does("proxy", [data EXCEPT !.wiz = Arg(s)], {data.nonce}) /\ UNCHANGED <<wizNo, relayOn, races>>
    <2> DEFINE d == [data EXCEPT !.wiz = Arg(s)]
    <2>1. Arg(s) \in 1..wizNo /\ d.wiz = Arg(s) BY <1>0, <1>4 DEF Arg, TaskFine, DataFine, Fields
    <2>2. \A i \in DOMAIN done : done[i].what = "proxy" => done[i].wiz # Arg(s) BY <1>4 DEF ChatOnce, SpentInv
    <2>3. Did("proxy", d, {data.nonce}, 0) BY <1>4 DEF Does
    <2>4. {data.nonce} \subseteq Nat BY <1>0, TagsAre
    <2>5. d.wiz \in 0..wizNo /\ d.wiz # 0 /\ \A i \in DOMAIN done : done[i].what = "proxy" => done[i].wiz # d.wiz
      BY <2>1, <2>2
    <2> HIDE DEF d
    <2> QED BY <1>0, <1>4, <2>3, <2>4, <2>5, SlotEnds, DidFinishes DEF Clear
  <1> QED BY <1>1, <1>2, <1>3, <1>4 DEF ProxyConfirm, Runs

\* A refusal, and what happens to the chat without a handler.
LEMMA OthersQuiet ==
  ASSUME ChatOnce, (\E s \in Slots : Denied(s)) \/ ProxyCancel \/ CancelCallback \/ ExpireStale \/ RelayGoes
  PROVE Quiet
  <1>1. ASSUME NEW s \in Slots, Denied(s) PROVE Quiet BY <1>1, Edits, AnswerQuiet DEF Denied, Clear
  <1>2. ASSUME ProxyCancel \/ CancelCallback \/ ExpireStale \/ RelayGoes PROVE Quiet
    <2>1. wizNo \in Nat /\ races \in Nat /\ DataFine(data, wizNo) /\ DOMAIN tasks = Slots BY DEF ChatOnce, ChatTypes
    <2>2. /\ tasks' = tasks /\ done' = done /\ cooling' = cooling /\ wizNo' = wizNo /\ races' \in {races, races + 1}
          /\ data' = NoData \/ data' = data
      BY <1>2 DEF ProxyCancel, CancelCallback, ExpireStale, RelayGoes, Clear, Overlap
    <2>3. DataFine(data', wizNo') /\ Tag(data'.wiz, data.wiz) /\ Tag(data'.nonce, data.nonce)
      <3>1. CASE data' = NoData
        <4>1. DataFine(NoData, wizNo) BY <2>1, NothingFine
        <4>2. DataFine(data', wizNo') BY <2>2, <3>1, <4>1
        <4>3. Tag(0, data.wiz) /\ Tag(0, data.nonce) BY DEF Tag
        <4> QED BY <3>1, <4>2, <4>3 DEF NoData
      <3>2. CASE data' = data BY <2>1, <2>2, <3>2 DEF Tag
      <3> QED BY <2>2, <3>1, <3>2
    <2>4. \A s \in Slots : SlotMoves(s) BY <2>2 DEF SlotMoves
    <2>5. cooling \subseteq cooling' /\ wizNo' \in {wizNo, wizNo + 1} BY <2>2
    <2> QED BY <2>1, <2>2, <2>3, <2>4, <2>5 DEF Quiet
  <1> QED BY <1>1, <1>2

\* The window of the rate limiter outlasts whoever will be refused by it.
LEMMA TickOnce == ASSUME ChatOnce, Tick PROVE ChatOnce'
  <1>1. \A s \in Slots : ~Holding(tasks[s]) BY DEF Tick, Holding
  <1>2. UNCHANGED <<fsm, data, tasks, wizNo, done, relayOn, races>> BY DEF Tick
  <1>3. ChatTypes' BY <1>2 DEF ChatOnce, ChatTypes
  <1>4. SpentInv' BY <1>1, <1>2 DEF ChatOnce, SpentInv
  <1>5. OncePerWizard' BY <1>2 DEF ChatOnce, OncePerWizard
  <1> QED BY <1>3, <1>4, <1>5 DEF ChatOnce

\* Every step keeps every wizard to its one deed.
LEMMA ChatOnceStep == ASSUME ChatOnce, [DialogsNext]_dialogVars PROVE ChatOnce'
  <1>1. ASSUME NEW s \in Slots,
               OwnTaps(s) \/ AdminTaps(s) \/ EditTaps(s) \/ ProxyTaps(s) \/ AnnTaps(s)
               \/ OwnSteps(s) \/ AdminSteps(s) \/ EditSteps(s) \/ AnnSteps(s)
               \/ ProxyGetPrompt(s) \/ ProxyConfirm(s) \/ Denied(s)
        PROVE ChatOnce'
    BY <1>1, TapsQuiet, OwnQuiet, AdminQuiet, AnnQuiet, OthersQuiet, QuietOnce, ConfirmOnce, EditOnce, SendOnce, ProxyOnce
  <1>2. CASE UNCHANGED dialogVars
    BY <1>2 DEF ChatOnce, ChatTypes, SpentInv, OncePerWizard, dialogVars
  <1> QED BY <1>1, <1>2, OthersQuiet, QuietOnce, TickOnce DEF DialogsNext

-----------------------------------------------------------------------------
(* One update at a time.                                                   *)

\* An empty slot stands anywhere.
LEMMA EmptyStands == \A state, d, n : Stands(NoTask, state, d, n)
  BY DEF Stands, NoTask, StepsOf, Answered

\* The one update in progress takes a step.
LEMMA OneTask ==
  ASSUME Serial, NEW s \in Slots, tasks[s] # NoTask, \A o \in Slots \ {s} : tasks'[o] = tasks[o],
         Stands(tasks'[s], fsm', data', wizNo')
  PROVE Serial' /\ Unmoved'
  <1>1. \A o \in Slots \ {s} : tasks'[o] = NoTask BY DEF Serial
  <1>2. Serial' BY <1>1 DEF Serial
  <1>3. Unmoved' BY <1>1, EmptyStands DEF Unmoved
  <1> QED BY <1>2, <1>3

\* ... and ends.
LEMMA OneEnds ==
  ASSUME ChatTypes, Calm, NEW s \in Slots, tasks[s] # NoTask, Ends(s), done' = done, Chosen'
  PROVE Calm'
  <1>1. tasks'[s] = NoTask /\ \A o \in Slots \ {s} : tasks'[o] = tasks[o] BY DEF Ends, ChatTypes
  <1>2. Serial' /\ Unmoved' BY <1>1, EmptyStands, OneTask DEF Calm
  <1>3. OwnChoicesOnly' BY DEF Calm, OwnChoicesOnly
  <1> QED BY <1>2, <1>3 DEF Calm

\* ... and ends the wizard.
LEMMA OneClears ==
  ASSUME ChatTypes, Calm, NEW s \in Slots, tasks[s] # NoTask, Ends(s), done' = done, Clear
  PROVE Calm'
  <1>1. Chosen' BY DEF Chosen, Own, Clear, NoState
  <1> QED BY <1>1, OneEnds

\* ... and leaves the chat alone.
LEMMA OneLeaves ==
  ASSUME ChatTypes, Calm, NEW s \in Slots, tasks[s] # NoTask, Ends(s), UNCHANGED <<fsm, data, wizNo, done>>
  PROVE Calm'
  <1>1. Chosen' BY DEF Calm, Chosen, Own
  <1> QED BY <1>1, OneEnds

\* ... and finishes a wizard with its own choices.
LEMMA OneFinishes ==
  ASSUME ChatTypes, Calm, NEW s \in Slots, tasks[s] # NoTask, \A o \in Slots \ {s} : tasks'[o] = tasks[o],
         Stands(tasks'[s], fsm', data', wizNo'), Clear,
         NEW what, NEW d, NEW used, NEW relay, Did(what, d, used, relay), used \subseteq {0, d.wiz}
  PROVE Calm'
  <1>1. Chosen' BY DEF Chosen, Own, Clear, NoState
  <1>2. Serial' /\ Unmoved' BY OneTask DEF Calm
  <1>3. OwnChoicesOnly'
    <2> DEFINE r == [what |-> what, wiz |-> d.wiz, used |-> used, relay |-> relay]
    <2>1. done' = Append(done, r) /\ r.used \subseteq {0, r.wiz} /\ done \in Seq(Doings) BY DEF Did, ChatTypes
    <2> HIDE DEF r
    <2>2. \A i \in DOMAIN done' : (i \in DOMAIN done /\ done'[i] = done[i]) \/ done'[i] = r BY <2>1
    <2> QED BY <2>1, <2>2 DEF Calm, OwnChoicesOnly
  <1> QED BY <1>1, <1>2, <1>3 DEF Calm

\* Where the handler of a dispatched task stands.
LEMMA Standing ==
  ASSUME ChatOnce, Calm, NEW s \in Slots, NEW f, NEW h, Runs(s, f, h)
  PROVE /\ ChatTypes /\ tasks[s] # NoTask /\ Screen(s) = wizNo /\ wizNo \in Nat /\ DataFine(data, wizNo)
        /\ \A step : StepsOf(h) = {step} => fsm = At(f, step)
        /\ StepsOf(h) # {} => /\ fsm \in {At(f, step) : step \in StepsOf(h)}
                             /\ data.wiz = wizNo /\ wizNo # 0 /\ Own(fsm, data)
  <1>1. ChatTypes /\ wizNo \in Nat /\ DataFine(data, wizNo) BY DEF ChatOnce, ChatTypes
  <1>2. tasks[s] # NoTask /\ tasks[s].pc = 1 /\ tasks[s].f = f /\ tasks[s].h = h BY DEF Runs, NoTask
  <1>3. Stands(tasks[s], fsm, data, wizNo) BY DEF Calm, Unmoved
  <1>4. Screen(s) = wizNo BY <1>2, <1>3 DEF Screen, Stands
  <1>5. StepsOf(h) # {} => fsm \in {At(f, step) : step \in StepsOf(h)} BY <1>2, <1>3 DEF Stands
  <1>6. "none" \notin StepsOf(h) BY DEF StepsOf, Answered
  <1>7. StepsOf(h) # {} => fsm # NoState BY <1>5, <1>6 DEF At, NoState
  <1>8. StepsOf(h) # {} => data.wiz = wizNo /\ wizNo # 0 /\ Own(fsm, data) BY <1>7 DEF Calm, Chosen
  <1> QED BY <1>1, <1>2, <1>4, <1>5, <1>8

\* The screens the buttons belong to.
LEMMA Steps ==
  /\ \A h \in Answered : StepsOf(h) = {h}
  /\ StepsOf("mtuask") = {"mtu"} /\ StepsOf("daysask") = {"days"} /\ StepsOf("vless") = {"type", "profile"}
  /\ StepsOf("setfp") = {"fp"} /\ StepsOf("usernoteinput") = {"usernote"}
  /\ \A h \in {"role", "rolesdone"} : StepsOf(h) = {"roles"}
  /\ \A h \in {"proto", "backroles", "protosdone"} : StepsOf(h) = {"protos"}
  /\ \A h \in {"tr", "backprotos", "trsdone"} : StepsOf(h) = {"trs"}
  /\ StepsOf("schedulerequest") = {"send"}
  /\ \A h \in Entries \cup {"proxyconfirm", "cancelann"} : StepsOf(h) = {}
  BY DEF StepsOf, Answered, Entries

\* The update ends on another screen, or the same.
LEMMA OneMovesOn ==
  ASSUME ChatTypes, Calm, NEW s \in Slots, tasks[s] # NoTask, Ends(s), done' = done,
         NEW f, NEW step, fsm' = At(f, step), step # "none", data'.wiz = wizNo', wizNo' # 0, Own(fsm', data')
  PROVE Calm'
  <1>1. fsm' # NoState BY DEF At, NoState
  <1>2. Chosen' BY <1>1 DEF Chosen
  <1> QED BY <1>2, OneEnds

\* A wizard opens.
LEMMA OneOpens ==
  ASSUME ChatOnce, Calm, NEW s \in Slots, tasks[s] # NoTask, NEW f, NEW step, step # "none", NEW m, DOMAIN m = Fields,
         Opens(s, At(f, step), m), Own(At(f, step), [m EXCEPT !.wiz = wizNo + 1])
  PROVE Calm'
  <1>1. ChatTypes /\ wizNo \in Nat BY DEF ChatOnce, ChatTypes
  <1>2. Ends(s) /\ done' = done /\ fsm' = At(f, step) /\ wizNo' = wizNo + 1 /\ data' = [m EXCEPT !.wiz = wizNo + 1]
    BY DEF Opens, KeepWorld
  <1>3. data'.wiz = wizNo' /\ wizNo' # 0 BY <1>1, <1>2 DEF Fields
  <1>4. Own(fsm', data') BY <1>2
  <1> QED BY <1>1, <1>2, <1>3, <1>4, OneMovesOn

\* The handler stores its answer and waits.
LEMMA OneSuspends ==
  ASSUME ChatOnce, Calm, NEW s \in Slots, NEW f, NEW h, Runs(s, f, h), StepsOf(h) # {}, NEW cap, Suspends(s, cap),
         UNCHANGED <<fsm, wizNo, done>>, data'.wiz = data.wiz, Own(fsm, data'),
         h \in {"confirm", "usernoteinput"} => cap[1] = data',
         h \in {"note", "newnote"} => data'.note = data'.wiz,
         h = "note" => cap[1] = data'.kind,
         h = "mtucustom" => data'.mtu = data'.wiz,
         h \in {"days", "dayscustom"} => data'.days = data'.wiz
  PROVE Calm'
  <1>1. /\ ChatTypes /\ tasks[s] # NoTask /\ Screen(s) = wizNo
        /\ fsm \in {At(f, step) : step \in StepsOf(h)} /\ data.wiz = wizNo /\ wizNo # 0
    BY Standing
  <1>2. TaskFine(tasks[s], wizNo) /\ DOMAIN tasks = Slots BY DEF ChatOnce, ChatTypes
  <1>3. tasks'[s] = [tasks[s] EXCEPT !.pc = 2, !.cap = cap] /\ \A o \in Slots \ {s} : tasks'[o] = tasks[o]
    BY <1>2 DEF Suspends
  <1>4. tasks'[s].h = h /\ tasks'[s].f = f /\ tasks'[s].wiz = wizNo /\ tasks'[s].pc = 2 /\ tasks'[s].cap = cap
    BY <1>1, <1>2, <1>3 DEF TaskFine, Runs, Screen
  <1>a. /\ h = "confirm" => f \in {"own", "admin"}
        /\ h \in {"newnote", "savenote", "usernoteinput"} => f = "edit"
    BY DEF Calm, Unmoved, Stands, Runs
  <1>5. Stands(tasks'[s], fsm', data', wizNo') BY <1>1, <1>4, <1>a DEF Stands
  <1>6. Serial' /\ Unmoved' BY <1>1, <1>3, <1>5, OneTask DEF Calm
  <1>7. "none" \notin StepsOf(h) BY DEF StepsOf, Answered
  <1>8. fsm # NoState BY <1>1, <1>7 DEF At, NoState
  <1>9. Chosen' BY <1>1, <1>8 DEF Chosen
  <1>10. OwnChoicesOnly' BY DEF Calm, OwnChoicesOnly
  <1> QED BY <1>6, <1>9, <1>10 DEF Calm

\* Taking a note, for the user and for the admin.
LEMMA NoteCalm ==
  ASSUME ChatOnce, Calm, NEW s \in Slots, NEW f \in {"own", "admin"}, TakeNote(s, f) \/ NoteTaken(s, f)
  PROVE Calm'
  <1>1. CASE TakeNote(s, f)
    <2>0. Runs(s, f, "note") /\ StepsOf("note") = {"note"} BY <1>1, Steps DEF TakeNote, Answered
    <2>1. /\ Screen(s) = wizNo /\ DataFine(data, wizNo)
          /\ fsm = At(f, "note") /\ data.wiz = wizNo /\ wizNo # 0 /\ Own(fsm, data)
      BY <2>0, Standing
    <2>2. data' = [data EXCEPT !.note = wizNo] /\ Suspends(s, <<data.kind>>) /\ UNCHANGED <<fsm, wizNo, done>>
      BY <1>1, <2>1 DEF TakeNote, Keep, KeepWorld
    <2>3. data'.wiz = data.wiz /\ data'.note = data'.wiz /\ data'.kind = data.kind /\ data'.relay = data.relay
      BY <2>1, <2>2 DEF DataFine, Fields
    <2>4. Own(fsm, data') BY <2>1, <2>3 DEF Own, At, Noted
    <2> QED BY <2>0, <2>2, <2>3, <2>4, OneSuspends
  <1>2. CASE NoteTaken(s, f)
    <2>1. /\ tasks[s].h = "note" /\ tasks[s].f = f /\ tasks[s].pc = 2 /\ fsm' = At(f, AfterNote(tasks[s].cap[1]))
          /\ Ends(s) /\ UNCHANGED <<wizNo, done, data>> /\ tasks[s] # NoTask /\ ChatTypes
      BY <1>2 DEF NoteTaken, Keep, KeepWorld, NoTask, ChatOnce
    <2>2. Stands(tasks[s], fsm, data, wizNo) /\ StepsOf("note") = {"note"} BY Steps DEF Calm, Unmoved, Answered
    <2>3. fsm = At(f, "note") /\ data.note = data.wiz /\ tasks[s].cap[1] = data.kind BY <2>1, <2>2 DEF Stands
    <2>4. data.wiz = wizNo /\ wizNo # 0 /\ Own(fsm, data) BY <2>3 DEF Calm, Chosen, At, NoState
    <2>5. CASE data.kind = "awg"
      <3>1. fsm' = At(f, "mtu") BY <2>1, <2>3, <2>5 DEF AfterNote
      <3>2. Own(fsm', data') BY <2>1, <2>3, <2>4, <2>5, <3>1 DEF Own, At, Noted, AsksFp
      <3> QED BY <2>1, <2>4, <3>1, <3>2, OneMovesOn
    <2>6. CASE AsksFp(data.kind)
      <3>1. fsm' = At(f, "fp") /\ data.kind # "awg" BY <2>1, <2>3, <2>6 DEF AfterNote, AsksFp
      <3>2. Own(fsm', data') BY <2>1, <2>3, <2>4, <2>6, <3>1 DEF Own, At, Noted
      <3> QED BY <2>1, <2>4, <3>1, <3>2, OneMovesOn
    <2>7. CASE data.kind # "awg" /\ ~AsksFp(data.kind)
      <3>1. fsm' = At(f, "days") BY <2>1, <2>3, <2>7 DEF AfterNote, AsksFp
      <3>2. Own(fsm', data') BY <2>1, <2>3, <2>4, <2>7, <3>1 DEF Own, At, Noted
      <3> QED BY <2>1, <2>4, <3>1, <3>2, OneMovesOn
    <2> QED BY <2>5, <2>6, <2>7
  <1> QED BY <1>1, <1>2

\* Fingerprint, MTU and term: each answer is the present wizard's.
LEMMA TermsCalm ==
  ASSUME ChatOnce, Calm, NEW s \in Slots, NEW f \in {"own", "admin"},
         TakeFp(s, f) \/ TakeMtu(s, f) \/ AskMtu(s, f) \/ AskDays(s, f)
  PROVE Calm'
  <1>1. CASE TakeFp(s, f)
    <2>0. Runs(s, f, "fp") /\ StepsOf("fp") = {"fp"} BY <1>1, Steps DEF TakeFp, Answered
    <2>1. /\ ChatTypes /\ tasks[s] # NoTask /\ Screen(s) = wizNo /\ DataFine(data, wizNo)
          /\ fsm = At(f, "fp") /\ data.wiz = wizNo /\ wizNo # 0 /\ Own(fsm, data)
      BY <2>0, Standing
    <2>2. data' = [data EXCEPT !.fp = wizNo] /\ fsm' = At(f, "days") /\ Ends(s) /\ UNCHANGED <<wizNo, done>>
      BY <1>1, <2>1 DEF TakeFp, Answers, Keep, KeepWorld
    <2>3. data'.wiz = wizNo /\ data'.fp = wizNo /\ data'.note = data.note /\ data'.kind = data.kind /\ data'.relay = data.relay
      BY <2>1, <2>2 DEF DataFine, Fields
    <2>4. Own(fsm', data') BY <2>1, <2>2, <2>3 DEF Own, At, Noted, AsksFp
    <2> QED BY <2>1, <2>2, <2>3, <2>4, OneMovesOn
  <1>2. CASE TakeMtu(s, f)
    <2>0. Runs(s, f, "mtu") /\ StepsOf("mtu") = {"mtu"} BY <1>2, Steps DEF TakeMtu, Answered
    <2>1. /\ ChatTypes /\ tasks[s] # NoTask /\ Screen(s) = wizNo /\ DataFine(data, wizNo)
          /\ fsm = At(f, "mtu") /\ data.wiz = wizNo /\ wizNo # 0 /\ Own(fsm, data)
      BY <2>0, Standing
    <2>2. data' = [data EXCEPT !.mtu = wizNo] /\ fsm' = At(f, "days") /\ Ends(s) /\ UNCHANGED <<wizNo, done>>
      BY <1>2, <2>1 DEF TakeMtu, Answers, Keep, KeepWorld
    <2>3. data'.wiz = wizNo /\ data'.mtu = wizNo /\ data'.note = data.note /\ data'.kind = data.kind /\ data'.relay = data.relay
      BY <2>1, <2>2 DEF DataFine, Fields
    <2>4. Own(fsm', data') BY <2>1, <2>2, <2>3 DEF Own, At, Noted, AsksFp
    <2> QED BY <2>1, <2>2, <2>3, <2>4, OneMovesOn
  <1>3. CASE AskMtu(s, f)
    <2>0. Runs(s, f, "mtuask") /\ StepsOf("mtuask") = {"mtu"} BY <1>3, Steps DEF AskMtu
    <2>1. /\ ChatTypes /\ tasks[s] # NoTask
          /\ fsm = At(f, "mtu") /\ data.wiz = wizNo /\ wizNo # 0 /\ Own(fsm, data)
      BY <2>0, Standing
    <2>2. data' = data /\ fsm' = At(f, "mtucustom") /\ Ends(s) /\ UNCHANGED <<wizNo, done>>
      BY <1>3 DEF AskMtu, Answers, Keep, KeepWorld
    <2>4. Own(fsm', data') BY <2>1, <2>2 DEF Own, At, Noted
    <2> QED BY <2>1, <2>2, <2>4, OneMovesOn
  <1>4. CASE AskDays(s, f)
    <2>0. Runs(s, f, "daysask") /\ StepsOf("daysask") = {"days"} BY <1>4, Steps DEF AskDays
    <2>1. /\ ChatTypes /\ tasks[s] # NoTask
          /\ fsm = At(f, "days") /\ data.wiz = wizNo /\ wizNo # 0 /\ Own(fsm, data)
      BY <2>0, Standing
    <2>2. data' = data /\ fsm' = At(f, "dayscustom") /\ Ends(s) /\ UNCHANGED <<wizNo, done>>
      BY <1>4 DEF AskDays, Answers, Keep, KeepWorld
    <2>4. Own(fsm', data') BY <2>1, <2>2 DEF Own, At, Noted
    <2> QED BY <2>1, <2>2, <2>4, OneMovesOn
  <1> QED BY <1>1, <1>2, <1>3, <1>4

\* The handler answers with the next screen of its own wizard.
LEMMA OneAnswers ==
  ASSUME ChatOnce, Calm, NEW s \in Slots, NEW f, NEW h, Runs(s, f, h), StepsOf(h) # {},
         NEW step, step # "none", NEW d, Answers(s, At(f, step), d), d.wiz = data.wiz, Own(At(f, step), d)
  PROVE Calm'
  <1>1. ChatTypes /\ tasks[s] # NoTask /\ data.wiz = wizNo /\ wizNo # 0 BY Standing
  <1>2. Ends(s) /\ UNCHANGED <<wizNo, done>> /\ fsm' = At(f, step) /\ data' = d BY DEF Answers, Keep, KeepWorld
  <1>3. data'.wiz = wizNo' /\ wizNo' # 0 /\ Own(fsm', data') BY <1>1, <1>2
  <1> QED BY <1>1, <1>2, <1>3, OneMovesOn

\* A custom MTU is stored, the prompt deleted, the next screen shown.
LEMMA CustomMtuCalm ==
  ASSUME ChatOnce, Calm, NEW s \in Slots, NEW f \in {"own", "admin"}, TakeCustomMtu(s, f)
  PROVE Calm'
  <1>0. StepsOf("mtucustom") = {"mtucustom"} BY Steps DEF Answered
  <1>1. CASE Runs(s, f, "mtucustom") /\ data' = [data EXCEPT !.mtu = Screen(s)] /\ Suspends(s, <<>>) /\ Keep /\ UNCHANGED fsm
    <2>1. /\ Screen(s) = wizNo /\ DataFine(data, wizNo)
          /\ fsm = At(f, "mtucustom") /\ data.wiz = wizNo /\ Own(fsm, data)
      BY <1>0, <1>1, Standing
    <2>2. data'.wiz = data.wiz /\ data'.mtu = data'.wiz /\ data'.note = data.note /\ data'.kind = data.kind /\ data'.relay = data.relay
      BY <1>1, <2>1 DEF DataFine, Fields
    <2>3. Own(fsm, data') BY <2>1, <2>2 DEF Own, At, Noted
    <2> QED BY <1>0, <1>1, <2>2, <2>3, OneSuspends DEF Keep, KeepWorld
  <1>2. CASE tasks[s].h = "mtucustom" /\ tasks[s].f = f /\ tasks[s].pc = 2 /\ Answers(s, At(f, "days"), data)
    <2>1. Stands(tasks[s], fsm, data, wizNo) /\ ChatTypes /\ tasks[s] # NoTask BY <1>2 DEF Calm, Unmoved, ChatOnce, NoTask
    <2>2. fsm = At(f, "mtucustom") /\ data.mtu = data.wiz BY <1>0, <1>2, <2>1 DEF Stands
    <2>3. data.wiz = wizNo /\ wizNo # 0 /\ Own(fsm, data) BY <2>2 DEF Calm, Chosen, At, NoState
    <2>4. Ends(s) /\ UNCHANGED <<wizNo, done>> /\ fsm' = At(f, "days") /\ data' = data BY <1>2 DEF Answers, Keep, KeepWorld
    <2>5. Own(fsm', data') BY <2>2, <2>3, <2>4 DEF Own, At, Noted, AsksFp
    <2> QED BY <2>1, <2>3, <2>4, <2>5, OneMovesOn
  <1> QED BY <1>1, <1>2 DEF TakeCustomMtu

\* The term, from the user's buttons or typed.
LEMMA OwnDaysCalm ==
  ASSUME ChatOnce, Calm, NEW s \in Slots, CreateKeyExpiry(s) \/ CreateKeyCustomDays(s)
  PROVE Calm'
  <1>1. PICK h \in {"days", "dayscustom"} :
          Runs(s, "own", h) /\ Answers(s, At("own", "confirm"), [data EXCEPT !.days = Screen(s)])
    BY DEF CreateKeyExpiry, CreateKeyCustomDays
  <1>0. StepsOf(h) = {h} BY Steps DEF Answered
  <1>2. Screen(s) = wizNo /\ DataFine(data, wizNo) /\ fsm = At("own", h) /\ data.wiz = wizNo /\ Own(fsm, data)
    BY <1>0, <1>1, Standing
  <1> DEFINE d == [data EXCEPT !.days = Screen(s)]
  <1>3. /\ d.wiz = data.wiz /\ d.days = data.wiz /\ d.note = data.note /\ d.kind = data.kind /\ d.relay = data.relay
        /\ d.fp = data.fp /\ d.mtu = data.mtu
    BY <1>2 DEF DataFine, Fields
  <1>4. Answers(s, At("own", "confirm"), d) BY <1>1
  <1> HIDE DEF d
  <1>5. Own(At("own", "confirm"), d) BY <1>2, <1>3 DEF Own, At, Noted, AsksFp
  <1> QED BY <1>0, <1>1, <1>3, <1>4, <1>5, OneAnswers

\* The term, from the admin's: stored before the owner is read.
LEMMA AdminDaysCalm ==
  ASSUME ChatOnce, Calm, NEW s \in Slots, NEW h \in {"days", "dayscustom"}, AdminDays(s, h)
  PROVE Calm'
  <1>0. StepsOf(h) = {h} BY Steps DEF Answered
  <1>1. CASE Runs(s, "admin", h) /\ data' = [data EXCEPT !.days = Screen(s)] /\ Suspends(s, <<>>) /\ Keep /\ UNCHANGED fsm
    <2>1. /\ Screen(s) = wizNo /\ DataFine(data, wizNo)
          /\ fsm = At("admin", h) /\ data.wiz = wizNo /\ Own(fsm, data)
      BY <1>0, <1>1, Standing
    <2>2. /\ data'.wiz = data.wiz /\ data'.days = data'.wiz /\ data'.note = data.note /\ data'.kind = data.kind
          /\ data'.relay = data.relay /\ data'.fp = data.fp /\ data'.mtu = data.mtu
      BY <1>1, <2>1 DEF DataFine, Fields
    <2>3. Own(fsm, data') BY <2>1, <2>2 DEF Own, At, Noted, AsksFp
    <2> QED BY <1>0, <1>1, <2>2, <2>3, OneSuspends DEF Keep, KeepWorld
  <1>2. CASE tasks[s].h = h /\ tasks[s].f = "admin" /\ tasks[s].pc = 2 /\ Answers(s, At("admin", "confirm"), data)
    <2>1. Stands(tasks[s], fsm, data, wizNo) /\ ChatTypes /\ tasks[s] # NoTask BY <1>2 DEF Calm, Unmoved, ChatOnce, NoTask
    <2>2. fsm = At("admin", h) /\ data.days = data.wiz BY <1>0, <1>2, <2>1 DEF Stands
    <2>3. data.wiz = wizNo /\ wizNo # 0 /\ Own(fsm, data) BY <2>2 DEF Calm, Chosen, At, NoState
    <2>4. Ends(s) /\ UNCHANGED <<wizNo, done>> /\ fsm' = At("admin", "confirm") /\ data' = data
      BY <1>2 DEF Answers, Keep, KeepWorld
    <2>5. Own(fsm', data') BY <2>2, <2>3, <2>4 DEF Own, At, Noted, AsksFp
    <2> QED BY <2>1, <2>3, <2>4, <2>5, OneMovesOn
  <1> QED BY <1>1, <1>2 DEF AdminDays

\* The first screen after the kind is known: route or note.
LEMMA Prompted ==
  ASSUME ChatOnce, NEW f \in {"own", "admin"}, NEW kind
  PROVE LET p == PromptRouteOrNote(f, kind, data) IN
        /\ p.merged.wiz = data.wiz /\ DOMAIN p.merged = Fields
        /\ \E step \in {"route", "note"} :
             /\ p.state = At(f, step)
             /\ \A n : Own(At(f, step), [p.merged EXCEPT !.wiz = n])
             /\ Own(At(f, step), p.merged)
  <1> DEFINE m == [data EXCEPT !.kind = kind, !.relay = 0]
  <1>0. DOMAIN data = Fields BY DEF ChatOnce, ChatTypes, DataFine
  <1>1. m.wiz = data.wiz /\ m.relay = 0 /\ DOMAIN m = Fields BY <1>0 DEF Fields
  <1>2. \A n : [m EXCEPT !.wiz = n].relay = 0 BY <1>0 DEF Fields
  <1> HIDE DEF m
  <1>3. \A step \in {"route", "note"} : Own(At(f, step), m) /\ \A n : Own(At(f, step), [m EXCEPT !.wiz = n])
    BY <1>1, <1>2 DEF Own, At, Noted
  <1> QED BY <1>1, <1>3 DEF PromptRouteOrNote, m

\* The user's first screens.
LEMMA OwnStartCalm ==
  ASSUME ChatOnce, Calm, NEW s \in Slots,
         CreateKeyChoose(s) \/ CreateKeyChooseXhttp(s) \/ CreateKeyXhttpProfile(s) \/ CreateKeyBundle(s)
         \/ CreateKeyBundleKind(s) \/ CreateKeyRoute(s)
  PROVE Calm'
  <1>0. DOMAIN data = Fields /\ DataFine(data, wizNo) BY DEF ChatOnce, ChatTypes, DataFine
  <1>1. CASE CreateKeyChoose(s)
    <2> DEFINE p == PromptRouteOrNote("own", Arg(s), data)
    <2>1. Runs(s, "own", "choose") /\ Opens(s, p.state, p.merged) BY <1>1 DEF CreateKeyChoose
    <2>2. PICK step \in {"route", "note"} : p.state = At("own", step) /\ Own(At("own", step), [p.merged EXCEPT !.wiz = wizNo + 1])
      BY Prompted
    <2>3. DOMAIN p.merged = Fields BY Prompted
    <2> HIDE DEF p
    <2>4. tasks[s] # NoTask BY <2>1, Standing
    <2> QED BY <2>1, <2>2, <2>3, <2>4, OneOpens
  <1>2. CASE CreateKeyChooseXhttp(s)
    <2>1. tasks[s] # NoTask /\ Opens(s, At("own", "profile"), data) BY <1>2, Standing DEF CreateKeyChooseXhttp
    <2>2. Own(At("own", "profile"), [data EXCEPT !.wiz = wizNo + 1]) BY DEF Own, At, Noted
    <2> QED BY <2>1, <2>2, <1>0, OneOpens
  <1>3. CASE CreateKeyXhttpProfile(s)
    <2> DEFINE p == PromptRouteOrNote("own", "xray", data)
    <2>1. Runs(s, "own", "profile") /\ Answers(s, p.state, p.merged) BY <1>3 DEF CreateKeyXhttpProfile
    <2>2. PICK step \in {"route", "note"} : p.state = At("own", step) /\ Own(At("own", step), p.merged)
      BY Prompted
    <2>3. p.merged.wiz = data.wiz BY Prompted
    <2> HIDE DEF p
    <2>4. StepsOf("profile") # {} BY Steps DEF Answered
    <2> QED BY <2>1, <2>2, <2>3, <2>4, OneAnswers
  <1>4. CASE CreateKeyBundle(s)
    <2> DEFINE m == [data EXCEPT !.kind = "bundle"]
    <2>1. tasks[s] # NoTask /\ Opens(s, At("own", "bundlekind"), m) BY <1>4, Standing DEF CreateKeyBundle
    <2>2. DOMAIN m = Fields BY <1>0
    <2> HIDE DEF m
    <2>3. Own(At("own", "bundlekind"), [m EXCEPT !.wiz = wizNo + 1]) BY DEF Own, At, Noted
    <2> QED BY <2>1, <2>2, <2>3, OneOpens
  <1>5. CASE CreateKeyBundleKind(s)
    <2> DEFINE m == [data EXCEPT !.kind = "bundle"]
    <2>1. Runs(s, "own", "bundlekind") /\ Answers(s, At("own", "note"), m) BY <1>5 DEF CreateKeyBundleKind
    <2>2. m.wiz = data.wiz /\ m.kind = "bundle" BY <1>0 DEF Fields
    <2> HIDE DEF m
    <2>3. Own(At("own", "note"), m) BY <2>2 DEF Own, At, Noted, RelayProtocols
    <2>4. StepsOf("bundlekind") # {} BY Steps DEF Answered
    <2> QED BY <2>1, <2>2, <2>3, <2>4, OneAnswers
  <1>6. CASE CreateKeyRoute(s)
    <2>0. Runs(s, "own", "route") /\ StepsOf("route") # {} BY <1>6, Steps DEF CreateKeyRoute, Answered
    <2>1. Screen(s) = wizNo /\ data.wiz = wizNo /\ ChatTypes /\ tasks[s] # NoTask BY <2>0, Standing
    <2>2. CASE Ends(s) /\ Keep /\ UNCHANGED <<fsm, data>> BY <2>1, <2>2, OneLeaves DEF Keep, KeepWorld
    <2>3. ASSUME NEW v \in {Screen(s), 0}, Answers(s, At("own", "note"), [data EXCEPT !.relay = v]) PROVE Calm'
      <3> DEFINE m == [data EXCEPT !.relay = v]
      <3>1. m.wiz = data.wiz /\ m.relay \in {0, m.wiz} BY <1>0, <2>1 DEF Fields
      <3>2. Answers(s, At("own", "note"), m) BY <2>3
      <3> HIDE DEF m
      <3>3. Own(At("own", "note"), m) BY <3>1 DEF Own, At, Noted
      <3> QED BY <2>0, <3>1, <3>2, <3>3, OneAnswers
    <2> QED BY <1>6, <2>2, <2>3 DEF CreateKeyRoute, ChooseRoute
  <1> QED BY <1>1, <1>2, <1>3, <1>4, <1>5, <1>6

\* A screen of the admin's wizard, answered for the client it is about.
LEMMA SameOwnerCalm ==
  ASSUME ChatOnce, Calm, NEW s \in Slots, NEW h, Runs(s, "admin", h), StepsOf(h) # {},
         \/ Ends(s) /\ Keep /\ Clear
         \/ Ends(s) /\ Keep /\ UNCHANGED <<fsm, data>>
         \/ \E step \in {"type", "profile"} : Answers(s, At("admin", step), data)
         \/ \E kind : LET p == PromptRouteOrNote("admin", kind, data) IN Answers(s, p.state, p.merged)
         \/ \E v \in {Screen(s), 0} : Answers(s, At("admin", "note"), [data EXCEPT !.relay = v])
  PROVE Calm'
  <1>0. DOMAIN data = Fields BY DEF ChatOnce, ChatTypes, DataFine
  <1>1. ChatTypes /\ tasks[s] # NoTask /\ Screen(s) = wizNo /\ data.wiz = wizNo BY Standing
  <1>2. CASE Ends(s) /\ Keep /\ Clear BY <1>1, <1>2, OneClears DEF Keep, KeepWorld
  <1>3. CASE Ends(s) /\ Keep /\ UNCHANGED <<fsm, data>> BY <1>1, <1>3, OneLeaves DEF Keep, KeepWorld
  <1>4. ASSUME NEW step \in {"type", "profile"}, Answers(s, At("admin", step), data) PROVE Calm'
    <2>1. Own(At("admin", step), data) BY DEF Own, At, Noted
    <2> QED BY <1>4, <2>1, OneAnswers
  <1>5. ASSUME NEW kind, LET p == PromptRouteOrNote("admin", kind, data) IN Answers(s, p.state, p.merged) PROVE Calm'
    <2> DEFINE p == PromptRouteOrNote("admin", kind, data)
    <2>1. Answers(s, p.state, p.merged) BY <1>5
    <2>2. PICK step \in {"route", "note"} : p.state = At("admin", step) /\ Own(At("admin", step), p.merged) BY Prompted
    <2>3. p.merged.wiz = data.wiz BY Prompted
    <2> HIDE DEF p
    <2> QED BY <2>1, <2>2, <2>3, OneAnswers
  <1>6. ASSUME NEW v \in {Screen(s), 0}, Answers(s, At("admin", "note"), [data EXCEPT !.relay = v]) PROVE Calm'
    <2> DEFINE m == [data EXCEPT !.relay = v]
    <2>1. m.wiz = data.wiz /\ m.relay \in {0, m.wiz} BY <1>0, <1>1 DEF Fields
    <2>2. Answers(s, At("admin", "note"), m) BY <1>6
    <2> HIDE DEF m
    <2>3. Own(At("admin", "note"), m) BY <2>1 DEF Own, At, Noted
    <2> QED BY <2>1, <2>2, <2>3, OneAnswers
  <1> QED BY <1>2, <1>3, <1>4, <1>5, <1>6

\* The admin's first screens.
LEMMA AdminStartCalm ==
  ASSUME ChatOnce, Calm, NEW s \in Slots,
         AdminIssueUserSelected(s) \/ AdminIssueVless(s) \/ AdminIssueType(s) \/ AdminIssueProfile(s) \/ AdminIssueRoute(s)
  PROVE Calm'
  <1>0. DOMAIN data = Fields BY DEF ChatOnce, ChatTypes, DataFine
  <1>s. StepsOf("vless") # {} /\ StepsOf("type") # {} /\ StepsOf("profile") # {} /\ StepsOf("route") # {}
    BY Steps DEF Answered
  <1>1. CASE AdminIssueUserSelected(s)
    <2> DEFINE m == [data EXCEPT !.owner = Arg(s)]
    <2>1. tasks[s] # NoTask /\ Opens(s, At("admin", "type"), m) BY <1>1, Standing DEF AdminIssueUserSelected
    <2>2. DOMAIN m = Fields BY <1>0
    <2> HIDE DEF m
    <2>3. Own(At("admin", "type"), [m EXCEPT !.wiz = wizNo + 1]) BY DEF Own, At, Noted
    <2> QED BY <2>1, <2>2, <2>3, OneOpens
  <1>2. CASE AdminIssueVless(s) BY <1>2, <1>s, SameOwnerCalm DEF AdminIssueVless, SameOwner
  <1>3. CASE AdminIssueType(s) BY <1>3, <1>s, SameOwnerCalm DEF AdminIssueType, SameOwner
  <1>4. CASE AdminIssueProfile(s) BY <1>4, <1>s, SameOwnerCalm DEF AdminIssueProfile, SameOwner
  <1>5. CASE AdminIssueRoute(s) BY <1>5, <1>s, SameOwnerCalm DEF AdminIssueRoute, SameOwner, ChooseRoute
  <1> QED BY <1>1, <1>2, <1>3, <1>4, <1>5

\* What a key is made of is the wizard's own.
LEMMA UsedOwn ==
  ASSUME NEW f \in {"own", "admin"}, Own(At(f, "confirm"), data)
  PROVE Used(data) \subseteq {0, data.wiz}
  BY DEF Own, At, Noted, Used, AsksFp, RelayProtocols

\* The key is issued from the data of the confirmed screen.
LEMMA IssueCalm ==
  ASSUME ChatOnce, Calm, NEW s \in Slots, tasks[s] # NoTask, NEW f \in {"own", "admin"}, fsm = At(f, "confirm"),
         NEW t, IssueKey(data, [slot |-> s, task |-> t]), Stands(t, NoState, NoData, wizNo)
  PROVE Calm'
  <1> DEFINE d == data
             n == [slot |-> s, task |-> t]
  <1>0. ChatTypes /\ DOMAIN tasks = Slots /\ wizNo' = wizNo BY DEF ChatOnce, ChatTypes, IssueKey
  <1>1. IssueKey(d, n) /\ n.slot = s /\ n.task = t OBVIOUS
  <1>u. Used(data) \subseteq {0, data.wiz} BY UsedOwn DEF Calm, Chosen
  <1> HIDE DEF n
  <1>2. CASE Ends(s) /\ UNCHANGED <<fsm, data, done>> BY <1>0, <1>2, OneLeaves
  <1>3. CASE Clear /\ tasks' = [tasks EXCEPT ![s] = t] /\ (IF data.kind = "none" THEN done' = done ELSE Did("key", data, Used(data), data.relay))
    <2>1. tasks'[s] = t /\ \A o \in Slots \ {s} : tasks'[o] = tasks[o] BY <1>0, <1>3
    <2>2. Stands(tasks'[s], fsm', data', wizNo') BY <1>0, <1>3, <2>1 DEF Clear
    <2>3. CASE data.kind = "none"
      <3>1. Chosen' BY <1>3 DEF Chosen, Own, Clear, NoState
      <3>2. Serial' /\ Unmoved' BY <2>1, <2>2, OneTask DEF Calm
      <3>3. OwnChoicesOnly' BY <1>3, <2>3 DEF Calm, OwnChoicesOnly
      <3> QED BY <3>1, <3>2, <3>3 DEF Calm
    <2>4. CASE data.kind # "none" BY <1>0, <1>3, <1>u, <2>1, <2>2, <2>4, OneFinishes
    <2> QED BY <2>3, <2>4
  <1> QED BY <1>1, <1>2, <1>3 DEF IssueKey, Ends

\* Both confirm buttons.
LEMMA ConfirmCalm ==
  ASSUME ChatOnce, Calm, NEW s \in Slots, CreateKeyConfirm(s) \/ AdminIssueConfirm(s)
  PROVE Calm'
  <1>s. StepsOf("confirm") = {"confirm"} BY Steps DEF Answered
  <1>0. ChatTypes /\ TaskFine(tasks[s], wizNo) /\ DOMAIN tasks = Slots /\ Stands(tasks[s], fsm, data, wizNo)
    BY DEF ChatOnce, ChatTypes, Calm, Unmoved
  <1>1. CASE CreateKeyConfirm(s)
    <2>1. /\ tasks[s] # NoTask /\ fsm = At("own", "confirm") /\ tasks[s].cap[1] = data
      BY <1>0, <1>1, <1>s, Standing DEF CreateKeyConfirm, Runs, Stands
    <2>2. IssueKey(data, [slot |-> s, task |-> NoTask]) BY <1>1, <2>1 DEF CreateKeyConfirm
    <2> QED BY <2>1, <2>2, EmptyStands, IssueCalm
  <1>2. CASE AdminIssueConfirm(s)
    <2>1. CASE Runs(s, "admin", "confirm") /\ Ends(s) /\ Keep /\ UNCHANGED <<fsm, data>>
      BY <2>1, Standing, OneLeaves DEF Keep, KeepWorld
    <2>2. CASE Runs(s, "admin", "confirm") /\ Suspends(s, <<data>>) /\ Keep /\ UNCHANGED <<fsm, data>>
      <3>1. Own(fsm, data) BY DEF Calm, Chosen
      <3> QED BY <1>s, <2>2, <3>1, OneSuspends DEF Keep, KeepWorld
    <2>3. CASE /\ tasks[s].h = "confirm" /\ tasks[s].pc = 2
               /\ IssueKey(tasks[s].cap[1], [slot |-> s, task |-> [tasks[s] EXCEPT !.pc = 3, !.cap = <<>>]])
      <3> DEFINE t == [tasks[s] EXCEPT !.pc = 3, !.cap = <<>>]
      <3>a. tasks[s] # NoTask /\ tasks[s].pc # 0 BY <2>3 DEF NoTask
      <3>b. tasks[s].cap[1] = data /\ tasks[s].wiz = wizNo /\ tasks[s].f \in {"own", "admin"}
        BY <1>0, <2>3, <3>a DEF Stands
      <3>c. fsm = At(tasks[s].f, "confirm") BY <1>0, <1>s, <2>3 DEF Stands
      <3>1. /\ tasks[s] # NoTask /\ tasks[s].cap[1] = data /\ fsm = At(tasks[s].f, "confirm") /\ tasks[s].wiz = wizNo
            /\ tasks[s].f \in {"own", "admin"}
        BY <3>a, <3>b, <3>c
      <3>2. t.pc = 3 /\ t.h = "confirm" /\ t.wiz = wizNo /\ t.f = tasks[s].f BY <1>0, <2>3, <3>1 DEF TaskFine
      <3>3. IssueKey(data, [slot |-> s, task |-> t]) BY <2>3, <3>1
      <3> HIDE DEF t
      <3>4. Stands(t, NoState, NoData, wizNo) BY <3>1, <3>2 DEF Stands
      <3> QED BY <3>1, <3>3, <3>4, IssueCalm
    <2>4. CASE tasks[s].h = "confirm" /\ tasks[s].pc = 3 /\ Ends(s) /\ Keep /\ UNCHANGED <<fsm, data>>
      BY <1>0, <2>4, OneLeaves DEF Keep, KeepWorld, NoTask
    <2> QED BY <1>2, <2>1, <2>2, <2>3, <2>4 DEF AdminIssueConfirm
  <1> QED BY <1>1, <1>2

\* The update ends, and with it the wizard; what was done is of the wizard's own choices.
LEMMA OneDone ==
  ASSUME ChatTypes, Calm, NEW s \in Slots, tasks[s] # NoTask, Ends(s), Clear,
         NEW what, NEW d, NEW used, Does(what, d, used), used \subseteq {0, d.wiz}
  PROVE Calm'
  <1>1. tasks'[s] = NoTask /\ \A o \in Slots \ {s} : tasks'[o] = tasks[o] BY DEF Ends, ChatTypes
  <1>2. Stands(tasks'[s], fsm', data', wizNo') BY <1>1, EmptyStands
  <1>3. Did(what, d, used, 0) BY DEF Does
  <1> QED BY <1>1, <1>2, <1>3, OneFinishes

\* A prompt names its own entity.
LEMMA PromptCalm ==
  ASSUME ChatOnce, Calm, NEW s \in Slots,
         EditNotePrompt(s) \/ EditBundleNotePrompt(s) \/ EditFpPrompt(s) \/ ChangeBundleFpPrompt(s) \/ AdminEditUserNote(s)
  PROVE Calm'
  <1>0. DOMAIN data = Fields /\ wizNo \in Nat BY DEF ChatOnce, ChatTypes, DataFine
  <1> DEFINE k == TargetKey(data, wizNo + 1)
             b == TargetBundle(data, wizNo + 1)
             u == [data EXCEPT !.user = wizNo + 1]
  <1>1. DOMAIN k = Fields /\ DOMAIN b = Fields /\ DOMAIN u = Fields BY <1>0 DEF TargetKey, TargetBundle
  <1>2. /\ EditTarget([k EXCEPT !.wiz = wizNo + 1]) = wizNo + 1 /\ [k EXCEPT !.wiz = wizNo + 1].wiz = wizNo + 1
        /\ EditTarget([b EXCEPT !.wiz = wizNo + 1]) = wizNo + 1 /\ [b EXCEPT !.wiz = wizNo + 1].wiz = wizNo + 1
        /\ [u EXCEPT !.wiz = wizNo + 1].user = wizNo + 1 /\ [u EXCEPT !.wiz = wizNo + 1].wiz = wizNo + 1
    BY <1>0 DEF EditTarget, TargetKey, TargetBundle, Fields
  <1>3. tasks[s] # NoTask BY DEF EditNotePrompt, EditBundleNotePrompt, EditFpPrompt, ChangeBundleFpPrompt, AdminEditUserNote,
                                  Runs, NoTask
  <1>4. \/ Opens(s, At("edit", "newnote"), k) \/ Opens(s, At("edit", "newnote"), b)
        \/ Opens(s, At("edit", "fp"), k) \/ Opens(s, At("edit", "fp"), b) \/ Opens(s, At("edit", "usernote"), u)
    BY DEF EditNotePrompt, EditBundleNotePrompt, EditFpPrompt, ChangeBundleFpPrompt, AdminEditUserNote
  <1> HIDE DEF k, b, u
  <1>5. \A step \in {"newnote", "fp"} : /\ Own(At("edit", step), [k EXCEPT !.wiz = wizNo + 1])
                                        /\ Own(At("edit", step), [b EXCEPT !.wiz = wizNo + 1])
    BY <1>2 DEF Own, At
  <1>6. Own(At("edit", "usernote"), [u EXCEPT !.wiz = wizNo + 1]) BY <1>2 DEF Own, At
  <1> QED BY <1>1, <1>3, <1>4, <1>5, <1>6, OneOpens

\* A new note hits what the prompt named.
LEMMA NewNoteCalm ==
  ASSUME ChatOnce, Calm, NEW s \in Slots, EditNoteWaiting(s) \/ EditNoteConfirm(s) \/ EditFpSelect(s)
  PROVE Calm'
  <1>s. StepsOf("newnote") = {"newnote"} /\ StepsOf("savenote") = {"savenote"} /\ StepsOf("setfp") = {"fp"}
    BY Steps DEF Answered
  <1>0. ChatTypes /\ Stands(tasks[s], fsm, data, wizNo) /\ DataFine(data, wizNo) BY DEF ChatOnce, ChatTypes, Calm, Unmoved
  <1>1. CASE Runs(s, "edit", "newnote") /\ data' = [data EXCEPT !.note = Screen(s)] /\ Suspends(s, <<>>) /\ Keep /\ UNCHANGED fsm
    <2>1. Screen(s) = wizNo /\ fsm = At("edit", "newnote") /\ data.wiz = wizNo /\ Own(fsm, data)
      BY <1>s, <1>1, Standing
    <2>2. data'.wiz = data.wiz /\ data'.note = data'.wiz /\ data'.bundle = data.bundle /\ data'.key = data.key
      BY <1>0, <1>1, <2>1 DEF DataFine, Fields
    <2>3. Own(fsm, data') BY <2>1, <2>2 DEF Own, At, EditTarget
    <2> QED BY <1>s, <1>1, <2>2, <2>3, OneSuspends DEF Keep, KeepWorld
  <1>2. CASE tasks[s].h = "newnote" /\ tasks[s].pc = 2 /\ Answers(s, At("edit", "savenote"), data)
    <2>a. StepsOf(tasks[s].h) # {} /\ StepsOf(tasks[s].h) = {"newnote"} BY <1>s, <1>2
    <2>1. fsm = At("edit", "newnote") /\ data.note = data.wiz BY <1>0, <1>2, <2>a DEF Stands
    <2>2. data.wiz = wizNo /\ wizNo # 0 /\ Own(fsm, data) BY <2>1 DEF Calm, Chosen, At, NoState
    <2>3. Ends(s) /\ UNCHANGED <<wizNo, done>> /\ fsm' = At("edit", "savenote") /\ data' = data
      BY <1>2 DEF Answers, Keep, KeepWorld
    <2>4. Own(fsm', data') BY <2>1, <2>2, <2>3, <1>0 DEF Own, At
    <2> QED BY <1>0, <1>2, <2>2, <2>3, <2>4, OneMovesOn DEF NoTask
  <1>3. CASE EditNoteConfirm(s)
    <2>1. CASE Runs(s, "edit", "savenote") /\ Suspends(s, <<>>) /\ UNCHANGED <<fsm, data, wizNo, done, relayOn, races>>
      <3>1. Own(fsm, data) BY DEF Calm, Chosen
      <3> QED BY <1>s, <2>1, <3>1, OneSuspends
    <2>2. CASE Runs(s, "edit", "savenote") /\ Ends(s) /\ UNCHANGED <<fsm, data, wizNo, done, relayOn, races>>
      BY <2>2, Standing, OneLeaves
    <2>3. CASE tasks[s].h = "savenote" /\ tasks[s].pc = 2 /\ Ends(s) /\ Clear /\ done' = done
      BY <1>0, <2>3, OneClears DEF NoTask
    <2>4. CASE tasks[s].h = "savenote" /\ tasks[s].pc = 2 /\ Ends(s) /\ Clear /\ Does("note", data, {EditTarget(data), data.note})
      <3>1. fsm = At("edit", "savenote") BY <1>0, <1>s, <2>4 DEF Stands
      <3>2. Own(fsm, data) BY DEF Calm, Chosen
      <3>3. {EditTarget(data), data.note} \subseteq {0, data.wiz} BY <3>1, <3>2 DEF Own, At
      <3> QED BY <1>0, <2>4, <3>3, OneDone DEF NoTask
    <2> QED BY <1>3, <2>1, <2>2, <2>3, <2>4 DEF EditNoteConfirm
  <1>4. CASE EditFpSelect(s)
    <2>0. Runs(s, "edit", "setfp") BY <1>4 DEF EditFpSelect
    <2>1. tasks[s] # NoTask /\ fsm = At("edit", "fp") /\ Own(fsm, data) BY <1>s, <2>0, Standing
    <2>2. {EditTarget(data)} \subseteq {0, data.wiz} BY <2>1 DEF Own, At
    <2> QED BY <1>0, <1>4, <2>1, <2>2, OneClears, OneDone DEF EditFpSelect
  <1> QED BY <1>1, <1>2, <1>3, <1>4 DEF EditNoteWaiting

\* A new note on a user.
LEMMA UserNoteCalm ==
  ASSUME ChatOnce, Calm, NEW s \in Slots, AdminEditUserNoteInput(s)
  PROVE Calm'
  <1>s. StepsOf("usernoteinput") = {"usernote"} BY Steps
  <1>0. ChatTypes /\ Stands(tasks[s], fsm, data, wizNo) BY DEF ChatOnce, ChatTypes, Calm, Unmoved
  <1>1. CASE Runs(s, "edit", "usernoteinput") /\ Ends(s) /\ Clear /\ Keep
    BY <1>0, <1>1, Standing, OneClears DEF Keep, KeepWorld
  <1>2. CASE Runs(s, "edit", "usernoteinput") /\ Suspends(s, <<data>>) /\ UNCHANGED <<fsm, data>> /\ Keep
    <2>1. Own(fsm, data) BY DEF Calm, Chosen
    <2> QED BY <1>s, <1>2, <2>1, OneSuspends DEF Keep, KeepWorld
  <1>3. CASE /\ tasks[s].h = "usernoteinput" /\ tasks[s].pc = 2 /\ Ends(s) /\ Clear
             /\ Does("usernote", tasks[s].cap[1], {tasks[s].cap[1].user})
    <2>1. tasks[s] # NoTask /\ tasks[s].cap[1] = data /\ tasks[s].f = "edit" BY <1>0, <1>3 DEF Stands, NoTask
    <2>2. fsm = At("edit", "usernote") BY <1>0, <1>s, <1>3, <2>1 DEF Stands
    <2>3. Own(fsm, data) BY DEF Calm, Chosen
    <2>4. {data.user} \subseteq {0, data.wiz} BY <2>2, <2>3 DEF Own, At
    <2>5. Does("usernote", data, {data.user}) BY <1>3, <2>1
    <2> QED BY <1>0, <1>3, <2>1, <2>4, <2>5, OneDone
  <1> QED BY <1>1, <1>2, <1>3 DEF AdminEditUserNoteInput

\* Proxy access.
LEMMA ProxyCalm ==
  ASSUME ChatOnce, Calm, NEW s \in Slots, ProxyGetPrompt(s) \/ ProxyConfirm(s)
  PROVE Calm'
  <1>0. ChatTypes /\ DOMAIN data = Fields BY DEF ChatOnce, ChatTypes, DataFine
  <1>1. CASE ProxyGetPrompt(s)
    <2> DEFINE m == [data EXCEPT !.nonce = wizNo + 1]
    <2>1. tasks[s] # NoTask /\ Opens(s, At("proxy", "confirm"), m) BY <1>1 DEF ProxyGetPrompt, Runs, NoTask
    <2>2. DOMAIN m = Fields BY <1>0
    <2> HIDE DEF m
    <2>3. Own(At("proxy", "confirm"), [m EXCEPT !.wiz = wizNo + 1]) BY DEF Own, At
    <2> QED BY <2>1, <2>2, <2>3, OneOpens
  <1>2. CASE ProxyConfirm(s)
    <2> DEFINE d == [data EXCEPT !.wiz = Arg(s)]
    <2>1. /\ tasks[s] # NoTask /\ Ends(s) /\ wizNo' = wizNo
          /\ \/ Clear /\ done' = done
             \/ UNCHANGED <<fsm, data, done>>
             \/ data.nonce = Arg(s) /\ Clear /\ Does("proxy", d, {data.nonce})
      BY <1>2 DEF ProxyConfirm, Runs, NoTask
    <2>2. d.wiz = Arg(s) BY <1>0 DEF Fields
    <2> HIDE DEF d
    <2>3. data.nonce = Arg(s) => {data.nonce} \subseteq {0, d.wiz} BY <2>2
    <2> QED BY <1>0, <2>1, <2>3, OneClears, OneLeaves, OneDone
  <1> QED BY <1>1, <1>2

\* The audience of an announcement.
LEMMA AudienceCalm ==
  ASSUME ChatOnce, Calm, NEW s \in Slots,
         ToggleRole(s) \/ RolesDone(s) \/ BackToRoles(s) \/ ToggleProtocol(s) \/ ProtocolsDone(s) \/ BackToProtocols(s)
         \/ ToggleTransport(s) \/ TransportsDone(s)
  PROVE Calm'
  <1>0. DOMAIN data = Fields BY DEF ChatOnce, ChatTypes, DataFine
  <1> DEFINE Goes(h, step, d) == Runs(s, "ann", h) /\ Answers(s, At("ann", step), d)
  <1>1. ASSUME NEW h \in {"role", "rolesdone", "proto", "backroles", "protosdone", "tr", "backprotos", "trsdone"},
               NEW step \in {"roles", "protos", "trs", "message"}, NEW d, Goes(h, step, d), d.wiz = data.wiz,
               step = "trs" => "xray" \in d.protos,
               step = "message" /\ d.trs # {} => "xray" \in d.protos
        PROVE Calm'
    <2>1. StepsOf(h) # {} BY Steps
    <2>2. Own(At("ann", step), d) BY <1>1 DEF Own, At
    <2> QED BY <1>1, <2>1, <2>2, OneAnswers
  <1>2. \A h, step : Runs(s, "ann", h) /\ StepsOf(h) = {step} => fsm = At("ann", step) /\ Own(fsm, data)
    BY Standing
  <1> DEFINE R(v) == [data EXCEPT !.roles = v]
             P(v) == [data EXCEPT !.protos = v]
             T(v) == [data EXCEPT !.trs = v]
             PT == [data EXCEPT !.protos = {}, !.trs = {}]
  <1>3. /\ \A v : R(v).wiz = data.wiz /\ P(v).wiz = data.wiz /\ T(v).wiz = data.wiz
        /\ PT.wiz = data.wiz /\ PT.trs = {}
        /\ \A v : T(v).trs = v /\ T(v).protos = data.protos
    BY <1>0 DEF Fields
  <1>4. CASE ToggleRole(s)
    <2>1. Runs(s, "ann", "role") /\ StepsOf("role") = {"roles"} BY <1>4, Steps DEF ToggleRole
    <2>2. fsm = At("ann", "roles") BY <1>2, <2>1
    <2>3. Goes("role", "protos", R({})) \/ Goes("role", "roles", R(Toggle(data.roles, Arg(s))))
      BY <1>4, <2>2 DEF ToggleRole
    <2> HIDE DEF Goes, R
    <2> QED BY <1>1, <1>3, <2>3
  <1>5. CASE RolesDone(s)
    <2>1. Runs(s, "ann", "rolesdone") /\ StepsOf("rolesdone") = {"roles"} BY <1>5, Steps DEF RolesDone
    <2>2. fsm = At("ann", "roles") BY <1>2, <2>1
    <2>3. Goes("rolesdone", "protos", data) \/ Goes("rolesdone", "roles", data) BY <1>5, <2>2 DEF RolesDone
    <2> HIDE DEF Goes
    <2> QED BY <1>1, <2>3
  <1>6. CASE BackToRoles(s)
    <2>1. Goes("backroles", "roles", data) BY <1>6 DEF BackToRoles
    <2> HIDE DEF Goes
    <2> QED BY <1>1, <2>1
  <1>7. CASE ToggleProtocol(s)
    <2>1. Runs(s, "ann", "proto") /\ StepsOf("proto") = {"protos"} BY <1>7, Steps DEF ToggleProtocol
    <2>2. fsm = At("ann", "protos") BY <1>2, <2>1
    <2>3. Goes("proto", "message", PT) \/ Goes("proto", "protos", P(Toggle(data.protos, Arg(s))))
      BY <1>7, <2>2 DEF ToggleProtocol
    <2> HIDE DEF Goes, P, PT
    <2> QED BY <1>1, <1>3, <2>3
  <1>8. CASE ProtocolsDone(s)
    <2>1. Runs(s, "ann", "protosdone") /\ StepsOf("protosdone") = {"protos"} BY <1>8, Steps DEF ProtocolsDone
    <2>2. fsm = At("ann", "protos") BY <1>2, <2>1
    <2>3. \/ Goes("protosdone", "protos", data)
          \/ Goes("protosdone", "trs", data) /\ "xray" \in data.protos
          \/ Goes("protosdone", "message", T({}))
      BY <1>8, <2>2 DEF ProtocolsDone
    <2> HIDE DEF Goes, T
    <2> QED BY <1>1, <1>3, <2>3
  <1>9. CASE BackToProtocols(s)
    <2>1. Goes("backprotos", "protos", data) BY <1>9 DEF BackToProtocols
    <2> HIDE DEF Goes
    <2> QED BY <1>1, <2>1
  <1>10. CASE ToggleTransport(s)
    <2>1. Runs(s, "ann", "tr") /\ StepsOf("tr") = {"trs"} BY <1>10, Steps DEF ToggleTransport
    <2>2. fsm = At("ann", "trs") /\ Own(fsm, data) BY <1>2, <2>1
    <2>3. "xray" \in data.protos BY <2>2 DEF Own, At
    <2>4. Goes("tr", "message", T({})) \/ Goes("tr", "trs", T(Toggle(data.trs, Arg(s))))
      BY <1>10, <2>2 DEF ToggleTransport
    <2> HIDE DEF Goes, T
    <2> QED BY <1>1, <1>3, <2>3, <2>4
  <1>11. CASE TransportsDone(s)
    <2>1. Runs(s, "ann", "trsdone") /\ StepsOf("trsdone") = {"trs"} BY <1>11, Steps DEF TransportsDone
    <2>2. fsm = At("ann", "trs") /\ Own(fsm, data) BY <1>2, <2>1
    <2>3. "xray" \in data.protos BY <2>2 DEF Own, At
    <2>4. Goes("trsdone", "message", data) \/ Goes("trsdone", "trs", data) BY <1>11, <2>2 DEF TransportsDone
    <2> HIDE DEF Goes
    <2> QED BY <1>1, <2>3, <2>4
  <1> QED BY <1>4, <1>5, <1>6, <1>7, <1>8, <1>9, <1>10, <1>11

\* The message and its sending.
LEMMA SendCalm ==
  ASSUME ChatOnce, Calm, NEW s \in Slots,
         AdminAnnouncementStart(s) \/ AnnouncementMessage(s) \/ AnnouncementSend(s) \/ AnnouncementScheduleRequest(s)
         \/ AnnouncementScheduleTime(s) \/ AnnouncementCancel(s)
  PROVE Calm'
  <1>0. ChatTypes /\ DOMAIN data = Fields BY DEF ChatOnce, ChatTypes, DataFine
  <1>s. /\ StepsOf("message") = {"message"} /\ StepsOf("send") = {"send"} /\ StepsOf("schedule") = {"schedule"}
        /\ StepsOf("schedulerequest") = {"send"}
    BY Steps DEF Answered
  <1>1. CASE AdminAnnouncementStart(s)
    <2>1. tasks[s] # NoTask /\ Opens(s, At("ann", "roles"), NoData) BY <1>1 DEF AdminAnnouncementStart, Runs, NoTask
    <2>2. DOMAIN NoData = Fields BY DEF NoData, Fields
    <2>3. Own(At("ann", "roles"), [NoData EXCEPT !.wiz = wizNo + 1]) BY DEF Own, At
    <2> QED BY <2>1, <2>2, <2>3, OneOpens
  <1>2. CASE AnnouncementMessage(s)
    <2> DEFINE m == [data EXCEPT !.msg = Screen(s)]
    <2>1. Runs(s, "ann", "message") /\ Answers(s, At("ann", "send"), m) BY <1>2 DEF AnnouncementMessage
    <2>2. Screen(s) = wizNo /\ fsm = At("ann", "message") /\ data.wiz = wizNo /\ Own(fsm, data) BY <1>s, <2>1, Standing
    <2>3. m.wiz = data.wiz /\ m.msg = m.wiz /\ m.trs = data.trs /\ m.protos = data.protos BY <1>0, <2>2 DEF Fields
    <2> HIDE DEF m
    <2>4. Own(At("ann", "send"), m) BY <2>2, <2>3 DEF Own, At
    <2> QED BY <1>s, <2>1, <2>3, <2>4, OneAnswers
  <1>3. CASE AnnouncementSend(s)
    <2>1. Runs(s, "ann", "send") /\ Ends(s) /\ wizNo' = wizNo BY <1>3 DEF AnnouncementSend
    <2>2. tasks[s] # NoTask /\ fsm = At("ann", "send") /\ Own(fsm, data) BY <1>s, <2>1, Standing
    <2>3. {data.msg} \subseteq {0, data.wiz} BY <2>2 DEF Own, At
    <2> QED BY <1>0, <1>3, <2>1, <2>2, <2>3, OneLeaves, OneDone DEF AnnouncementSend
  <1>4. CASE AnnouncementScheduleRequest(s)
    <2>1. Runs(s, "ann", "schedulerequest") /\ Answers(s, At("ann", "schedule"), data) BY <1>4 DEF AnnouncementScheduleRequest
    <2>2. fsm = At("ann", "send") /\ Own(fsm, data) BY <1>s, <2>1, Standing
    <2>3. Own(At("ann", "schedule"), data) BY <2>2 DEF Own, At
    <2> QED BY <1>s, <2>1, <2>3, OneAnswers
  <1>5. CASE AnnouncementScheduleTime(s)
    <2>1. Runs(s, "ann", "schedule") /\ Ends(s) /\ Clear BY <1>5 DEF AnnouncementScheduleTime
    <2>2. tasks[s] # NoTask /\ fsm = At("ann", "schedule") /\ Own(fsm, data) BY <1>s, <2>1, Standing
    <2>3. {data.msg} \subseteq {0, data.wiz} BY <2>2 DEF Own, At
    <2> QED BY <1>0, <1>5, <2>1, <2>2, <2>3, OneClears, OneDone DEF AnnouncementScheduleTime
  <1>6. CASE AnnouncementCancel(s)
    <2>1. tasks[s] # NoTask /\ Ends(s) /\ UNCHANGED <<wizNo, done>> /\ (Clear \/ UNCHANGED <<fsm, data>>)
      BY <1>6 DEF AnnouncementCancel, Runs, NoTask, Keep, KeepWorld
    <2> QED BY <1>0, <2>1, OneClears, OneLeaves
  <1> QED BY <1>1, <1>2, <1>3, <1>4, <1>5, <1>6

\* An update is dispatched while no other is in progress.
LEMMA TapCalm ==
  ASSUME ChatOnce, Calm, NEW s \in Slots, NEW f, NEW h, NEW steps, NEW arg, Tap(s, f, h, steps, arg),
         races = 0, races' = 0, steps = StepsOf(h),
         h = "confirm" => f \in {"own", "admin"},
         h \in {"newnote", "savenote", "usernoteinput"} => f = "edit"
  PROVE Calm'
  <1>0. ChatTypes /\ wizNo \in Nat /\ DOMAIN tasks = Slots BY DEF ChatOnce, ChatTypes
  <1>1. ~Busy BY DEF Tap, Overlap
  <1>2. \A o \in Slots : tasks[o] = NoTask BY <1>1 DEF Busy
  <1> DEFINE t == [h |-> h, f |-> f, arg |-> arg, wiz |-> wizNo, pc |-> 1, cap |-> IF h = "confirm" THEN <<data>> ELSE <<>>]
  <1>3. tasks'[s] = t /\ UNCHANGED <<fsm, data, wizNo, done>> /\ \A o \in Slots \ {s} : tasks'[o] = NoTask
    BY <1>0, <1>2 DEF Tap
  <1>4. StepsOf(h) # {} => fsm \in {At(f, step) : step \in StepsOf(h)} BY DEF Tap
  <1>5. Stands(t, fsm, data, wizNo) BY <1>4 DEF Stands
  <1> HIDE DEF t
  <1>6. Serial' BY <1>3 DEF Serial
  <1>7. Unmoved' BY <1>3, <1>5, EmptyStands DEF Unmoved
  <1>8. Chosen' BY <1>3 DEF Calm, Chosen
  <1>9. OwnChoicesOnly' BY <1>3 DEF Calm, OwnChoicesOnly
  <1> QED BY <1>6, <1>7, <1>8, <1>9 DEF Calm

\* The taps that are offered.
LEMMA TapsCalm ==
  ASSUME ChatOnce, Calm, NEW s \in Slots, races = 0, races' = 0,
         OwnTaps(s) \/ AdminTaps(s) \/ EditTaps(s) \/ ProxyTaps(s) \/ AnnTaps(s)
  PROVE Calm'
  <1>1. CASE OwnTaps(s) BY <1>1, Steps, TapCalm DEF OwnTaps, Entries, Answered
  <1>2. CASE AdminTaps(s) BY <1>2, Steps, TapCalm DEF AdminTaps, Entries, Answered
  <1>3. CASE EditTaps(s) BY <1>3, Steps, TapCalm DEF EditTaps, Entries, Answered
  <1>4. CASE ProxyTaps(s) BY <1>4, Steps, TapCalm DEF ProxyTaps, Entries, Answered
  <1>5. CASE AnnTaps(s) BY <1>5, Steps, TapCalm DEF AnnTaps, Entries, Answered
  <1> QED BY <1>1, <1>2, <1>3, <1>4, <1>5

\* A refusal ends the update; cancelling and expiry end the wizard; a relay or a window changes no choice.
LEMMA OthersCalm ==
  ASSUME ChatOnce, Calm, races = 0, races' = 0,
         (\E s \in Slots : Denied(s)) \/ ProxyCancel \/ CancelCallback \/ ExpireStale \/ RelayGoes \/ Tick
  PROVE Calm'
  <1>0. ChatTypes BY DEF ChatOnce
  <1>1. ASSUME NEW s \in Slots, Denied(s) PROVE Calm'
    <2>1. tasks[s] # NoTask /\ Ends(s) /\ UNCHANGED <<wizNo, done>> /\ (Clear \/ UNCHANGED <<fsm, data>>)
      BY <1>1 DEF Denied, NoTask, Keep, KeepWorld
    <2> QED BY <1>0, <2>1, OneClears, OneLeaves
  <1>2. CASE ProxyCancel \/ CancelCallback \/ ExpireStale
    <2>1. tasks' = tasks /\ Clear /\ UNCHANGED <<wizNo, done>> /\ ~Busy
      BY <1>2 DEF ProxyCancel, CancelCallback, ExpireStale, Overlap
    <2>2. \A o \in Slots : tasks'[o] = NoTask BY <2>1 DEF Busy
    <2>3. Serial' BY <2>2 DEF Serial
    <2>4. Unmoved' BY <2>2, EmptyStands DEF Unmoved
    <2>5. Chosen' BY <2>1 DEF Chosen, Own, Clear, NoState
    <2>6. OwnChoicesOnly' BY <2>1 DEF Calm, OwnChoicesOnly
    <2> QED BY <2>3, <2>4, <2>5, <2>6 DEF Calm
  <1>3. CASE RelayGoes \/ Tick
    <2>1. UNCHANGED <<fsm, data, tasks, wizNo, done>> BY <1>3 DEF RelayGoes, Tick
    <2> QED BY <2>1 DEF Calm, Serial, Unmoved, Chosen, OwnChoicesOnly
  <1> QED BY <1>1, <1>2, <1>3

\* Updates that came together stay so.
LEMMA RacesStay ==
  ASSUME ChatOnce, [DialogsNext]_dialogVars, races' = 0
  PROVE races = 0
  <1>0. races \in Nat BY DEF ChatOnce, ChatTypes
  <1>1. ASSUME Quiet PROVE races = 0 BY <1>0, <1>1 DEF Quiet
  <1>2. ASSUME NEW s \in Slots,
               OwnTaps(s) \/ AdminTaps(s) \/ EditTaps(s) \/ ProxyTaps(s) \/ AnnTaps(s)
               \/ OwnSteps(s) \/ AdminSteps(s) \/ EditSteps(s) \/ AnnSteps(s)
               \/ ProxyGetPrompt(s) \/ ProxyConfirm(s) \/ Denied(s)
        PROVE races = 0
    <2>1. CASE CreateKeyConfirm(s) BY <2>1 DEF CreateKeyConfirm, IssueKey
    <2>2. CASE AdminIssueConfirm(s) BY <2>2 DEF AdminIssueConfirm, IssueKey, Keep, KeepWorld
    <2>3. CASE AnnouncementSend(s) \/ AnnouncementScheduleTime(s) BY <2>3 DEF AnnouncementSend, AnnouncementScheduleTime
    <2>4. CASE ProxyGetPrompt(s) \/ ProxyConfirm(s) BY <2>4 DEF ProxyGetPrompt, ProxyConfirm, Opens, KeepWorld
    <2>5. CASE EditSteps(s)
      BY <2>5 DEF EditSteps, EditNotePrompt, EditBundleNotePrompt, EditFpPrompt, ChangeBundleFpPrompt, EditNoteWaiting,
                  EditNoteConfirm, EditFpSelect, AdminEditUserNote, AdminEditUserNoteInput, Opens, Answers, Keep, KeepWorld
    <2> QED BY <1>1, <1>2, <2>1, <2>2, <2>3, <2>4, <2>5, TapsQuiet, OwnQuiet, AdminQuiet, AnnQuiet, OthersQuiet
  <1>3. CASE UNCHANGED dialogVars BY <1>3 DEF dialogVars
  <1>4. CASE Tick BY <1>4 DEF Tick
  <1> QED BY <1>1, <1>2, <1>3, <1>4, OthersQuiet DEF DialogsNext

\* Every step, while one update is answered at a time, keeps choices with their wizard.
LEMMA CalmStep ==
  ASSUME ChatOnce, OneByOne, [DialogsNext]_dialogVars
  PROVE OneByOne'
  <1> SUFFICES ASSUME races' = 0 PROVE Calm' BY DEF OneByOne
  <1>0. races \in Nat BY DEF ChatOnce, ChatTypes
  <1>1. ASSUME NEW s \in Slots, races = 0,
               OwnTaps(s) \/ AdminTaps(s) \/ EditTaps(s) \/ ProxyTaps(s) \/ AnnTaps(s)
               \/ OwnSteps(s) \/ AdminSteps(s) \/ EditSteps(s) \/ AnnSteps(s)
               \/ ProxyGetPrompt(s) \/ ProxyConfirm(s)
        PROVE Calm'
    <2>0. Calm BY <1>1 DEF OneByOne
    <2>1. CASE OwnTaps(s) \/ AdminTaps(s) \/ EditTaps(s) \/ ProxyTaps(s) \/ AnnTaps(s) BY <2>0, <2>1, <1>1, TapsCalm
    <2>2. CASE OwnSteps(s)
      BY <2>0, <2>2, OwnStartCalm, NoteCalm, TermsCalm, CustomMtuCalm, OwnDaysCalm, ConfirmCalm
         DEF OwnSteps, CreateKeyNote, CreateKeyFp, CreateKeyMtu, CreateKeyMtuAsk, CreateKeyMtuCustom, CreateKeyDaysAsk
    <2>3. CASE AdminSteps(s)
      BY <2>0, <2>3, AdminStartCalm, NoteCalm, TermsCalm, CustomMtuCalm, AdminDaysCalm, ConfirmCalm
         DEF AdminSteps, AdminIssueNote, AdminIssueFp, AdminIssueMtu, AdminIssueMtuAsk, AdminIssueMtuCustom, AdminIssueDaysAsk,
             AdminIssueExpiry, AdminIssueCustomDays
    <2>4. CASE EditSteps(s) BY <2>0, <2>4, PromptCalm, NewNoteCalm, UserNoteCalm DEF EditSteps
    <2>5. CASE AnnSteps(s) BY <2>0, <2>5, AudienceCalm, SendCalm DEF AnnSteps
    <2>6. CASE ProxyGetPrompt(s) \/ ProxyConfirm(s) BY <2>0, <2>6, ProxyCalm
    <2> QED BY <1>1, <2>1, <2>2, <2>3, <2>4, <2>5, <2>6
  <1>2. CASE UNCHANGED dialogVars
    BY <1>2 DEF OneByOne, Calm, Serial, Unmoved, Chosen, OwnChoicesOnly, dialogVars
  <1>3. races = 0 BY RacesStay
  <1> QED BY <1>1, <1>2, <1>3, OthersCalm DEF DialogsNext, OneByOne

\* The chat begins empty.
LEMMA ChatInit == ASSUME DialogsInit PROVE ChatInv
  <1>1. /\ fsm = NoState /\ data = NoData /\ done = <<>> /\ wizNo = 0 /\ races = 0
        /\ DOMAIN tasks = Slots /\ \A s \in Slots : tasks[s] = NoTask
    BY DEF DialogsInit
  <1>2. ChatTypes BY <1>1, NothingFine DEF ChatTypes
  <1>3. SpentInv /\ OncePerWizard /\ OwnChoicesOnly BY <1>1 DEF SpentInv, OncePerWizard, OwnChoicesOnly
  <1>4. Serial /\ Unmoved BY <1>1, EmptyStands DEF Serial, Unmoved
  <1>5. Chosen BY <1>1 DEF Chosen, Own, NoState
  <1> QED BY <1>2, <1>3, <1>4, <1>5 DEF ChatInv, ChatOnce, OneByOne, Calm

\* The invariant of the chat.
THEOREM ChatInductive == DialogsSpec => []ChatInv
  <1>1. DialogsInit => ChatInv BY ChatInit
  <1>2. ChatInv /\ [DialogsNext]_dialogVars => ChatInv' BY ChatOnceStep, CalmStep DEF ChatInv
  <1> QED BY <1>1, <1>2, PTL DEF DialogsSpec

\* Whatever the order of taps, late answers and cancellations, a wizard issues one
\* key, one proxy access, one announcement (create_key_confirm,
\* admin_issue_confirm, proxy_confirm, admin_announcement_send).
THEOREM OneDeedPerWizard == DialogsSpec => []OncePerWizard
  <1>1. ChatInv => OncePerWizard BY DEF ChatInv, ChatOnce
  <1> QED BY <1>1, ChatInductive, PTL

\* While the chat answers one update at a time, what is issued, sent or edited was
\* chosen in that wizard (_prompt_route_or_note, edit_note_prompt,
\* admin_announcement_protocols_done).
THEOREM ChoicesStayWithTheirWizard == DialogsSpec => []NoLeftovers
  <1>1. ASSUME ChatInv PROVE NoLeftovers
    <2> SUFFICES ASSUME races = 0 PROVE OwnChoicesOnly /\ TransportNeedsVless BY DEF NoLeftovers
    <2>1. Calm BY <1>1 DEF ChatInv, OneByOne
    <2>2. TransportNeedsVless BY <2>1 DEF Calm, Chosen, Own, TransportNeedsVless, At
    <2> QED BY <2>1, <2>2 DEF Calm
  <1> QED BY <1>1, ChatInductive, PTL
=============================================================================
