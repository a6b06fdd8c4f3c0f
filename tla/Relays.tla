-------------------------------- MODULE Relays --------------------------------
(***************************************************************************)
(* Relays: the table and the bot's in-memory snapshot of it                *)
(* (services/relay_management.py, repositories/relays.py,                  *)
(* services/relay.py), keys issued through them, and the health loop that  *)
(* alerts the admins (services/relay_health.py).                           *)
(*                                                                         *)
(* A write commits first and the snapshot is read again in a later step.   *)
(* Issuing a key looks the relay up in the snapshot before it waits for    *)
(* its locks and inserts the row after.  Labels, notes and source          *)
(* addresses travel with the row and decide nothing here.                  *)
(***************************************************************************)
EXTENDS Naturals, FiniteSets

CONSTANTS RelayNames, Hosts,
          RelayKeys,       \* ids of keys issued through relays
          ProbeWindow,     \* failed or good probes in a row that cross the latch
          MaxRelayFaults, MaxRelayCrashes

ASSUME RelaysAssumption == ProbeWindow \in Nat \ {0}

VARIABLES
  table,      \* [RelayNames -> row]
  catalog,    \* the bot's snapshot of the table
  throughOf,  \* [RelayKeys -> relay name or Direct]: rows of vpn_keys not deleted
  relayOp,    \* the write under the service lock: [pc, name, left]
  issuing,    \* [RelayKeys -> relay name or Direct]: looked up, not yet inserted
  latch,      \* [RelayNames -> [seen, healthy, run]]
  draft,      \* an admin's dialog: a relay being added or edited, [at, name, host]
  stale,      \* a refresh of the snapshot failed and none succeeded since
  relayFaults, relayCrashes

relayVars == <<table, catalog, throughOf, relayOp, issuing, latch, draft, stale, relayFaults, relayCrashes>>
relayBounds == <<relayFaults, relayCrashes>>

Direct == "direct"
NoRelay == [host |-> "none", enabled |-> FALSE, subs |-> FALSE]
NoLatch == [seen |-> FALSE, healthy |-> TRUE, run |-> 0]
NoDraft == [at |-> "none", name |-> "none", host |-> "none"]
RelayIdle == [pc |-> "idle", name |-> "none", left |-> {}]
Known(t, n) == t[n] # NoRelay
RelayTrouble == relayFaults < MaxRelayFaults /\ relayFaults' = relayFaults + 1

\* relay_available, require_relay_for_issue
Available(n) == Known(catalog, n) /\ catalog[n].enabled

KeysThrough(n) == {k \in RelayKeys : throughOf[k] = n}

-----------------------------------------------------------------------------
(* Writes, under the service lock.                                         *)

\* _ensure_name_free: no relay and no key carries the name
NameFree(n) == ~Known(table, n) /\ KeysThrough(n) = {}

\* create: a name no relay and no key carries, enabled by default.
CreateRelay(n, host) ==
  /\ relayOp.pc = "idle"
  /\ NameFree(n)
  /\ table' = [table EXCEPT ![n] = [host |-> host, enabled |-> TRUE, subs |-> TRUE]]
  /\ relayOp' = [RelayIdle EXCEPT !.pc = "refresh", !.name = n]
  /\ UNCHANGED <<catalog, throughOf, issuing, latch, stale, relayBounds>>

\* update: host, enabled and in_subscriptions, as far as they change.
UpdateRelay(n, row) ==
  /\ relayOp.pc = "idle"
  /\ Known(table, n) /\ row # table[n]
  /\ table' = [table EXCEPT ![n] = row]
  /\ relayOp' = [RelayIdle EXCEPT !.pc = "refresh", !.name = n]
  /\ UNCHANGED <<catalog, throughOf, issuing, latch, stale, relayBounds>>

\* The card's switches.  The value written is the negation of the one the card
\* read, which another admin may have changed since.
ToggleRelay(n) ==
  /\ \E v \in BOOLEAN : \/ UpdateRelay(n, [table[n] EXCEPT !.enabled = v])
                        \/ UpdateRelay(n, [table[n] EXCEPT !.subs = v])
  /\ UNCHANGED draft

\* delete, first the keys if asked to.
DeleteRelay(n, withKeys) ==
  /\ relayOp.pc = "idle" /\ Known(table, n)
  /\ relayOp' = [pc |-> "keys", name |-> n, left |-> IF withKeys THEN KeysThrough(n) ELSE {}]
  /\ UNCHANGED <<table, catalog, throughOf, issuing, latch, draft, stale, relayBounds>>

\* The delete screen: delete, delete with the keys, or disable instead.
DeleteExecute(n, press) ==
  IF press = "disable"
  THEN UpdateRelay(n, [table[n] EXCEPT !.enabled = FALSE]) /\ UNCHANGED draft
  ELSE DeleteRelay(n, press = "keys")

\* Each key through its own service; the first failure stops the delete.
DeleteRelayKey(k) ==
  /\ relayOp.pc = "keys" /\ k \in relayOp.left
  /\ \/ /\ throughOf' = [throughOf EXCEPT ![k] = Direct]
        /\ relayOp' = [relayOp EXCEPT !.left = @ \ {k}]
        /\ UNCHANGED relayFaults
     \/ relayOp' = RelayIdle /\ RelayTrouble /\ UNCHANGED throughOf
  /\ UNCHANGED <<table, catalog, issuing, latch, draft, stale, relayCrashes>>

\* The bug of a delete that leaves the snapshot as it was.
DeleteIfUnused_Forgets ==
  /\ relayOp.pc = "keys" /\ relayOp.left = {}
  /\ table' = IF KeysThrough(relayOp.name) = {} THEN [table EXCEPT ![relayOp.name] = NoRelay] ELSE table
  /\ relayOp' = RelayIdle
  /\ UNCHANGED <<catalog, throughOf, issuing, latch, draft, stale, relayBounds>>

\* One statement: the relay goes unless a key names it.
DeleteIfUnused ==
  /\ relayOp.pc = "keys" /\ relayOp.left = {}
  /\ IF KeysThrough(relayOp.name) = {}
     THEN /\ table' = [table EXCEPT ![relayOp.name] = NoRelay]
          /\ relayOp' = [relayOp EXCEPT !.pc = "refresh"]
     ELSE relayOp' = RelayIdle /\ UNCHANGED table
  /\ UNCHANGED <<catalog, throughOf, issuing, latch, draft, stale, relayBounds>>

\* refresh_catalog; if the read fails the write stands and the snapshot is old.
RefreshCatalog ==
  /\ relayOp.pc = "refresh" /\ relayOp' = RelayIdle
  /\ \/ catalog' = table /\ stale' = FALSE /\ UNCHANGED relayFaults
     \/ stale' = TRUE /\ RelayTrouble /\ UNCHANGED catalog
  /\ UNCHANGED <<table, throughOf, issuing, latch, draft, relayCrashes>>

-----------------------------------------------------------------------------
(* The admin's dialog.  A value that is refused is asked for again.         *)

Dialog(at, n, host) == draft' = [at |-> at, name |-> n, host |-> host]
relaysKept == <<table, catalog, throughOf, relayOp, issuing, latch, stale, relayBounds>>

AddStart == Dialog("name", "none", "none") /\ UNCHANGED relaysKept

AddName(n) == draft.at = "name" /\ NameFree(n) /\ Dialog("host", n, "none") /\ UNCHANGED relaysKept

AddHost(h) == draft.at = "host" /\ Dialog("source", draft.name, h) /\ UNCHANGED relaysKept

\* The source addresses are typed, or the host is taken for them.
AddSource == draft.at = "source" /\ Dialog("label", draft.name, draft.host) /\ UNCHANGED relaysKept

\* The label is typed, or the default taken.
AddLabel == draft.at = "label" /\ Dialog("confirm", draft.name, draft.host) /\ UNCHANGED relaysKept

\* The relay is created, unless its name was taken meanwhile: then the dialog stays.
AddConfirm == draft.at = "confirm" /\ CreateRelay(draft.name, draft.host) /\ draft' = NoDraft

EditStart(n) == Known(table, n) /\ Dialog("edit", n, "none") /\ UNCHANGED relaysKept

\* _apply_edit: the relay may be gone since the question was asked.
EditHost(h) ==
  /\ draft.at = "edit" /\ draft' = NoDraft
  /\ IF Known(table, draft.name)
     THEN UpdateRelay(draft.name, [table[draft.name] EXCEPT !.host = h])
     ELSE UNCHANGED relaysKept

-----------------------------------------------------------------------------
(* Keys through a relay.                                                   *)

\* The relay is looked up, then the key service waits for its locks.
IssueThrough(k, n) ==
  /\ issuing[k] = Direct /\ throughOf[k] = Direct /\ Available(n)
  /\ issuing' = [issuing EXCEPT ![k] = n]
  /\ UNCHANGED <<table, catalog, throughOf, relayOp, latch, draft, stale, relayBounds>>

InsertKey(k) ==
  /\ issuing[k] # Direct
  /\ throughOf' = [throughOf EXCEPT ![k] = issuing[k]]
  /\ issuing' = [issuing EXCEPT ![k] = Direct]
  /\ UNCHANGED <<table, catalog, relayOp, latch, draft, stale, relayBounds>>

DropKey(k) ==
  /\ throughOf[k] # Direct
  /\ throughOf' = [throughOf EXCEPT ![k] = Direct]
  /\ UNCHANGED <<table, catalog, relayOp, issuing, latch, draft, stale, relayBounds>>

-----------------------------------------------------------------------------
(* The health loop.                                                        *)

\* A pass drops the latch of a relay that is gone or switched off.
ForgetRelay(n) ==
  /\ latch[n].seen /\ ~table[n].enabled
  /\ latch' = [latch EXCEPT ![n] = NoLatch]
  /\ UNCHANGED <<table, catalog, throughOf, relayOp, issuing, draft, stale, relayBounds>>

\* One probe; on a crossing every admin is alerted, once.
ProbeRelay(n, ok) ==
  LET l == latch[n]
      run == IF ok = l.healthy THEN 0 ELSE l.run + 1
      cross == run >= ProbeWindow
  IN /\ table[n].enabled
     /\ latch' = [latch EXCEPT ![n] =
          [seen |-> TRUE, healthy |-> IF cross THEN ok ELSE l.healthy,
           run |-> IF cross THEN 0 ELSE run]]
     /\ UNCHANGED <<table, catalog, throughOf, relayOp, issuing, draft, stale, relayBounds>>

\* A restart: the snapshot is read, the latches are new.
RelayCrash ==
  /\ relayCrashes < MaxRelayCrashes /\ relayCrashes' = relayCrashes + 1
  /\ catalog' = table /\ stale' = FALSE /\ relayOp' = RelayIdle
  /\ issuing' = [k \in RelayKeys |-> Direct]
  /\ latch' = [n \in RelayNames |-> NoLatch] /\ draft' = NoDraft
  /\ UNCHANGED <<table, throughOf, relayFaults>>

\* seed_from_settings gives an empty table the relay of the old environment
\* variables, whose name older keys already carry.
Seeded == {[n \in RelayNames |-> NoRelay]} \cup
          {[[n \in RelayNames |-> NoRelay] EXCEPT ![m] = [host |-> h, enabled |-> TRUE, subs |-> TRUE]] :
             m \in RelayNames, h \in Hosts}

RelaysInit ==
  /\ table \in Seeded /\ catalog = table
  /\ throughOf = [k \in RelayKeys |-> Direct] /\ issuing = throughOf
  /\ relayOp = RelayIdle
  /\ latch = [n \in RelayNames |-> NoLatch]
  /\ draft = NoDraft /\ stale = FALSE /\ relayFaults = 0 /\ relayCrashes = 0

RelaysNext ==
  \/ \E n \in RelayNames :
       \/ AddName(n) \/ EditStart(n) \/ ToggleRelay(n)
       \/ \E press \in {"yes", "keys", "disable"} : DeleteExecute(n, press)
       \/ \E k \in RelayKeys : IssueThrough(k, n)
       \/ ForgetRelay(n)
       \/ \E ok \in BOOLEAN : ProbeRelay(n, ok)
  \/ \E k \in RelayKeys : DeleteRelayKey(k) \/ InsertKey(k) \/ DropKey(k)
  \/ \E h \in Hosts : AddHost(h) \/ EditHost(h)
  \/ AddStart \/ AddSource \/ AddLabel \/ AddConfirm
  \/ DeleteIfUnused \/ RefreshCatalog \/ RelayCrash

RelaysSpec == RelaysInit /\ [][RelaysNext]_relayVars

-----------------------------------------------------------------------------
RelaysTypeOK ==
  /\ \A n \in RelayNames : table[n].enabled \in BOOLEAN /\ catalog[n].host \in Hosts \cup {"none"}
  /\ throughOf \in [RelayKeys -> RelayNames \cup {Direct}]
  /\ relayOp.left \subseteq RelayKeys

\* Links are rendered from the snapshot: between writes it is the table, so no
\* link names a deleted relay or an old host ("takes effect on the very next
\* rendered link", RelayService.update), unless reading it back failed.
CatalogIsTable == relayOp.pc = "idle" /\ ~stale => \A n \in RelayNames :
                    catalog[n] = table[n]

=============================================================================
