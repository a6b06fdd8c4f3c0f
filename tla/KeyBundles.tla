------------------------------ MODULE KeyBundles ------------------------------
(***************************************************************************)
(* All-in-one subscriptions: services/key_bundles.py over                  *)
(* repositories/key_bundles.py, the bulk reconcile of                      *)
(* bot/handlers/admin_bundles.py and the public endpoint                   *)
(* (subscription_server) that serves a bundle's links.                     *)
(*                                                                         *)
(* A bundle owns ordinary keys, its children, one per slot: a member of    *)
(* the composition through a relay or directly.  One operation at a time   *)
(* holds KeyBundleService._lock; it works child by child through the       *)
(* per-protocol services, each call of which may fail.  Other actors (the  *)
(* expiry job, the block sweep, an uninstall, the module and relay         *)
(* switches, the degraded flag, the clock) move between its steps.         *)
(***************************************************************************)
EXTENDS Naturals, Sequences, FiniteSets, SequencesExt

CONSTANTS
    Bundles,        \* ids of key_bundles rows
    MaxKey,         \* bound: keys are numbered 1..MaxKey, in order of creation
    Basic, Extended,   \* the two compositions, sequences of member names
    BackendOf,      \* BackendOf[n]: "xray" or "hysteria2"
    EnvOff,         \* members whose .env flag is off (XHTTP, Hysteria2)
    Relays,         \* relay names in id order, a sequence
    Direct,         \* the relay of a direct member (None)
    Prints,         \* TLS fingerprints
    NoBundle, NoKeyId,
    MaxFaults,      \* bound: database and backend failures injected
    MaxTurns        \* bound: switches, flags and keys changed by other actors

ASSUME BundlesAssumption ==
    /\ MaxKey \in Nat /\ MaxFaults \in Nat /\ MaxTurns \in Nat
    /\ Basic \in Seq(Range(Extended)) /\ Extended \in Seq(Range(Extended)) \ {<<>>}
    /\ Relays \in Seq(Range(Relays)) /\ Prints # {} /\ IsFiniteSet(Bundles)
    /\ BackendOf \in [Range(Extended) -> {"xray", "hysteria2"}]
    /\ EnvOff \subseteq Range(Extended)
    /\ Direct \notin Range(Relays)
    /\ NoBundle \notin Bundles /\ NoKeyId \notin 1..MaxKey

VARIABLES
    bundle,    \* bundle[b]: the row
    child,     \* child[k]: the row of key k
    modOn,     \* protocol modules switched on
    relayAt,   \* relayAt[r]: "off", "on" or "subs" (on and in subscriptions)
    sick,      \* backends marked degraded
    late,      \* the deadline of the keys that have one has passed
    bop,       \* the operation that holds the lock
    bulk,      \* the one bulk reconcile of the process (ReconcileRunner)
    faults, turns,   \* failures injected and changes made by others so far
    lost,      \* history: children whose attach failed or never ran
    ended,     \* history: bundles whose revocation or deletion was asked for
    split      \* history: bundles whose fingerprint change stopped half way

bundleVars == <<bundle, child, modOn, relayAt, sick, late, bop, bulk, faults, turns, lost, ended, split>>
others == <<modOn, relayAt, sick, late, bulk, turns>>

Ids == 1..MaxKey
Backends == {"xray", "hysteria2"}
Slots == Range(Extended) \X (Range(Relays) \cup {Direct})
Kinds == {"basic", "extended"}

\* KeyBundleStatus; "absent" before the INSERT, "gone" after the DELETE
BundleStatuses == {"absent", "active", "pending_revoke", "revoked",
                   "pending_delete", "delete_failed", "gone"}
ChildStatuses == {"absent", "active", "apply_failed", "pending_revoke", "revoked",
                  "pending_delete", "delete_failed", "gone"}
BundleRevocable == {"active", "pending_revoke"}
BundleDeletable == BundleStatuses \ {"absent", "gone"}
RemovalStatuses == {"pending_delete", "delete_failed"}

-----------------------------------------------------------------------------
(* Composition                                                             *)

\* A set of numbers in ascending order (ORDER BY id), and the members of a sequence that
\* belong to a set, in their order.
Ascending(S) == [i \in 1..Cardinality(S) |-> CHOOSE x \in S : Cardinality({y \in S : y < x}) = i - 1]
Keep(seq, S) == LET at == Ascending({i \in DOMAIN seq : seq[i] \in S})
                IN  [i \in DOMAIN at |-> seq[at[i]]]

\* _direct_members
DirectMembers(kind) == IF kind = "basic" THEN Basic ELSE Extended

\* bundle_composition: the direct members, then the same ones through each relay
Composition(kind, relays) ==
    LET size == Len(DirectMembers(kind))
        members == [i \in 1..size |-> <<DirectMembers(kind)[i], Direct>>]
        through == [i \in 1..size * Len(relays) |->
                       <<DirectMembers(kind)[((i - 1) % size) + 1], relays[((i - 1) \div size) + 1]>>]
    IN  members \o through

\* relay_available: a relay member needs its relay enabled
RelayServes(r) == r # Direct => relayAt[r] # "off"

\* _member_enabled
MemberEnabled(s) == /\ RelayServes(s[2])
                    /\ BackendOf[s[1]] \in modOn
                    /\ s[1] \notin EnvOff

\* _resolve_composition: what a bundle of this kind would get now
Included(kind) ==
    LET subs == Keep(Relays, {r \in Range(Relays) : relayAt[r] = "subs"})
    IN  Keep(Composition(kind, subs), {s \in Slots : MemberEnabled(s)})

BackendsOf(slots) == {BackendOf[s[1]] : s \in slots}

\* subscription_sort_key, as a number: relay group, then place in the composition
ServingRank(s) ==
    LET group == IF s[2] = Direct THEN 0 ELSE CHOOSE i \in DOMAIN Relays : Relays[i] = s[2]
        place == CHOOSE i \in DOMAIN Extended : Extended[i] = s[1]
    IN  group * (Len(Extended) + 1) + place

-----------------------------------------------------------------------------
(* State                                                                   *)

KidsOf(b) == {k \in Ids : child[k].in = b}
ActiveKids(b) == {k \in KidsOf(b) : child[k].st = "active"}

NoOp == [what |-> "none", b |-> NoBundle, at |-> "idle", kind |-> "basic", todo |-> <<>>,
         cur |-> NoKeyId, made |-> <<>>, drop |-> <<>>, target |-> {}, taken |-> {},
         bad |-> FALSE, bulk |-> FALSE, fp |-> CHOOSE p \in Prints : TRUE, due |-> FALSE]
NoBulk == [on |-> FALSE, stop |-> FALSE, kind |-> "own", todo |-> <<>>]
NoChild == [st |-> "absent", slot |-> CHOOSE s \in Slots : TRUE, in |-> NoBundle,
            for |-> NoBundle, due |-> FALSE, fp |-> CHOOSE p \in Prints : TRUE]

ChildRows == [st : ChildStatuses, slot : Slots, in : Bundles \cup {NoBundle},
              for : Bundles \cup {NoBundle}, due : BOOLEAN, fp : Prints]
Operations == [what : {"none", "create", "revoke", "print", "delete", "reconcile"},
               b : Bundles \cup {NoBundle},
               at : {"idle", "make", "attach", "unwind", "mark", "revoke", "retire", "stamp", "remove", "drop"},
               kind : Kinds, todo : Seq(Slots), cur : Ids \cup {NoKeyId}, made : Seq(Ids),
               drop : Seq(Ids), target : SUBSET Slots, taken : SUBSET Slots,
               bad : BOOLEAN, bulk : BOOLEAN, fp : Prints, due : BOOLEAN]

BundlesTypeOK ==
    /\ bundle \in [Bundles -> [st : BundleStatuses, kind : Kinds, tok : {"issued", "rotated"}]]
    /\ child \in [Ids -> ChildRows]
    /\ modOn \subseteq Backends /\ sick \subseteq {"xray"}
    /\ relayAt \in [Range(Relays) -> {"off", "on", "subs"}]
    /\ late \in BOOLEAN
    /\ bop \in Operations
    /\ bulk \in [on : BOOLEAN, stop : BOOLEAN, kind : {"own", "basic"}, todo : Seq(Bundles)]
    /\ faults \in Nat /\ turns \in Nat
    /\ lost \subseteq Ids /\ ended \subseteq Bundles /\ split \subseteq Bundles

BundlesInit ==
    /\ bundle = [b \in Bundles |-> [st |-> "absent", kind |-> "basic", tok |-> "issued"]]
    /\ child = [k \in Ids |-> NoChild]
    /\ modOn = Backends
    /\ relayAt = [r \in Range(Relays) |-> "off"]
    /\ sick = {} /\ late = FALSE
    /\ bop = NoOp /\ bulk = NoBulk
    /\ faults = 0 /\ turns = 0 /\ lost = {} /\ ended = {} /\ split = {}

Fault == faults < MaxFaults /\ faults' = faults + 1
NoFault == UNCHANGED faults
Turn == turns < MaxTurns /\ turns' = turns + 1

Begin(op) == bop = NoOp /\ bop' = op
At(where) == bop.at = where
Step(op) == bop' = op
SetBundle(b, st) == bundle' = [bundle EXCEPT ![b].st = st]

\* Bound: an operation starts only if there are key numbers left for it
Fresh == {k \in Ids : child[k].st = "absent"}
Room(n) == n <= Cardinality(Fresh)

-----------------------------------------------------------------------------
(* One call into a per-protocol service                                    *)

BackendOfKey(k) == BackendOf[child[k].slot[1]]

\* create_xray_key, HysteriaService.issue: refused before anything is written
MayIssue(s) == /\ RelayServes(s[2])
               /\ BackendOf[s[1]] \in modOn \ sick

\* delete_xray_key, delete_hysteria2_key: NotFound, or the backend is degraded
MayDelete(k) == child[k].st # "gone" /\ BackendOfKey(k) \notin sick

\* What a failed delete leaves: Hysteria2 has nothing but the row
AfterFailedDelete(k) ==
    IF BackendOfKey(k) = "xray" THEN {"delete_failed", "pending_delete", child[k].st} ELSE {child[k].st}

\* revoke_xray_key, HysteriaService.revoke: what they refuse
MayRevoke(k) ==
    /\ child[k].st # "gone" /\ BackendOfKey(k) \notin sick
    /\ BackendOfKey(k) = "hysteria2" => child[k].st \in {"active", "apply_failed", "revoked"}

AfterFailedRevoke(k) ==
    IF BackendOfKey(k) = "xray" THEN {"pending_revoke", child[k].st} ELSE {child[k].st}

Gone(k) == [child EXCEPT ![k] = [NoChild EXCEPT !.st = "gone"]]

\* The row a create inserts; Hysteria2 has no TLS fingerprint.
NewChild(st) ==
    LET s == Head(bop.todo) IN
    [st |-> st, slot |-> s, in |-> NoBundle, for |-> bop.b, due |-> bop.due,
     fp |-> IF BackendOf[s[1]] = "xray" THEN bop.fp ELSE NoChild.fp]

-----------------------------------------------------------------------------
(* create_bundle                                                           *)

CreateBundle(b) == \E kind \in Kinds, due \in BOOLEAN, fp \in Prints :
    LET slots == Included(kind) IN
    /\ bundle[b].st = "absent"
    /\ slots # <<>> /\ Room(Len(slots))
    /\ BackendsOf(Range(slots)) \cap sick = {}
    /\ due => ~late
    /\ bundle' = [bundle EXCEPT ![b] = [st |-> "active", kind |-> kind, tok |-> "issued"]]
    /\ Begin([NoOp EXCEPT !.what = "create", !.b = b, !.at = "make", !.kind = kind, !.todo = slots,
                          !.target = Range(slots), !.fp = fp, !.due = due])
    /\ UNCHANGED <<child, others, faults, lost, ended, split>>

\* _provision_child succeeds: the key is live on its backend, and not attached yet
Provision ==
    LET s == Head(bop.todo)  k == Min(Fresh) IN
    /\ At("make") /\ bop.todo # <<>>
    /\ MayIssue(s)
    /\ child' = [child EXCEPT ![k] = NewChild("active")]
    /\ Step([bop EXCEPT !.at = "attach", !.cur = k, !.todo = Tail(@)])
    /\ NoFault /\ UNCHANGED <<bundle, others, lost, ended, split>>

\* It is refused, or it fails and may leave an apply_failed row
ProvisionFails ==
    LET s == Head(bop.todo)  k == Min(Fresh) IN
    /\ At("make") /\ bop.todo # <<>>
    /\ \/ ~MayIssue(s) /\ NoFault /\ UNCHANGED child
       \/ /\ MayIssue(s) /\ Fault
          /\ \/ UNCHANGED child
             \/ child' = [child EXCEPT ![k] = NewChild("apply_failed")]
    /\ Step([bop EXCEPT !.at = "unwind"])
    /\ UNCHANGED <<bundle, others, lost, ended, split>>

\* Mutant: the key is recorded as a child and the row is not written
AttachChild_Unwritten ==
    /\ At("attach")
    /\ Step([bop EXCEPT !.at = "make", !.cur = NoKeyId, !.made = Append(@, bop.cur)])
    /\ NoFault /\ UNCHANGED <<bundle, child, others, lost, ended, split>>

\* Attaching a key whose row is gone updates nothing and raises nothing.
AttachChild ==
    /\ At("attach")
    /\ child' = IF child[bop.cur].st = "gone" THEN child ELSE [child EXCEPT ![bop.cur].in = bop.b]
    /\ Step([bop EXCEPT !.at = "make", !.cur = NoKeyId, !.made = Append(@, bop.cur)])
    /\ NoFault /\ UNCHANGED <<bundle, others, lost, ended, split>>

\* create_bundle records a child after the attach, the reconcile before it: only
\* the reconcile unwinds the child whose attach raised.
AttachFails ==
    /\ At("attach") /\ Fault
    /\ Step([bop EXCEPT !.at = "unwind", !.cur = NoKeyId,
                        !.made = IF bop.what = "reconcile" THEN Append(@, bop.cur) ELSE @])
    /\ lost' = lost \cup {bop.cur}
    /\ UNCHANGED <<bundle, child, others, ended, split>>

\* Every child is live and attached.
CreateDone ==
    /\ bop.what = "create" /\ At("make") /\ bop.todo = <<>>
    /\ Step(NoOp)
    /\ UNCHANGED <<bundle, child, others, faults, lost, ended, split>>

\* _rollback_partial_bundle, _rollback_reconcile_creates: newest first
UnwindChild ==
    LET k == Last(bop.made) IN
    /\ At("unwind") /\ bop.made # <<>>
    /\ \/ MayDelete(k) /\ child' = Gone(k) /\ NoFault /\ Step([bop EXCEPT !.made = Front(@)])
       \/ /\ \/ ~MayDelete(k) /\ UNCHANGED child /\ NoFault
             \/ MayDelete(k) /\ Fault /\ \E st \in AfterFailedDelete(k) : child' = [child EXCEPT ![k].st = st]
          /\ Step([bop EXCEPT !.made = Front(@), !.bad = TRUE])
    /\ UNCHANGED <<bundle, others, lost, ended, split>>

\* The row goes only if every child went (and ON DELETE RESTRICT agrees);
\* otherwise it is marked delete_failed, best effort.
UnwindRow ==
    LET b == bop.b IN
    /\ bop.what = "create" /\ At("unwind") /\ bop.made = <<>>
    /\ \/ ~bop.bad /\ KidsOf(b) = {} /\ SetBundle(b, "gone") /\ NoFault /\ Step(NoOp)
       \/ /\ \/ bop.bad /\ NoFault
             \/ ~bop.bad /\ KidsOf(b) # {} /\ NoFault
             \/ ~bop.bad /\ Fault
          /\ Step([bop EXCEPT !.at = "mark"]) /\ UNCHANGED bundle
    /\ UNCHANGED <<child, others, lost, ended, split>>

\* _mark_bundle_failed is best effort
MarkBundleFailed ==
    /\ At("mark")
    /\ \/ SetBundle(bop.b, "delete_failed") /\ NoFault
       \/ Fault /\ UNCHANGED bundle
    /\ Step(NoOp)
    /\ UNCHANGED <<child, others, lost, ended, split>>

-----------------------------------------------------------------------------
(* revoke_bundle                                                           *)

RevokeBundle(b) ==
    /\ bundle[b].st \in BundleRevocable
    /\ SetBundle(b, "pending_revoke")
    /\ Begin([NoOp EXCEPT !.what = "revoke", !.b = b, !.at = "revoke", !.drop = Ascending(KidsOf(b))])
    /\ ended' = ended \cup {b} /\ UNCHANGED <<child, others, faults, lost, split>>

\* One child's error does not stop the others.
RevokeChild ==
    LET k == Head(bop.drop) IN
    /\ At("revoke") /\ bop.drop # <<>>
    /\ \/ MayRevoke(k) /\ child' = [child EXCEPT ![k].st = "revoked"] /\ NoFault
          /\ Step([bop EXCEPT !.drop = Tail(@)])
       \/ /\ \/ ~MayRevoke(k) /\ UNCHANGED child /\ NoFault
             \/ MayRevoke(k) /\ Fault /\ \E st \in AfterFailedRevoke(k) : child' = [child EXCEPT ![k].st = st]
          /\ Step([bop EXCEPT !.drop = Tail(@), !.bad = TRUE])
    /\ UNCHANGED <<bundle, others, lost, ended, split>>

\* _rotate_token_best_effort, also when a child failed
RotateToken ==
    /\ At("revoke") /\ bop.drop = <<>>
    /\ \/ bundle' = [bundle EXCEPT ![bop.b].tok = "rotated"] /\ NoFault
       \/ Fault /\ UNCHANGED bundle
    /\ Step([bop EXCEPT !.at = "retire"])
    /\ UNCHANGED <<child, others, lost, ended, split>>

RetireBundle ==
    /\ At("retire")
    /\ \/ ~bop.bad /\ SetBundle(bop.b, "revoked") /\ NoFault
       \/ bop.bad /\ NoFault /\ UNCHANGED bundle
       \/ ~bop.bad /\ Fault /\ UNCHANGED bundle
    /\ Step(NoOp)
    /\ UNCHANGED <<child, others, lost, ended, split>>

-----------------------------------------------------------------------------
(* change_fingerprint                                                      *)

VlessKids(b) == {k \in ActiveKids(b) : BackendOfKey(k) = "xray"}

ChangeFingerprint(b) == \E fp \in Prints :
    /\ bundle[b].st = "active" /\ VlessKids(b) # {}
    /\ Begin([NoOp EXCEPT !.what = "print", !.b = b, !.at = "stamp", !.fp = fp,
                          !.drop = Ascending(VlessKids(b))])
    /\ split' = split \cup {b}
    /\ UNCHANGED <<bundle, child, others, faults, lost, ended>>

\* XrayService.change_fingerprint needs the child active still; the first error ends it.
StampChild ==
    LET k == Head(bop.drop) IN
    /\ At("stamp") /\ bop.drop # <<>>
    /\ \/ /\ child[k].st = "active" /\ child' = [child EXCEPT ![k].fp = bop.fp] /\ NoFault
          /\ Step([bop EXCEPT !.drop = Tail(@)])
       \/ /\ \/ child[k].st # "active" /\ NoFault
             \/ child[k].st = "active" /\ Fault
          /\ Step(NoOp) /\ UNCHANGED child
    /\ UNCHANGED <<bundle, others, lost, ended, split>>

StampDone ==
    /\ At("stamp") /\ bop.drop = <<>>
    /\ Step(NoOp) /\ split' = split \ {bop.b}
    /\ UNCHANGED <<bundle, child, others, faults, lost, ended>>

-----------------------------------------------------------------------------
(* delete_bundle                                                           *)

DeleteBundle(b) ==
    /\ bundle[b].st \in BundleDeletable
    /\ SetBundle(b, "pending_delete")
    /\ Begin([NoOp EXCEPT !.what = "delete", !.b = b, !.at = "remove", !.drop = Ascending(KidsOf(b))])
    /\ ended' = ended \cup {b} /\ UNCHANGED <<child, others, faults, lost, split>>

\* The first child that cannot go leaves the bundle delete_failed.
RemoveChild ==
    LET k == Head(bop.drop) IN
    /\ At("remove") /\ bop.drop # <<>>
    /\ \/ MayDelete(k) /\ child' = Gone(k) /\ NoFault /\ Step([bop EXCEPT !.drop = Tail(@)])
       \/ /\ \/ ~MayDelete(k) /\ UNCHANGED child /\ NoFault
             \/ MayDelete(k) /\ Fault /\ \E st \in AfterFailedDelete(k) : child' = [child EXCEPT ![k].st = st]
          /\ Step([bop EXCEPT !.at = "mark"])
    /\ UNCHANGED <<bundle, others, lost, ended, split>>

\* A refusal by ON DELETE RESTRICT is the one failure that marks the bundle.
RemoveRow ==
    /\ At("remove") /\ bop.drop = <<>>
    /\ \/ KidsOf(bop.b) = {} /\ SetBundle(bop.b, "gone") /\ NoFault /\ Step(NoOp)
       \/ KidsOf(bop.b) = {} /\ Fault /\ Step(NoOp) /\ UNCHANGED bundle
       \/ KidsOf(bop.b) # {} /\ Step([bop EXCEPT !.at = "mark"]) /\ NoFault /\ UNCHANGED bundle
    /\ UNCHANGED <<child, others, lost, ended, split>>

-----------------------------------------------------------------------------
(* reconcile_composition                                                   *)

SlotsOf(K) == {child[k].slot : k \in K}
Dead(b) == KidsOf(b) \ ActiveKids(b)

\* The members with no active child, in composition order
ToCreate(b, kind) == Keep(Included(kind), Slots \ SlotsOf(ActiveKids(b)))

\* The active children outside the target and every inactive one, oldest first
ToDelete(b, kind) ==
    Ascending({k \in ActiveKids(b) : child[k].slot \notin Range(Included(kind))} \cup Dead(b))

\* _plan_reconcile: none of the reasons to skip the bundle, and something to do
Plannable(b, kind) ==
    LET target == Range(Included(kind)) IN
    /\ bundle[b].st = "active"
    /\ target # {} /\ ActiveKids(b) # {}
    /\ \A j, k \in ActiveKids(b) : child[j].slot = child[k].slot => j = k
    /\ \A j, k \in ActiveKids(b) : child[j].due = child[k].due
    /\ late => \A k \in ActiveKids(b) : ~child[k].due
    /\ \A k \in Dead(b) : child[k].slot \in target => child[k].st \in RemovalStatuses
    /\ ToCreate(b, kind) # <<>> \/ ToDelete(b, kind) # <<>> \/ kind # bundle[b].kind
    /\ (BackendsOf(Range(ToCreate(b, kind))) \cup {BackendOfKey(k) : k \in Range(ToDelete(b, kind))})
         \cap sick = {}

\* _bundle_fingerprint: that of the first VLESS child in serving order
BundleFingerprint(b) ==
    IF VlessKids(b) = {} THEN CHOOSE p \in Prints : TRUE
    ELSE LET first == CHOOSE k \in VlessKids(b) : \A j \in VlessKids(b) :
                          ServingRank(child[k].slot) <= ServingRank(child[j].slot)
         IN  child[first].fp

\* Mutant: the removals come first
ReconcilePlan_DeletesFirst(b, kind) ==
    [NoOp EXCEPT !.what = "reconcile", !.b = b, !.at = "drop", !.kind = kind,
                 !.drop = ToDelete(b, kind), !.target = Range(Included(kind))]

ReconcilePlan(b, kind) ==
    [NoOp EXCEPT !.what = "reconcile", !.b = b, !.at = "make", !.kind = kind,
                 !.todo = ToCreate(b, kind), !.drop = ToDelete(b, kind),
                 !.target = Range(Included(kind)), !.fp = BundleFingerprint(b),
                 !.due = \E k \in ActiveKids(b) : child[k].due]

StartReconcile(b, kind, inBulk) ==
    /\ Plannable(b, kind) /\ Room(Len(ToCreate(b, kind)))
    /\ Begin([ReconcilePlan(b, kind) EXCEPT !.bulk = inBulk])
    /\ UNCHANGED <<bundle, child, modOn, relayAt, sick, late, faults, turns, lost, ended, split>>

ReconcileComposition(b) == \E kind \in Kinds :
    /\ kind = bundle[b].kind \/ kind = "basic"
    /\ StartReconcile(b, kind, FALSE)
    /\ UNCHANGED bulk

\* Everything missing has been created and attached.
ReconcileMade ==
    /\ bop.what = "reconcile" /\ At("make") /\ bop.todo = <<>>
    /\ Step([bop EXCEPT !.at = "drop", !.made = <<>>])
    /\ UNCHANGED <<bundle, child, others, faults, lost, ended, split>>

\* FAILED: what this call created has been unwound, the bundle stays.
ReconcileFailed ==
    /\ bop.what = "reconcile" /\ At("unwind") /\ bop.made = <<>>
    /\ Step(NoOp)
    /\ UNCHANGED <<bundle, child, others, faults, lost, ended, split>>

\* PARTIAL on the first removal that fails: a re-run finishes the job.
DropChild ==
    LET k == Head(bop.drop) IN
    /\ At("drop") /\ bop.drop # <<>>
    /\ \/ MayDelete(k) /\ child' = Gone(k) /\ NoFault /\ Step([bop EXCEPT !.drop = Tail(@)])
       \/ /\ \/ ~MayDelete(k) /\ UNCHANGED child /\ NoFault
             \/ MayDelete(k) /\ Fault /\ \E st \in AfterFailedDelete(k) : child' = [child EXCEPT ![k].st = st]
          /\ Step(NoOp)
    /\ UNCHANGED <<bundle, others, lost, ended, split>>

\* set_kind comes last: APPLIED, or PARTIAL if the write fails
SetKind ==
    /\ At("drop") /\ bop.drop = <<>>
    /\ \/ bundle' = [bundle EXCEPT ![bop.b].kind = bop.kind] /\ NoFault
       \/ bop.kind # bundle[bop.b].kind /\ Fault /\ UNCHANGED bundle
    /\ Step(NoOp)
    /\ UNCHANGED <<child, others, lost, ended, split>>

-----------------------------------------------------------------------------
(* reconcile_all in the background: ReconcileRunner                        *)

ActiveBundles == {b \in Bundles : bundle[b].st = "active"}

\* The check and the start have no await between them: one run per process.
BulkStart == \E kind \in {"own", "basic"} :
    /\ ~bulk.on
    /\ \E ids \in SetToSeqs(ActiveBundles) :
           bulk' = [on |-> TRUE, stop |-> FALSE, kind |-> kind, todo |-> ids]
    /\ Turn /\ UNCHANGED <<bundle, child, modOn, relayAt, sick, late, bop, faults, lost, ended, split>>

BulkKind(b) == IF bulk.kind = "own" THEN bundle[b].kind ELSE bulk.kind

\* The bundle is read again under the lock; a skip, a refusal or an error only
\* moves the run on.
BulkBundle ==
    LET b == Head(bulk.todo) IN
    /\ bulk.on /\ ~bulk.stop /\ bulk.todo # <<>>
    /\ bulk' = [bulk EXCEPT !.todo = Tail(@)]
    /\ StartReconcile(b, BulkKind(b), TRUE)

BulkSkips ==
    LET b == Head(bulk.todo) IN
    /\ bulk.on /\ ~bulk.stop /\ bulk.todo # <<>>
    /\ bop = NoOp
    /\ ~Plannable(b, BulkKind(b)) \/ ~Room(Len(ToCreate(b, BulkKind(b))))
    /\ bulk' = [bulk EXCEPT !.todo = Tail(@)]
    /\ UNCHANGED <<bundle, child, modOn, relayAt, sick, late, bop, faults, turns, lost, ended, split>>

\* The run finishes the bundle it is on before it looks at the flag.
BulkEnd ==
    /\ bulk.on /\ ~bop.bulk
    /\ bulk.stop \/ bulk.todo = <<>>
    /\ bulk' = NoBulk
    /\ UNCHANGED <<bundle, child, modOn, relayAt, sick, late, bop, faults, turns, lost, ended, split>>

\* ReconcileRunner.shutdown asks it to stop after the current bundle.
BulkStop ==
    /\ bulk.on /\ ~bulk.stop
    /\ bulk' = [bulk EXCEPT !.stop = TRUE]
    /\ UNCHANGED <<bundle, child, modOn, relayAt, sick, late, bop, faults, turns, lost, ended, split>>

\* The shutdown deadline cancels the task, or the process dies: the operation
\* stops where it is and nothing is unwound (a cancellation is not an Exception).
Interrupt ==
    /\ bop # NoOp /\ Fault
    /\ bop' = NoOp /\ bulk' = NoBulk
    /\ lost' = IF bop.cur = NoKeyId THEN lost ELSE lost \cup {bop.cur}
    /\ UNCHANGED <<bundle, child, modOn, relayAt, sick, late, turns, ended, split>>

-----------------------------------------------------------------------------
(* The rest of the system, as bundles see it                               *)

\* A child goes or dies by another hand; the slot is noted while an operation runs.
TakenBy(k) == IF child[k].for = bop.b THEN [bop EXCEPT !.taken = @ \cup {child[k].slot}] ELSE bop

\* The expiry job and the sweep of block_user revoke keys one by one.
OtherRevokes == \E k \in Ids :
    /\ child[k].st = "active" /\ MayRevoke(k)
    /\ child' = [child EXCEPT ![k].st = "revoked"]
    /\ bop' = TakenBy(k)
    /\ Turn /\ UNCHANGED <<bundle, modOn, relayAt, sick, late, bulk, faults, lost, ended, split>>

\* An uninstall deletes every key of its protocol; a removal may fail.
OtherDeletes == \E k \in Ids :
    /\ child[k].st \notin {"absent", "gone"} /\ MayDelete(k)
    /\ child' = Gone(k)
    /\ bop' = TakenBy(k)
    /\ Turn /\ UNCHANGED <<bundle, modOn, relayAt, sick, late, bulk, faults, lost, ended, split>>

ModuleSwitch == \E m \in Backends :
    /\ modOn' = IF m \in modOn THEN modOn \ {m} ELSE modOn \cup {m}
    /\ Turn /\ UNCHANGED <<bundle, child, relayAt, sick, late, bop, bulk, faults, lost, ended, split>>

RelaySwitch == \E r \in Range(Relays), st \in {"off", "on", "subs"} :
    /\ relayAt[r] # st
    /\ relayAt' = [relayAt EXCEPT ![r] = st]
    /\ Turn /\ UNCHANGED <<bundle, child, modOn, sick, late, bop, bulk, faults, lost, ended, split>>

HealthChanges ==
    /\ sick' = {"xray"} \ sick
    /\ Turn /\ UNCHANGED <<bundle, child, modOn, relayAt, late, bop, bulk, faults, lost, ended, split>>

DeadlinePasses ==
    /\ ~late /\ late' = TRUE
    /\ Turn /\ UNCHANGED <<bundle, child, modOn, relayAt, sick, bop, bulk, faults, lost, ended, split>>

-----------------------------------------------------------------------------
(* GET /sub/{token}, with the token handed out at creation                 *)

\* Mutant: the token alone decides
LoadActiveBundle_TokenOnly(b) == IF bundle[b].tok = "issued" THEN ActiveKids(b) ELSE {}

\* load_active_bundle: the token must resolve and the bundle be ACTIVE; every
\* other case is one and the same 404.
LoadActiveBundle(b) ==
    IF bundle[b].tok = "issued" /\ bundle[b].st = "active" THEN ActiveKids(b) ELSE {}

\* render_links: the children of a relay that is off are left out
RenderLinks(kids) == {child[k].slot : k \in {j \in kids : RelayServes(child[j].slot[2])}}

\* _subscription_handler: the links, or nothing (a 404)
Served(b) == RenderLinks(LoadActiveBundle(b))

-----------------------------------------------------------------------------

\* The steps of the operation that holds the lock
BundleStep ==
    \/ Provision \/ ProvisionFails \/ AttachChild \/ AttachFails \/ CreateDone
    \/ UnwindChild \/ UnwindRow \/ MarkBundleFailed
    \/ RevokeChild \/ RotateToken \/ RetireBundle
    \/ StampChild \/ StampDone \/ RemoveChild \/ RemoveRow
    \/ ReconcileMade \/ ReconcileFailed \/ DropChild \/ SetKind

BundleCall == \E b \in Bundles :
    CreateBundle(b) \/ RevokeBundle(b) \/ ChangeFingerprint(b) \/ DeleteBundle(b) \/ ReconcileComposition(b)

BulkStep == BulkStart \/ BulkBundle \/ BulkSkips \/ BulkEnd \/ BulkStop

BundleWorld == Interrupt \/ OtherRevokes \/ OtherDeletes \/ ModuleSwitch \/ RelaySwitch
               \/ HealthChanges \/ DeadlinePasses

BundlesNext == BundleCall \/ BundleStep \/ BulkStep \/ BundleWorld

BundlesSpec == BundlesInit /\ [][BundlesNext]_bundleVars

-----------------------------------------------------------------------------
(* Properties                                                              *)

Quiet(b) == bop.b # b

\* create_bundle, delete_bundle: once a bundle's row is gone, whether its creation
\* was rolled back or it was deleted, no key made for it is still live, except one
\* whose attach raised or was interrupted (the rollback never learns of it).
NothingLeftBehind ==
    \A b \in Bundles, k \in Ids :
        bundle[b].st = "gone" /\ Quiet(b) /\ child[k].for = b /\ child[k].st = "active" => k \in lost

\* revoke_bundle: a bundle that reads REVOKED has no child that still works or may
\* come back to life.
RevokedHasNoLiveChild ==
    \A b \in Bundles : bundle[b].st = "revoked" => \A k \in KidsOf(b) : child[k].st = "revoked"

\* The subscription endpoint: from the moment revoke_bundle or delete_bundle has
\* written its first status, the URL the user holds yields no link, whether or not
\* the children could be revoked and the token rotated, and after any interruption.
RevokedUrlIsDead == \A b \in ended : Served(b) = {}

\* reconcile_composition: creates come before removals, so from the first removal to
\* the end every slot of the target has an active child, unless another actor took it.
TargetStaysCovered ==
    bop.what = "reconcile" /\ At("drop")
        => bop.target \subseteq SlotsOf(ActiveKids(bop.b)) \cup bop.taken

\* _bundle_fingerprint and change_fingerprint: the live VLESS children of a bundle
\* speak with one TLS fingerprint unless a change of it stopped half way.
OneFingerprint ==
    \A b \in Bundles \ split : \A j, k \in VlessKids(b) : child[j].fp = child[k].fp

\* What a bundle promises its user while it changes: every slot, one fingerprint.
CompositionHolds == TargetStaysCovered /\ OneFingerprint

\* A revoked bundle is over for its user: the children are revoked and the URL is dead.
RevokedIsDead == RevokedHasNoLiveChild /\ RevokedUrlIsDead
=============================================================================
