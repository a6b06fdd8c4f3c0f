---------------------------- MODULE AccessRequests ----------------------------
(***************************************************************************)
(* Access requests (services/access_approval.py), trial keys               *)
(* (services/trial_access.py) and the roles they change                    *)
(* (services/users.py, repositories/users.py).                             *)
(*                                                                         *)
(* A decision on an access request and the role it gives are one           *)
(* transaction, hence one step.  A trial approval is not: under the        *)
(* decision lock it reads the request, has the key issued by a backend and *)
(* records the approval, and a block, a restart or another admin's tap may *)
(* come between.  Timestamps have a resolution of one second, so several   *)
(* writes may carry the same one.  Admins act through user cards            *)
(* (bot/handlers/admin.py): a card stays in the chat with the buttons of    *)
(* the role it was drawn for, whatever has become of the user since.        *)
(***************************************************************************)
EXTENDS Naturals, Sequences, FiniteSets

CONSTANTS Guests,        \* users that are not admins
          MaxAsked, MaxTrials, \* requests and trial requests ever filed
          MaxClock,
          MaxAskFaults, MaxAskCrashes

VARIABLES
  clock,
  role, blockedAt,   \* [Guests -> role], [Guests -> second, 0 = null]
  asked,             \* access requests: [user, at, status]
  trials,            \* trial requests: [user, at, status, key]
  resetAt,           \* trial_quota_reset_at, 0 = null
  trialKeys,         \* keys issued for trials: [req, live]
  decision,          \* the trial approval under the decision lock: [pc, req, key]
  cards,             \* [Guests -> the roles for which some admin has a card]
  offered, choosing, \* guests with the trial button, and with its menu open
  askFaults, askCrashes

askVars == <<clock, role, blockedAt, asked, trials, resetAt, trialKeys, decision, cards, offered, choosing, askFaults, askCrashes>>
userVars == <<role, blockedAt>>
trialVars == <<trials, resetAt, trialKeys, decision>>
screenVars == <<cards, offered, choosing>>
boundVars == <<askFaults, askCrashes>>

GuestRoles == {"unknown", "pending", "approved", "moderator", "blocked"}
NoDecision == [pc |-> "none", req |-> 0, key |-> 0]

IsBlocked(u) == role[u] = "blocked" \/ blockedAt[u] # 0

AskTrouble == askFaults < MaxAskFaults /\ askFaults' = askFaults + 1

\* UserRepository.set_role
SetRoleOf(u, r, at) ==
  role' = [role EXCEPT ![u] = r] /\ blockedAt' = [blockedAt EXCEPT ![u] = at]

-----------------------------------------------------------------------------
(* Access requests.                                                        *)

\* create_or_get_request: the user row is made, and a request filed unless the
\* user has access or one is pending.  A blocked user may ask.
CreateOrGetRequest(u) ==
  LET r == IF role[u] = "unknown" THEN "pending" ELSE role[u]
      filed == /\ IsBlocked(u) \/ r \notin {"approved", "moderator"}
               /\ ~\E i \in DOMAIN asked : asked[i].user = u /\ asked[i].status = "pending"
  IN /\ filed => Len(asked) < MaxAsked
     /\ role' = [role EXCEPT ![u] = r]
     /\ asked' = IF filed THEN Append(asked, [user |-> u, at |-> clock, status |-> "pending"])
                 ELSE asked

\* can_request_trial: no request since the reset that was not rejected.
CanRequestTrial(u) ==
  ~\E i \in DOMAIN trials :
     trials[i].user = u /\ trials[i].at > resetAt[u] /\ trials[i].status # "rejected"

\* _send_trial_offer: the button, unless a trial key is live.
SendTrialOffer(u) ==
  offered' = IF /\ CanRequestTrial(u)
                /\ ~\E k \in DOMAIN trialKeys :
                      trials[trialKeys[k].req].user = u /\ trialKeys[k].live
             THEN offered \cup {u} ELSE offered

\* /start.  Only a guest without access and without a block is offered a trial.
StartCommand(u) ==
  /\ CreateOrGetRequest(u)
  /\ IF IsBlocked(u) \/ role[u] \in {"approved", "moderator"} THEN UNCHANGED offered
     ELSE SendTrialOffer(u)
  /\ UNCHANGED <<clock, blockedAt, trialVars, cards, choosing, boundVars>>

\* The bug of a check that takes any request to be newer than the block.
RequestIsAfterBlock_Always(i) == TRUE

\* _request_is_after_block
RequestIsAfterBlock(i) ==
  LET blocked == blockedAt[asked[i].user]
  IN blocked # 0 /\ asked[i].at > blocked

\* approve with approve_access_request_user.  For a user blocked since the
\* request was filed it raises, and the transaction leaves it pending.
ApproveRequest(i) ==
  LET u == asked[i].user
  IN /\ asked[i].status = "pending"
     /\ IsBlocked(u) => RequestIsAfterBlock(i)
     /\ asked' = [asked EXCEPT ![i].status = "approved"]
     /\ IF role[u] \in {"pending", "blocked"}
        THEN SetRoleOf(u, "approved", 0) /\ choosing' = choosing \ {u}
        ELSE UNCHANGED <<userVars, choosing>>
     /\ UNCHANGED <<clock, trialVars, cards, offered, boundVars>>

\* reject with reject_access_request_user, which changes no role.
RejectRequest(i) ==
  /\ asked[i].status = "pending"
  /\ asked' = [asked EXCEPT ![i].status = "rejected"]
  /\ UNCHANGED <<clock, userVars, trialVars, screenVars, boundVars>>

\* admin_access_decision_confirm: a card of a decided request does nothing.
AccessDecision(i) ==
  asked[i].status = "pending" /\ (ApproveRequest(i) \/ RejectRequest(i))

-----------------------------------------------------------------------------
(* Roles.                                                                  *)

\* block_user: the role, the user's dialog, then the sweep of the user's keys.
\* A key that cannot be revoked stays, and the block stands.
BlockUser(u) ==
  /\ SetRoleOf(u, "blocked", clock) /\ choosing' = choosing \ {u}
  /\ LET hers == {k \in DOMAIN trialKeys : trials[trialKeys[k].req].user = u /\ trialKeys[k].live}
         swept(S) == [k \in DOMAIN trialKeys |->
                        IF k \in S THEN [trialKeys[k] EXCEPT !.live = FALSE] ELSE trialKeys[k]]
     IN \/ trialKeys' = swept(hers) /\ UNCHANGED askFaults
        \/ \E k \in hers : trialKeys' = swept(hers \ {k}) /\ AskTrouble
  /\ UNCHANGED <<clock, asked, trials, resetAt, decision, cards, offered, askCrashes>>

\* unblock_user
UnblockUser(u) ==
  /\ SetRoleOf(u, "approved", 0) /\ choosing' = choosing \ {u}
  /\ UNCHANGED <<clock, asked, trialVars, cards, offered, boundVars>>

\* set_role, never to blocked: it lifts a block without being asked to.
SetRole(u, r) ==
  /\ r # "blocked" /\ SetRoleOf(u, r, 0)
  /\ choosing' = IF r = "approved" THEN choosing \ {u} ELSE choosing
  /\ UNCHANGED <<clock, asked, trialVars, cards, offered, boundVars>>

\* The buttons of a superadmin's card of a guest with this role.
CardButtons(r) ==
  {b \in {"approve", "block", "unblock", "moderator"} :
     \/ b = "approve" /\ r = "pending"
     \/ b = "block" /\ r # "blocked"
     \/ b = "unblock" /\ r = "blocked"
     \/ b = "moderator" /\ r \in {"approved", "moderator"}}

\* Some card in some chat still has this button.
Tappable(u, b) == \E r \in cards[u] : b \in CardButtons(r)

\* user_card_view: the card of the user as he is now.
UserCard(u) ==
  /\ role[u] # "unknown" /\ cards' = [cards EXCEPT ![u] = @ \cup {role[u]}]
  /\ UNCHANGED <<clock, userVars, asked, trialVars, offered, choosing, boundVars>>

\* admin_user_approve does not look at the user's present role.
TapApprove(u) == Tappable(u, "approve") /\ SetRole(u, "approved")

\* admin_set_moderator toggles the role the user has when it is confirmed.
TapModerator(u) ==
  /\ Tappable(u, "moderator")
  /\ SetRole(u, IF role[u] = "moderator" THEN "approved" ELSE "moderator")

\* admin_block_user_confirm and admin_unblock_user_confirm look again.
TapBlock(u) == Tappable(u, "block") /\ ~IsBlocked(u) /\ BlockUser(u)
TapUnblock(u) == Tappable(u, "unblock") /\ IsBlocked(u) /\ UnblockUser(u)

-----------------------------------------------------------------------------
(* Trials.                                                                 *)

\* trial_request_start: the menu opens.  The button outlives a block, and the
\* middleware lets it through.
TrialRequestStart(u) ==
  /\ u \in offered /\ ~IsBlocked(u) /\ CanRequestTrial(u)
  /\ choosing' = choosing \cup {u}
  /\ UNCHANGED <<clock, userVars, asked, trialVars, cards, offered, boundVars>>

\* create_trial_request: the quota check and the insert are one transaction, and
\* a unique index allows one pending request.
CreateTrialRequest(u) ==
  /\ CanRequestTrial(u)
  /\ ~\E i \in DOMAIN trials : trials[i].user = u /\ trials[i].status = "pending"
  /\ trials' = Append(trials, [user |-> u, at |-> clock, status |-> "pending", key |-> 0])

\* trial_request_proto: the request is filed, or the menu just closed: a block, a
\* protocol that was switched off, a quota used up since, an error.
TrialRequestProto(u) ==
  /\ u \in choosing /\ choosing' = choosing \ {u}
  /\ \/ ~IsBlocked(u) /\ Len(trials) < MaxTrials /\ CreateTrialRequest(u)
     \/ UNCHANGED trials
  /\ UNCHANGED <<clock, userVars, asked, resetAt, trialKeys, decision, cards, offered, boundVars>>

\* The bug of an approval that trusts the list it was tapped from.
TakeTrial_Unchecked(i) ==
  /\ decision.pc = "none"
  /\ decision' = [pc |-> "issue", req |-> i, key |-> 0]
  /\ UNCHANGED <<clock, userVars, asked, trials, resetAt, trialKeys, screenVars, boundVars>>

\* The decision lock and the check under it.
TakeTrial(i) ==
  /\ decision.pc = "none" /\ trials[i].status = "pending"
  /\ decision' = [pc |-> "issue", req |-> i, key |-> 0]
  /\ UNCHANGED <<clock, userVars, asked, trials, resetAt, trialKeys, screenVars, boundVars>>

\* The backend issues the key, or refuses: a blocked owner, or a failure.
IssueTrial ==
  /\ decision.pc = "issue"
  /\ \/ /\ ~IsBlocked(trials[decision.req].user)
        /\ trialKeys' = Append(trialKeys, [req |-> decision.req, live |-> TRUE])
        /\ decision' = [decision EXCEPT !.pc = "record", !.key = Len(trialKeys')]
        /\ UNCHANGED askFaults
     \/ /\ IsBlocked(trials[decision.req].user)
        /\ decision' = NoDecision /\ UNCHANGED <<trialKeys, askFaults>>
     \/ decision' = NoDecision /\ AskTrouble /\ UNCHANGED trialKeys
  /\ UNCHANGED <<clock, userVars, asked, trials, resetAt, screenVars, askCrashes>>

\* The approval is written; if that fails the key is revoked.
RecordTrial ==
  /\ decision.pc = "record"
  /\ \/ /\ trials' = [trials EXCEPT ![decision.req].status = "approved",
                                    ![decision.req].key = decision.key]
        /\ decision' = NoDecision
        /\ UNCHANGED askFaults
     \/ decision' = [decision EXCEPT !.pc = "rollback"] /\ AskTrouble /\ UNCHANGED trials
  /\ UNCHANGED <<clock, userVars, asked, resetAt, trialKeys, screenVars, askCrashes>>

\* A rollback that fails is logged for manual cleanup.
RollbackTrial ==
  /\ decision.pc = "rollback"
  /\ \/ trialKeys' = [trialKeys EXCEPT ![decision.key].live = FALSE] /\ UNCHANGED askFaults
     \/ UNCHANGED trialKeys /\ AskTrouble
  /\ decision' = NoDecision
  /\ UNCHANGED <<clock, userVars, asked, trials, resetAt, screenVars, askCrashes>>

RejectTrial(i) ==
  /\ decision.pc = "none" /\ trials[i].status = "pending"
  /\ trials' = [trials EXCEPT ![i].status = "rejected"]
  /\ UNCHANGED <<clock, userVars, asked, resetAt, trialKeys, decision, screenVars, boundVars>>

\* admin_trial_approve and admin_trial_reject, from a list that may be stale.
TrialDecision(i) == TakeTrial(i) \/ RejectTrial(i)

\* admin_reset_trial_quota
ResetTrialQuota(u) ==
  /\ role[u] # "unknown" /\ resetAt[u] # clock
  /\ resetAt' = [resetAt EXCEPT ![u] = clock]
  /\ UNCHANGED <<clock, userVars, asked, trials, trialKeys, decision, screenVars, boundVars>>

\* The owner or the expiry job revokes the key.
TrialKeyEnds(k) ==
  /\ trialKeys[k].live /\ decision.pc = "none"
  /\ trialKeys' = [trialKeys EXCEPT ![k].live = FALSE]
  /\ UNCHANGED <<clock, userVars, asked, trials, resetAt, decision, screenVars, boundVars>>

AskTick ==
  /\ clock < MaxClock /\ clock' = clock + 1
  /\ UNCHANGED <<userVars, asked, trialVars, screenVars, boundVars>>

\* A restart forgets the decision under way, not the key it issued, and the
\* dialogs.
AskCrash ==
  /\ askCrashes < MaxAskCrashes /\ askCrashes' = askCrashes + 1
  /\ decision' = NoDecision /\ choosing' = {}
  /\ UNCHANGED <<clock, userVars, asked, trials, resetAt, trialKeys, cards, offered, askFaults>>

AskInit ==
  /\ clock = 1
  /\ role = [u \in Guests |-> "unknown"] /\ blockedAt = [u \in Guests |-> 0]
  /\ asked = <<>> /\ trials = <<>> /\ resetAt = [u \in Guests |-> 0]
  /\ trialKeys = <<>> /\ decision = NoDecision
  /\ cards = [u \in Guests |-> {}] /\ offered = {} /\ choosing = {}
  /\ askFaults = 0 /\ askCrashes = 0

AskNext ==
  \/ \E u \in Guests : \/ StartCommand(u) \/ UserCard(u)
                       \/ TapApprove(u) \/ TapModerator(u) \/ TapBlock(u) \/ TapUnblock(u)
                       \/ TrialRequestStart(u) \/ TrialRequestProto(u) \/ ResetTrialQuota(u)
  \/ \E i \in DOMAIN asked : AccessDecision(i)
  \/ \E i \in DOMAIN trials : TrialDecision(i)
  \/ \E k \in DOMAIN trialKeys : TrialKeyEnds(k)
  \/ IssueTrial \/ RecordTrial \/ RollbackTrial \/ AskTick \/ AskCrash

AskSpec == AskInit /\ [][AskNext]_askVars

-----------------------------------------------------------------------------
AskTypeOK ==
  /\ role \in [Guests -> GuestRoles] /\ blockedAt \in [Guests -> 0 .. MaxClock]
  /\ \A i \in DOMAIN asked : asked[i].status \in {"pending", "approved", "rejected"}
  /\ \A i \in DOMAIN trials : trials[i].status \in {"pending", "approved", "rejected"}
  /\ decision.pc \in {"none", "issue", "record", "rollback"}

\* An approval never lifts a block by a request that is older than the block:
\* an admin who taps a stale card cannot undo a colleague's block
\* (approve_access_request_user).
StaleApprovalKeepsBlock ==
  [][\A i \in DOMAIN asked :
       asked'[i].status = "approved" /\ asked[i].status = "pending" /\ IsBlocked(asked[i].user)
         => asked[i].at > blockedAt[asked[i].user]]_askVars

\* A trial request has at most one live key, over double taps, failures to
\* record and rollbacks; each failed rollback and each crash may leave one more
\* (approve_trial_request: "provisioned exactly once").
OneKeyPerTrial ==
  \A i \in DOMAIN trials :
    Cardinality({k \in DOMAIN trialKeys : trialKeys[k].req = i /\ trialKeys[k].live})
      <= 1 + askCrashes + askFaults \div 2
=============================================================================
