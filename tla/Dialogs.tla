------------------------------- MODULE Dialogs -------------------------------
(***************************************************************************)
(* The wizards of one superadmin's private chat (bot/handlers/keys.py,     *)
(* admin.py, key_bundles.py, proxy.py, callbacks.py) over the chat's FSM   *)
(* state and data.                                                         *)
(*                                                                         *)
(* Every update is a task of its own.  A task is dispatched if the state   *)
(* filter of its handler admits the state at that moment; the handler then *)
(* reads the database, and what it does next it does to the state it finds *)
(* afterwards, which another task may have changed.  The in-memory FSM     *)
(* storage itself never suspends.                                          *)
(*                                                                         *)
(* Data is kept as tags: a value is the number of the wizard on whose      *)
(* screen it was chosen, 0 when it was not.  Wizards do not clear data     *)
(* when they start (announcements excepted), and update_data merges.       *)
(***************************************************************************)
EXTENDS Naturals, FiniteSets, Sequences

CONSTANTS Flows,        \* the wizards of this instance
          Kinds,        \* protocols on offer
          Clients,      \* users an admin issues keys for
          BundleAsksFp, \* the Xray module is on: a bundle asks for a fingerprint
          MaxWizards, MaxDone,
          MaxRaces,     \* updates that arrive while another is in progress
          Slots         \* two updates in progress at once

VARIABLES
  fsm,      \* [flow, step]
  data,     \* the FSM data
  tasks,    \* two updates in progress
  wizNo,    \* wizards opened so far
  done,     \* what the wizards did: [what, wiz, used, relay]
  cooling,  \* the actions inside their rate-limit window
  relayOn,  \* the relay catalogue offers a relay
  races     \* updates that arrived while another was in progress

dialogVars == <<fsm, data, tasks, wizNo, done, cooling, relayOn, races>>

RelayProtocols == {"xray", "hy2"}
NoState == [flow |-> "none", step |-> "none"]
At(f, step) == [flow |-> f, step |-> step]
NoTask == [h |-> "none", f |-> "none", arg |-> "none", wiz |-> 0, pc |-> 0, cap |-> <<>>]
NoData == [wiz |-> 0, kind |-> "none", owner |-> "none", relay |-> 0, fp |-> 0, mtu |-> 0,
           note |-> 0, days |-> 0, key |-> 0, bundle |-> 0, user |-> 0, nonce |-> 0, msg |-> 0,
           roles |-> {}, protos |-> {}, trs |-> {}]

Entries == {"choose", "xhttp", "bundle", "issue", "keynote", "bundlenote", "keyfp", "bundlefp",
            "usernote", "proxy", "announce"}
Busy == \E s \in Slots : tasks[s] # NoTask
Overlap == races' = (IF Busy THEN races + 1 ELSE races) /\ (Busy => races < MaxRaces)
Entering == Cardinality({s \in Slots : tasks[s].h \in Entries})

-----------------------------------------------------------------------------
(* Dispatch.                                                               *)

\* Tap: flow f's handler h under its state filter, answering the screen of
\* the current wizard.  Entries and buttons without a filter: steps = {}.
Tap(s, f, h, steps, arg) ==
  /\ f \in Flows /\ tasks[s] = NoTask
  /\ steps # {} => fsm \in {At(f, step) : step \in steps}
  /\ h \in Entries => wizNo + Entering < MaxWizards
  /\ tasks' = [tasks EXCEPT ![s] = [h |-> h, f |-> f, arg |-> arg, wiz |-> wizNo, pc |-> 1,
                                    cap |-> IF h = "confirm" THEN <<data>> ELSE <<>>]]
  /\ Overlap
  /\ UNCHANGED <<fsm, data, wizNo, done, cooling, relayOn>>

Runs(s, f, h) == tasks[s].f = f /\ tasks[s].h = h /\ tasks[s].pc = 1
Screen(s) == tasks[s].wiz
Arg(s) == tasks[s].arg
Ends(s) == tasks' = [tasks EXCEPT ![s] = NoTask]
Suspends(s, cap) == tasks' = [tasks EXCEPT ![s].pc = 2, ![s].cap = cap]
Clear == fsm' = NoState /\ data' = NoData
KeepWorld == UNCHANGED <<done, cooling, relayOn, races>>
Keep == KeepWorld /\ UNCHANGED wizNo

\* The handler stops at its role check or a failed read.  The handlers of typed
\* input clear the wizard then, the buttons leave it.
Denied(s) ==
  /\ tasks[s].pc = 1 /\ Ends(s) /\ Keep
  /\ IF tasks[s].h \in {"note", "dayscustom", "newnote", "usernoteinput", "message", "schedule"}
     THEN Clear ELSE UNCHANGED <<fsm, data>>

\* A wizard opens: the state is set and its fields merged into the data.
Opens(s, state, merged) ==
  /\ Ends(s) /\ KeepWorld
  /\ fsm' = state /\ wizNo' = wizNo + 1
  /\ data' = [merged EXCEPT !.wiz = wizNo + 1]

\* A step stores its answer and moves on.
Answers(s, state, merged) == Ends(s) /\ Keep /\ fsm' = state /\ data' = merged

\* What a finished wizard did.
Did(what, d, used, relay) ==
  /\ Len(done) < MaxDone
  /\ done' = Append(done, [what |-> what, wiz |-> d.wiz, used |-> used, relay |-> relay])
Does(what, d, used) == Did(what, d, used, 0)

\* The bug of a rate limiter that lets everything through.
LimiterPasses_Always(action) == TRUE

\* RateLimiter.check with burst 1: refused inside the window of an accepted call.
LimiterPasses(action) == action \notin cooling

\* The window ends.  A role check takes less than the window, so not between a
\* tap on confirm and its check; a key service call may take longer.
Tick ==
  /\ cooling # {} /\ cooling' = {}
  /\ ~\E s \in Slots : \/ tasks[s].h \in {"confirm", "savenote", "proxyconfirm", "send"} /\ tasks[s].pc = 1 /\ tasks[s].f # "admin"
                       \/ tasks[s].h = "confirm" /\ tasks[s].pc = 2
  /\ UNCHANGED <<fsm, data, tasks, wizNo, done, relayOn, races>>

-----------------------------------------------------------------------------
(* Issuing a key: the user's wizard (flow own) and the admin's (admin).    *)

\* _prompt_route_or_note and its admin twin.
PromptRouteOrNote(f, kind, d) ==
  [state |-> At(f, IF relayOn /\ kind \in RelayProtocols THEN "route" ELSE "note"),
   merged |-> [d EXCEPT !.kind = kind, !.relay = 0]]

CreateKeyChoose(s) ==
  /\ Runs(s, "own", "choose")
  /\ LET p == PromptRouteOrNote("own", Arg(s), data) IN Opens(s, p.state, p.merged)

CreateKeyChooseXhttp(s) == Runs(s, "own", "xhttp") /\ Opens(s, At("own", "profile"), data)

CreateKeyXhttpProfile(s) ==
  /\ Runs(s, "own", "profile")
  /\ LET p == PromptRouteOrNote("own", "xray", data) IN Answers(s, p.state, p.merged)

\* Straight away, or after the notice about AmneziaWG was acknowledged.
CreateKeyBundle(s) ==
  /\ Runs(s, "own", "bundle")
  /\ Opens(s, At("own", "bundlekind"), [data EXCEPT !.kind = "bundle"])

CreateKeyBundleKind(s) ==
  Runs(s, "own", "bundlekind") /\ Answers(s, At("own", "note"), [data EXCEPT !.kind = "bundle"])

AdminIssueUserSelected(s) ==
  /\ Runs(s, "admin", "issue")
  /\ Opens(s, At("admin", "type"), [data EXCEPT !.owner = Arg(s)])

\* A button of another client's keyboard ends the wizard.
SameOwner(s, owner, answer) ==
  IF data.owner = owner THEN answer ELSE Ends(s) /\ Keep /\ Clear

\* The transport list; also the way back from the profile step.
AdminIssueVless(s) ==
  Runs(s, "admin", "vless") /\ SameOwner(s, Arg(s), Answers(s, At("admin", "type"), data))

AdminIssueType(s) ==
  /\ Runs(s, "admin", "type")
  /\ LET p == PromptRouteOrNote("admin", Arg(s)[1], data)
     IN SameOwner(s, Arg(s)[2],
          IF Arg(s)[1] = "xhttp" THEN Answers(s, At("admin", "profile"), data)
          ELSE Answers(s, p.state, p.merged))

AdminIssueProfile(s) ==
  /\ Runs(s, "admin", "profile")
  /\ LET p == PromptRouteOrNote("admin", "xray", data)
     IN SameOwner(s, Arg(s), Answers(s, p.state, p.merged))

\* Direct, or a relay that is still offered.
ChooseRoute(s, f, through) ==
  IF through /\ ~relayOn THEN Ends(s) /\ Keep /\ UNCHANGED <<fsm, data>>
  ELSE Answers(s, At(f, "note"), [data EXCEPT !.relay = IF through THEN Screen(s) ELSE 0])

CreateKeyRoute(s) == Runs(s, "own", "route") /\ ChooseRoute(s, "own", Arg(s))

AdminIssueRoute(s) ==
  Runs(s, "admin", "route") /\ SameOwner(s, Arg(s)[2], ChooseRoute(s, "admin", Arg(s)[1]))

\* The step after the note, for the kind the data had before the prompt was
\* deleted.
AfterNote(kind) == IF kind = "awg" THEN "mtu"
                   ELSE IF kind = "xray" \/ (kind = "bundle" /\ BundleAsksFp) THEN "fp"
                   ELSE "days"

TakeNote(s, f) ==
  /\ Runs(s, f, "note")
  /\ data' = [data EXCEPT !.note = Screen(s)]
  /\ Suspends(s, <<data.kind>>) /\ Keep /\ UNCHANGED fsm

NoteTaken(s, f) ==
  /\ tasks[s].h = "note" /\ tasks[s].f = f /\ tasks[s].pc = 2
  /\ fsm' = At(f, AfterNote(tasks[s].cap[1]))
  /\ Ends(s) /\ Keep /\ UNCHANGED data

CreateKeyNote(s) == TakeNote(s, "own") \/ NoteTaken(s, "own")
AdminIssueNote(s) == TakeNote(s, "admin") \/ NoteTaken(s, "admin")

TakeFp(s, f) == Runs(s, f, "fp") /\ Answers(s, At(f, "days"), [data EXCEPT !.fp = Screen(s)])
CreateKeyFp(s) == TakeFp(s, "own")
AdminIssueFp(s) == TakeFp(s, "admin")

TakeMtu(s, f) == Runs(s, f, "mtu") /\ Answers(s, At(f, "days"), [data EXCEPT !.mtu = Screen(s)])
CreateKeyMtu(s) == TakeMtu(s, "own")
AdminIssueMtu(s) == TakeMtu(s, "admin")

AskMtu(s, f) == Runs(s, f, "mtuask") /\ Answers(s, At(f, "mtucustom"), data)
CreateKeyMtuAsk(s) == AskMtu(s, "own")
AdminIssueMtuAsk(s) == AskMtu(s, "admin")

TakeCustomMtu(s, f) ==
  \/ /\ Runs(s, f, "mtucustom")
     /\ data' = [data EXCEPT !.mtu = Screen(s)]
     /\ Suspends(s, <<>>) /\ Keep /\ UNCHANGED fsm
  \/ /\ tasks[s].h = "mtucustom" /\ tasks[s].f = f /\ tasks[s].pc = 2
     /\ Answers(s, At(f, "days"), data)
CreateKeyMtuCustom(s) == TakeCustomMtu(s, "own")
AdminIssueMtuCustom(s) == TakeCustomMtu(s, "admin")

AskDays(s, f) == Runs(s, f, "daysask") /\ Answers(s, At(f, "dayscustom"), data)
CreateKeyDaysAsk(s) == AskDays(s, "own")
AdminIssueDaysAsk(s) == AskDays(s, "admin")

CreateKeyExpiry(s) ==
  Runs(s, "own", "days") /\ Answers(s, At("own", "confirm"), [data EXCEPT !.days = Screen(s)])

CreateKeyCustomDays(s) ==
  Runs(s, "own", "dayscustom") /\ Answers(s, At("own", "confirm"), [data EXCEPT !.days = Screen(s)])

\* The admin's screen also shows the owner, read in between.
AdminDays(s, h) ==
  \/ /\ Runs(s, "admin", h)
     /\ data' = [data EXCEPT !.days = Screen(s)]
     /\ Suspends(s, <<>>) /\ Keep /\ UNCHANGED fsm
  \/ /\ tasks[s].h = h /\ tasks[s].f = "admin" /\ tasks[s].pc = 2
     /\ Answers(s, At("admin", "confirm"), data)
AdminIssueExpiry(s) == AdminDays(s, "days")
AdminIssueCustomDays(s) == AdminDays(s, "dayscustom")

\* The choices a key is made from: what its kind does not use is passed on and
\* ignored.
Used(d) == {d.note, d.days}
             \cup (IF d.kind \in RelayProtocols THEN {d.relay} ELSE {})
             \cup (IF d.kind = "xray" \/ (d.kind = "bundle" /\ BundleAsksFp) THEN {d.fp} ELSE {})
             \cup (IF d.kind = "awg" THEN {d.mtu} ELSE {})

\* The end of both confirm handlers: the rate limit, the relay once more, the
\* wizard cleared, the key created.  next is what becomes of the task.
IssueKey(d, next) ==
  /\ UNCHANGED <<wizNo, relayOn, races>>
  /\ IF ~LimiterPasses("create") \/ (d.relay # 0 /\ ~relayOn /\ d.kind # "bundle")
     THEN /\ cooling' = cooling \cup {"create"}
          /\ tasks' = [tasks EXCEPT ![next.slot] = NoTask] /\ UNCHANGED <<fsm, data, done>>
     ELSE /\ cooling' = cooling \cup {"create"}
          /\ Clear
          /\ IF d.kind = "none" THEN UNCHANGED done ELSE Did("key", d, Used(d), d.relay)
          /\ tasks' = [tasks EXCEPT ![next.slot] = next.task]

\* create_key_confirm works on the data it read before its role check.
CreateKeyConfirm(s) ==
  /\ Runs(s, "own", "confirm")
  /\ IssueKey(tasks[s].cap[1], [slot |-> s, task |-> NoTask])

\* admin_issue_confirm takes the admin's lock and reads the data under it, the
\* state not.
AdminIssueConfirm(s) ==
  \/ /\ Runs(s, "admin", "confirm")
     /\ ~\E o \in Slots \ {s} : tasks[o].h = "confirm" /\ tasks[o].pc \in {2, 3} /\ tasks[o].f = "admin"
     /\ IF data.owner = "none" \/ data.kind = "none" THEN Ends(s) ELSE Suspends(s, <<data>>)
     /\ Keep /\ UNCHANGED <<fsm, data>>
  \/ /\ tasks[s].h = "confirm" /\ tasks[s].pc = 2
     /\ IssueKey(tasks[s].cap[1], [slot |-> s, task |-> [tasks[s] EXCEPT !.pc = 3, !.cap = <<>>]])
  \/ /\ tasks[s].h = "confirm" /\ tasks[s].pc = 3
     /\ Ends(s) /\ Keep /\ UNCHANGED <<fsm, data>>

-----------------------------------------------------------------------------
(* Editing a note or a fingerprint: of a key, of a bundle, of a user.      *)

\* The bug of a prompt for a key that leaves the bundle of an abandoned wizard.
TargetKey_Merged(d, w) == [d EXCEPT !.key = w]

TargetKey(d, w) == [d EXCEPT !.key = w, !.bundle = 0]
TargetBundle(d, w) == [d EXCEPT !.bundle = w, !.key = 0]

EditNotePrompt(s) ==
  Runs(s, "edit", "keynote") /\ Opens(s, At("edit", "newnote"), TargetKey(data, wizNo + 1))
EditBundleNotePrompt(s) ==
  Runs(s, "edit", "bundlenote") /\ Opens(s, At("edit", "newnote"), TargetBundle(data, wizNo + 1))
EditFpPrompt(s) ==
  Runs(s, "edit", "keyfp") /\ Opens(s, At("edit", "fp"), TargetKey(data, wizNo + 1))
ChangeBundleFpPrompt(s) ==
  Runs(s, "edit", "bundlefp") /\ Opens(s, At("edit", "fp"), TargetBundle(data, wizNo + 1))

\* The entity is read, the note stored, the prompt deleted, the screen shown.
EditNoteWaiting(s) ==
  \/ /\ Runs(s, "edit", "newnote")
     /\ data' = [data EXCEPT !.note = Screen(s)]
     /\ Suspends(s, <<>>) /\ Keep /\ UNCHANGED fsm
  \/ /\ tasks[s].h = "newnote" /\ tasks[s].pc = 2
     /\ Answers(s, At("edit", "savenote"), data)

\* bundle_id decides what is edited.
EditTarget(d) == IF d.bundle # 0 THEN d.bundle ELSE d.key

\* The limiter is asked before the answer to Telegram, the data read after it.
EditNoteConfirm(s) ==
  \/ /\ Runs(s, "edit", "savenote")
     /\ IF LimiterPasses("note")
        THEN cooling' = cooling \cup {"note"} /\ Suspends(s, <<>>)
        ELSE Ends(s) /\ UNCHANGED cooling
     /\ UNCHANGED <<fsm, data, wizNo, done, relayOn, races>>
  \/ /\ tasks[s].h = "savenote" /\ tasks[s].pc = 2 /\ Ends(s) /\ Clear
     /\ IF EditTarget(data) = 0 THEN UNCHANGED done
        ELSE Does("note", data, {EditTarget(data), data.note})
     /\ UNCHANGED <<wizNo, cooling, relayOn, races>>

\* No await before the data is read and cleared.
EditFpSelect(s) ==
  /\ Runs(s, "edit", "setfp") /\ Ends(s) /\ Clear
  /\ IF EditTarget(data) = 0 THEN UNCHANGED done
     ELSE Does("fp", data, {EditTarget(data)})
  /\ UNCHANGED <<wizNo, cooling, relayOn, races>>

AdminEditUserNote(s) ==
  /\ Runs(s, "edit", "usernote")
  /\ Opens(s, At("edit", "usernote"), [data EXCEPT !.user = wizNo + 1])

\* The target is read before the prompt is deleted and the note written.
AdminEditUserNoteInput(s) ==
  \/ /\ Runs(s, "edit", "usernoteinput")
     /\ IF data.user = 0 THEN Ends(s) /\ Clear
        ELSE Suspends(s, <<data>>) /\ UNCHANGED <<fsm, data>>
     /\ Keep
  \/ /\ tasks[s].h = "usernoteinput" /\ tasks[s].pc = 2 /\ Ends(s) /\ Clear
     /\ Does("usernote", tasks[s].cap[1], {tasks[s].cap[1].user})
     /\ UNCHANGED <<wizNo, cooling, relayOn, races>>

-----------------------------------------------------------------------------
(* Proxy access: the confirm button carries a nonce instead of a filter.   *)

ProxyGetPrompt(s) ==
  /\ Runs(s, "proxy", "proxy")
  /\ Opens(s, At("proxy", "confirm"), [data EXCEPT !.nonce = wizNo + 1])

\* Under the user's lock: a stale nonce ends whatever wizard the chat is in.
ProxyConfirm(s) ==
  /\ Runs(s, "proxy", "proxyconfirm") /\ Ends(s)
  /\ UNCHANGED <<wizNo, relayOn, races>>
  /\ IF data.nonce # Arg(s) THEN Clear /\ UNCHANGED <<done, cooling>>
     ELSE IF ~LimiterPasses("proxy") THEN UNCHANGED <<fsm, data, done, cooling>>
     ELSE Clear /\ cooling' = cooling \cup {"proxy"} /\ Does("proxy", [data EXCEPT !.wiz = Arg(s)], {data.nonce})

ProxyCancel ==
  /\ "proxy" \in Flows /\ fsm = At("proxy", "confirm") /\ Clear
  /\ Overlap
  /\ UNCHANGED <<tasks, wizNo, done, cooling, relayOn>>

-----------------------------------------------------------------------------
(* Announcements: the audience, the message, send now or schedule.         *)

Toggle(S, v) == IF v \in S THEN S \ {v} ELSE S \cup {v}

\* The only wizard that clears the data first.
AdminAnnouncementStart(s) == Runs(s, "ann", "announce") /\ Opens(s, At("ann", "roles"), NoData)

ToggleRole(s) ==
  /\ Runs(s, "ann", "role")
  /\ IF Arg(s) = "all" THEN Answers(s, At("ann", "protos"), [data EXCEPT !.roles = {}])
     ELSE Answers(s, fsm, [data EXCEPT !.roles = Toggle(@, Arg(s))])

RolesDone(s) ==
  /\ Runs(s, "ann", "rolesdone")
  /\ Answers(s, IF data.roles = {} THEN fsm ELSE At("ann", "protos"), data)

BackToRoles(s) == Runs(s, "ann", "backroles") /\ Answers(s, At("ann", "roles"), data)

ToggleProtocol(s) ==
  /\ Runs(s, "ann", "proto")
  /\ IF Arg(s) = "all" THEN Answers(s, At("ann", "message"), [data EXCEPT !.protos = {}, !.trs = {}])
     ELSE Answers(s, fsm, [data EXCEPT !.protos = Toggle(@, Arg(s))])

ProtocolsDone(s) ==
  /\ Runs(s, "ann", "protosdone")
  /\ IF data.protos = {} THEN Answers(s, fsm, data)
     ELSE IF "xray" \in data.protos THEN Answers(s, At("ann", "trs"), data)
     ELSE Answers(s, At("ann", "message"), [data EXCEPT !.trs = {}])

BackToProtocols(s) == Runs(s, "ann", "backprotos") /\ Answers(s, At("ann", "protos"), data)

ToggleTransport(s) ==
  /\ Runs(s, "ann", "tr")
  /\ IF Arg(s) = "all" THEN Answers(s, At("ann", "message"), [data EXCEPT !.trs = {}])
     ELSE Answers(s, fsm, [data EXCEPT !.trs = Toggle(@, Arg(s))])

TransportsDone(s) ==
  /\ Runs(s, "ann", "trsdone")
  /\ Answers(s, IF data.trs = {} THEN fsm ELSE At("ann", "message"), data)

\* The recipients are counted before the message is stored.
AnnouncementMessage(s) ==
  Runs(s, "ann", "message") /\ Answers(s, At("ann", "send"), [data EXCEPT !.msg = Screen(s)])

\* Under the admin's lock: role, data, rate limit, clear, send.
AnnouncementSend(s) ==
  /\ Runs(s, "ann", "send") /\ Ends(s)
  /\ UNCHANGED <<wizNo, relayOn, races>>
  /\ IF data.msg = 0 \/ ~LimiterPasses("send") THEN UNCHANGED <<fsm, data, done, cooling>>
     ELSE Clear /\ cooling' = cooling \cup {"send"} /\ Does("announcement", data, {data.msg})

AnnouncementScheduleRequest(s) ==
  Runs(s, "ann", "schedulerequest") /\ Answers(s, At("ann", "schedule"), data)

AnnouncementScheduleTime(s) ==
  /\ Runs(s, "ann", "schedule") /\ Ends(s) /\ Clear
  /\ IF data.msg = 0 THEN UNCHANGED done ELSE Does("announcement", data, {data.msg})
  /\ UNCHANGED <<wizNo, cooling, relayOn, races>>

AnnouncementCancel(s) ==
  /\ Runs(s, "ann", "cancelann") /\ Ends(s) /\ Keep
  /\ IF fsm.flow \in {"none", "ann"} THEN Clear ELSE UNCHANGED <<fsm, data>>

-----------------------------------------------------------------------------
(* Ends of every wizard, and the world.                                    *)

\* Cancel, /cancel: no await before the clear.
CancelCallback ==
  /\ fsm.flow # "none" /\ Clear
  /\ Overlap
  /\ UNCHANGED <<tasks, wizNo, done, cooling, relayOn>>

\* A session untouched for half an hour is dropped.
ExpireStale ==
  /\ fsm # NoState /\ ~Busy /\ Clear
  /\ UNCHANGED <<tasks, wizNo, done, cooling, relayOn, races>>

\* The relay is switched off.
RelayGoes ==
  /\ relayOn /\ relayOn' = FALSE
  /\ UNCHANGED <<fsm, data, tasks, wizNo, done, cooling, races>>

DialogsInit ==
  /\ fsm = NoState /\ data = NoData /\ tasks = [s \in Slots |-> NoTask]
  /\ wizNo = 0 /\ done = <<>> /\ cooling = {} /\ relayOn = (Flows \cap {"own", "admin"} # {}) /\ races = 0

OwnTaps(s) ==
  \/ \E k \in Kinds : Tap(s, "own", "choose", {}, k)
  \/ Tap(s, "own", "xhttp", {}, "none") \/ Tap(s, "own", "bundle", {}, "none")
  \/ \E h \in {"profile", "bundlekind", "note", "fp", "mtu", "mtucustom", "days", "dayscustom", "confirm"} :
       Tap(s, "own", h, {h}, "none")
  \/ \E through \in BOOLEAN : Tap(s, "own", "route", {"route"}, through)
  \/ Tap(s, "own", "mtuask", {"mtu"}, "none") \/ Tap(s, "own", "daysask", {"days"}, "none")

AdminTaps(s) ==
  \/ \E c \in Clients : \/ Tap(s, "admin", "issue", {}, c)
                        \/ Tap(s, "admin", "vless", {"type", "profile"}, c)
                        \/ Tap(s, "admin", "profile", {"profile"}, c)
                        \/ \E k \in Kinds \cup {"xhttp"} : Tap(s, "admin", "type", {"type"}, <<k, c>>)
                        \/ \E through \in BOOLEAN : Tap(s, "admin", "route", {"route"}, <<through, c>>)
  \/ \E h \in {"note", "fp", "mtu", "mtucustom", "days", "dayscustom", "confirm"} :
       Tap(s, "admin", h, {h}, "none")
  \/ Tap(s, "admin", "mtuask", {"mtu"}, "none") \/ Tap(s, "admin", "daysask", {"days"}, "none")

EditTaps(s) ==
  \/ \E h \in {"keynote", "bundlenote", "keyfp", "bundlefp", "usernote"} : Tap(s, "edit", h, {}, "none")
  \/ Tap(s, "edit", "newnote", {"newnote"}, "none")
  \/ Tap(s, "edit", "savenote", {"savenote"}, "none")
  \/ Tap(s, "edit", "setfp", {"fp"}, "none")
  \/ Tap(s, "edit", "usernoteinput", {"usernote"}, "none")

ProxyTaps(s) ==
  \/ Tap(s, "proxy", "proxy", {}, "none")
  \/ \E n \in 1..wizNo : Tap(s, "proxy", "proxyconfirm", {}, n)

AnnTaps(s) ==
  \/ Tap(s, "ann", "announce", {}, "none") \/ Tap(s, "ann", "cancelann", {}, "none")
  \/ \E v \in {"all", "user"} : Tap(s, "ann", "role", {"roles"}, v)
  \/ \E v \in {"all", "xray", "awg"} : Tap(s, "ann", "proto", {"protos"}, v)
  \/ \E v \in {"all", "tcp"} : Tap(s, "ann", "tr", {"trs"}, v)
  \/ Tap(s, "ann", "rolesdone", {"roles"}, "none") \/ Tap(s, "ann", "backroles", {"protos"}, "none")
  \/ Tap(s, "ann", "protosdone", {"protos"}, "none") \/ Tap(s, "ann", "backprotos", {"trs"}, "none")
  \/ Tap(s, "ann", "trsdone", {"trs"}, "none") \/ Tap(s, "ann", "message", {"message"}, "none")
  \/ Tap(s, "ann", "send", {"send"}, "none") \/ Tap(s, "ann", "schedulerequest", {"send"}, "none")
  \/ Tap(s, "ann", "schedule", {"schedule"}, "none")

OwnSteps(s) ==
  \/ CreateKeyChoose(s) \/ CreateKeyChooseXhttp(s) \/ CreateKeyXhttpProfile(s)
  \/ CreateKeyBundle(s) \/ CreateKeyBundleKind(s) \/ CreateKeyRoute(s) \/ CreateKeyNote(s)
  \/ CreateKeyFp(s) \/ CreateKeyMtu(s) \/ CreateKeyMtuAsk(s) \/ CreateKeyMtuCustom(s)
  \/ CreateKeyDaysAsk(s) \/ CreateKeyExpiry(s) \/ CreateKeyCustomDays(s) \/ CreateKeyConfirm(s)

AdminSteps(s) ==
  \/ AdminIssueUserSelected(s) \/ AdminIssueVless(s) \/ AdminIssueType(s) \/ AdminIssueProfile(s)
  \/ AdminIssueRoute(s) \/ AdminIssueNote(s) \/ AdminIssueFp(s) \/ AdminIssueMtu(s)
  \/ AdminIssueMtuAsk(s) \/ AdminIssueMtuCustom(s) \/ AdminIssueDaysAsk(s)
  \/ AdminIssueExpiry(s) \/ AdminIssueCustomDays(s) \/ AdminIssueConfirm(s)

EditSteps(s) ==
  \/ EditNotePrompt(s) \/ EditBundleNotePrompt(s) \/ EditFpPrompt(s) \/ ChangeBundleFpPrompt(s)
  \/ EditNoteWaiting(s) \/ EditNoteConfirm(s) \/ EditFpSelect(s)
  \/ AdminEditUserNote(s) \/ AdminEditUserNoteInput(s)

AnnSteps(s) ==
  \/ AdminAnnouncementStart(s) \/ ToggleRole(s) \/ RolesDone(s) \/ BackToRoles(s)
  \/ ToggleProtocol(s) \/ ProtocolsDone(s) \/ BackToProtocols(s) \/ ToggleTransport(s)
  \/ TransportsDone(s) \/ AnnouncementMessage(s) \/ AnnouncementSend(s)
  \/ AnnouncementScheduleRequest(s) \/ AnnouncementScheduleTime(s) \/ AnnouncementCancel(s)

DialogsNext ==
  \/ \E s \in Slots : \/ OwnTaps(s) \/ AdminTaps(s) \/ EditTaps(s) \/ ProxyTaps(s) \/ AnnTaps(s)
                      \/ OwnSteps(s) \/ AdminSteps(s) \/ EditSteps(s) \/ AnnSteps(s)
                      \/ ProxyGetPrompt(s) \/ ProxyConfirm(s) \/ Denied(s)
  \/ ProxyCancel \/ CancelCallback \/ ExpireStale \/ RelayGoes \/ Tick

DialogsSpec == DialogsInit /\ [][DialogsNext]_dialogVars

-----------------------------------------------------------------------------
DialogsTypeOK ==
  /\ wizNo \in 0..MaxWizards /\ races \in 0..MaxRaces /\ relayOn \in BOOLEAN
  /\ \A f \in {"wiz", "relay", "fp", "mtu", "note", "days", "key", "bundle", "user", "nonce", "msg"} :
       data[f] \in 0..MaxWizards
  /\ Len(done) <= MaxDone

\* However often the confirm button of a wizard is tapped, and whatever else the
\* chat does meanwhile, the wizard issues one key, one proxy access, sends one
\* announcement ("don't issue a second key", admin_issue_confirm).  Number 0 is
\* no wizard: it is what a late answer stores after its wizard was ended.
OncePerWizard ==
  \A i, j \in DOMAIN done :
    done[i].what \in {"key", "proxy", "announcement"} /\ done[j].what = done[i].what
      /\ done[j].wiz = done[i].wiz /\ done[i].wiz # 0 => i = j

OwnChoicesOnly == \A i \in DOMAIN done : done[i].used \subseteq {0, done[i].wiz}

\* A transport is part of the audience only together with VLESS.
TransportNeedsVless ==
  fsm \in {At("ann", "message"), At("ann", "send"), At("ann", "schedule")} /\ data.trs # {}
    => "xray" \in data.protos

\* While the chat answers one update at a time, no choice of an abandoned wizard
\* or of an earlier step that was changed ends up in what is issued or sent, and
\* an edit hits the entity its own prompt named (the resets of
\* _prompt_route_or_note, edit_note_prompt, edit_fp_prompt,
\* admin_announcement_protocols_done).
NoLeftovers == races = 0 => OwnChoicesOnly /\ TransportNeedsVless
=============================================================================
