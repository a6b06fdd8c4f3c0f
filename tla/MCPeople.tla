------------------------------- MODULE MCPeople -------------------------------
(***************************************************************************)
(* Small instances of what admins and users do in the chat: requests and   *)
(* trials, dialogs, relays, announcements, maintenance mode.  They share   *)
(* no state here, so each behaviour runs one of them and the others stay   *)
(* as they began.                                                          *)
(***************************************************************************)
EXTENDS AccessRequests, Dialogs, Relays, Announcements, Maintenance, TLC

VARIABLE part

Sym == Permutations(Slots)

peopleVars == <<part, askVars, dialogVars, relayVars, annVars, mtVars>>

PeopleInit ==
    /\ part \in {"requests", "dialogs", "relays", "announcements", "maintenance"}
    /\ AskInit /\ DialogsInit /\ RelaysInit /\ AnnInit /\ MtInit
    /\ part # "relays" => table = CHOOSE t \in Seeded : TRUE
    /\ part # "announcements" => batch = "pending"
    /\ part # "maintenance" => ~mrow.enabled

PeopleNext ==
    \/ part = "requests" /\ AskNext /\ UNCHANGED <<part, dialogVars, relayVars, annVars, mtVars>>
    \/ part = "dialogs" /\ DialogsNext /\ UNCHANGED <<part, askVars, relayVars, annVars, mtVars>>
    \/ part = "relays" /\ RelaysNext /\ UNCHANGED <<part, askVars, dialogVars, annVars, mtVars>>
    \/ part = "announcements" /\ AnnNext /\ UNCHANGED <<part, askVars, dialogVars, relayVars, mtVars>>
    \/ part = "maintenance" /\ MtNext /\ UNCHANGED <<part, askVars, dialogVars, relayVars, annVars>>

\* Of the failures, crashes, changes and races that one part bounds, few happen together.
FewAtOnce ==
    /\ askFaults + askCrashes <= 1
    /\ races = 0 \/ relayOn
    /\ mtFaults + mtCrashes + readerChanges <= 2

PeopleSpec == PeopleInit /\ [][PeopleNext]_peopleVars
===============================================================================
