------------------------------ MODULE XrayConfig ------------------------------
(***************************************************************************)
(* The Xray configuration adapter (adapters/xray_config.py): config.json   *)
(* on disk, the client table of the running Xray process, and the backup   *)
(* an edit takes before it replaces the file.                              *)
(*                                                                         *)
(* An edit is two steps.  The first tests the candidate and replaces the   *)
(* file; the second makes the running process follow and, if that fails,   *)
(* puts the backup back.  The process can die between the two, and the     *)
(* running Xray is a separate process that survives it.                    *)
(*                                                                         *)
(* A client stands for its UUID and email label.  The attributes a key     *)
(* gets when it is created and never changes (its inbound, its REALITY     *)
(* short id) are constants of the key.                                     *)
(***************************************************************************)
EXTENDS FiniteSets

CONSTANTS
    Keys,           \* ids of the keys the bot may ever issue
    Foreign,        \* hand-added clients whose label is not one of the bot's
    ShortIds,       \* REALITY short ids the bot may manage
    NoSid,          \* the key has no managed short id
    Transport,      \* Transport[k]: the inbound of key k
    Sid,            \* Sid[k]: the managed short id of key k, or NoSid
    ApplyMode,      \* XRAY_APPLY_MODE
    ReloadRebuilds  \* does a systemd reload rebuild the unit's client table?

Inbounds == {"tcp", "http"}
Clients == Keys \cup Foreign

ASSUME ConfigAssumption ==
    /\ Keys \cap Foreign = {}
    /\ NoSid \notin ShortIds
    /\ Transport \in [Keys -> Inbounds]
    /\ Sid \in [Keys -> ShortIds \cup {NoSid}]
    \* http keys ride the REALITY settings of vless-in: no short id of their own
    /\ \A k \in Keys : Transport[k] = "http" => Sid[k] = NoSid
    /\ ApplyMode \in {"reload", "restart", "api"}
    /\ ReloadRebuilds \in BOOLEAN

VARIABLES
    conf,   \* conf[i]: the clients of inbound i in config.json
    sids,   \* the managed short ids of vless-in in config.json
    live,   \* live[i]: the clients inbound i of the running Xray serves
    saved   \* the backup of the edit in flight; equals the file otherwise

configVars == <<conf, sids, live, saved>>

ClientTables == [Inbounds -> SUBSET Clients]

ConfigTypeOK ==
    /\ conf \in ClientTables
    /\ sids \in SUBSET ShortIds
    /\ live \in ClientTables
    /\ saved \in [conf : ClientTables, sids : SUBSET ShortIds]

-----------------------------------------------------------------------------
(* The first step of an edit: backup, xray -test, os.replace.              *)

Replace(c, s) ==
    /\ saved' = [conf |-> conf, sids |-> sids]
    /\ conf' = c
    /\ sids' = s
    /\ live' = live

ManagedSid(k) == {Sid[k]} \ {NoSid}

InConf(k) == k \in conf[Transport[k]]

\* add_client; the caller has excluded XrayClientAlreadyExistsError
AddClient(k) ==
    /\ ~InConf(k)
    /\ Replace([conf EXCEPT ![Transport[k]] = @ \cup {k}], sids \cup ManagedSid(k))

\* Would remove_client rewrite the file, or return without touching anything?
RemovalChanges(c, i, dropped) == c \in conf[i] \/ dropped \cap sids # {}

RemoveClient(c, i, dropped) ==
    /\ RemovalChanges(c, i, dropped)
    /\ Replace([conf EXCEPT ![i] = @ \ {c}], sids \ dropped)

EnsureShortId(k) ==
    /\ ~(ManagedSid(k) \subseteq sids)
    /\ Replace(conf, sids \cup ManagedSid(k))

-----------------------------------------------------------------------------
(* The second step: reload, restart, or rmi + adi of the edited inbound.   *)

Down == [i \in Inbounds |-> {}]

\* api mode rebuilds one inbound, and only when the short ids did not change
ViaApi == ApplyMode = "api" /\ sids = saved.sids

Applied(i) ==
    CASE ViaApi -> [live EXCEPT ![i] = conf[i]]
      [] ~ViaApi /\ (ApplyMode = "restart" \/ ReloadRebuilds) -> conf
      [] OTHER -> live

ApplyOk(i) ==
    /\ live' = Applied(i)
    /\ saved' = [conf |-> conf, sids |-> sids]
    /\ UNCHANGED <<conf, sids>>

\* What may be running once an apply has been reported failed: the command can
\* fail before or after it took effect, and so can the rollback.
Disturbed(i) ==
    IF ViaApi
    THEN {[live EXCEPT ![i] = x] : x \in {live[i], {}, conf[i], saved.conf[i]}}
            \cup {saved.conf, Down}
    ELSE {live, conf, saved.conf, Down}

\* The backup is restored, unless restoring it raises as well.
ApplyFailed(i) ==
    /\ live' \in Disturbed(i)
    /\ \/ /\ conf' = saved.conf
          /\ sids' = saved.sids
          /\ saved' = saved
       \/ /\ saved' = [conf |-> conf, sids |-> sids]
          /\ UNCHANGED <<conf, sids>>
=============================================================================
