------------------------------- MODULE AwgConfig -------------------------------
(***************************************************************************)
(* The AmneziaWG configuration adapter (adapters/awg_config.py) and the    *)
(* root helper behind it (deploy/helpers/vpn-bot-awg-apply): the interface *)
(* file, the backup of an edit under way, and the peers of the running     *)
(* interface.  An edit writes the file and then changes the interface.     *)
(***************************************************************************)
EXTENDS Naturals

CONSTANTS
    Keys,     \* key ids that may ever be issued; also the peers of these keys
    Foreign,  \* peers the operator made by hand
    NoPeer,   \* the file has no peer
    Helpers   \* deployments: TRUE with the root helper, FALSE with the bot applying the file itself

ASSUME AwgConfigAssumption ==
    /\ Keys \cap Foreign = {}
    /\ NoPeer \notin Keys \cup Foreign
    /\ Helpers \subseteq BOOLEAN

VARIABLES
    helper, \* is the file applied by the root helper? (fixed by the deployment)
    conf,   \* the interface file
    saved,  \* the file that a failing edit puts back
    live,   \* the peers of the running interface
    past    \* history: the peers that some edit has put in the file

configVars == <<helper, conf, saved, live, past>>

Peers == Keys \cup Foreign

\* A file is its peers and which of them comes first.
Files == [peers : SUBSET Peers, head : Peers \cup {NoPeer}]

NoPeers == [peers |-> {}, head |-> NoPeer]

ConfigOK ==
    helper \in Helpers /\ conf \in Files /\ saved \in Files /\ live \in SUBSET Peers /\ past \in SUBSET Keys

ConfigInit == helper \in Helpers /\ conf = NoPeers /\ saved = NoPeers /\ live = {} /\ past = {}

-----------------------------------------------------------------------------
(* Reading and editing the file.                                           *)

\* A new peer block goes to the end.
With(f, p) ==
    [peers |-> f.peers \cup {p}, head |-> IF f.peers = {} THEN p ELSE f.head]

\* The files that f without p may be: the order of the rest is not kept.
Without(f, p) ==
    LET rest == f.peers \ {p}
    IN  {[peers |-> rest, head |-> h] :
            h \in IF f.head \in rest THEN {f.head} ELSE IF rest = {} THEN {NoPeer} ELSE rest}

\* The peer whose marker _parse_peer_blocks reads: the lines of a peer reach up to the
\* next section, so the marker of every later peer is taken for a line of the one before.
Marked(f) == f.head

\* The file is validated, backed up and replaced by f.
WriteConf(f) ==
    conf' = f /\ saved' = conf /\ live' = live /\ past' = past \cup (f.peers \cap Keys)

-----------------------------------------------------------------------------
(* The running interface.                                                  *)

\* awg set, or the helper's syncconf, has done what was asked.
AddedPeer(p) == IF helper THEN conf.peers ELSE live \cup {p}
RemovedPeer(p) == IF helper THEN conf.peers ELSE live \ {p}

ApplyAdd(p) == live' = AddedPeer(p) /\ saved' = conf /\ UNCHANGED <<conf, past>>
ApplyRemove(p) == live' = RemovedPeer(p) /\ saved' = conf /\ UNCHANGED <<conf, past>>

\* A failing edit puts the older file back, unless that fails as well.
Restored == conf' \in {saved, conf} /\ saved' = conf' /\ past' = past

\* The helper fails: it syncs the file it put back.  It may have applied the new file
\* and be reported late.
HelperFails ==
    /\ Restored
    /\ live' \in {live, conf.peers} \cup IF conf' = saved THEN {saved.peers} ELSE {}

\* awg set fails, or is only reported to: the peer is taken out again, unless that fails.
AddFails(p) ==
    \/ helper /\ HelperFails
    \/ ~helper /\ Restored /\ live' \in {live, live \cup {p}, live \ {p}}

\* The peer could not be removed, or could not be verified to be: then the interface is
\* synced from the file, unless that fails.
RemoveFails(p) ==
    \/ helper /\ HelperFails
    \/ ~helper /\ Restored /\ live' \in {live, live \ {p}, conf'.peers}

\* sync_runtime_from_config
SyncOk == live' = conf.peers /\ UNCHANGED <<conf, saved, past>>
=============================================================================
