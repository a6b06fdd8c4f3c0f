-------------------------------- MODULE MCHost --------------------------------
(***************************************************************************)
(* Small instances of what the bot does by itself on its host: traffic     *)
(* statistics, anomaly detection, backups, split-routing feeds, the status *)
(* panel, start and shutdown.  They share no state here, so each behaviour *)
(* runs one of them and the others stay as they began.                     *)
(***************************************************************************)
EXTENDS Traffic, Anomaly, Backups, WarpFeeds, HostStatus, Lifecycle

VARIABLE part

mcBackend == [k \in {"x", "a"} |-> IF k = "x" THEN "xray" ELSE "awg"]
mcProtocol == [k \in {"x", "y", "w", "h"} |->
                  IF k \in {"x", "y"} THEN "xray" ELSE IF k = "w" THEN "awg" ELSE "hysteria2"]
mcParent == [k \in {"x", "y", "w", "h"} |-> IF k \in {"x", "y"} THEN "b" ELSE NoParent]
mcSources == <<"cert", "unit", "cert", "log", "hostkey">>
mcPublish == {{"a", "b"}, {"a"}}
mcFirstFile == [space |-> {"a"}, cut |-> "raw"]
mcLoops == <<"awg-stats", "hysteria-health">>

hostAll == <<part, trafficVars, anomalyVars, backupVars, warpVars, statusVars, lifeVars>>

HostInit ==
    /\ part \in {"traffic", "anomaly", "backups", "feeds", "status", "life"}
    /\ TrafficInit /\ AnomalyInit /\ BackupsInit /\ WarpInit /\ StatusInit /\ LifeInit
    /\ part # "feeds" => mode = "review"
    /\ part # "status" => ~detailedRow

HostNext ==
    \/ part = "traffic" /\ TrafficNext
       /\ UNCHANGED <<part, anomalyVars, backupVars, warpVars, statusVars, lifeVars>>
    \/ part = "anomaly" /\ AnomalyNext
       /\ UNCHANGED <<part, trafficVars, backupVars, warpVars, statusVars, lifeVars>>
    \/ part = "backups" /\ BackupsNext
       /\ UNCHANGED <<part, trafficVars, anomalyVars, warpVars, statusVars, lifeVars>>
    \/ part = "feeds" /\ WarpNext
       /\ UNCHANGED <<part, trafficVars, anomalyVars, backupVars, statusVars, lifeVars>>
    \/ part = "status" /\ StatusNext
       /\ UNCHANGED <<part, trafficVars, anomalyVars, backupVars, warpVars, lifeVars>>
    \/ part = "life" /\ LifeNext
       /\ UNCHANGED <<part, trafficVars, anomalyVars, backupVars, warpVars, statusVars>>

\* Mishaps and changes are bounded together as well as each by its own constant.
FewAtOnce ==
    /\ restarts + statFaults <= 1
    /\ faultsLeft + crashesLeft + changesLeft + manualLeft >= 2
    /\ cycles + edits + crashes <= 3

HostSpec == HostInit /\ [][HostNext]_hostAll
===============================================================================
