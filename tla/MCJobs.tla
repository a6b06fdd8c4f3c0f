-------------------------------- MODULE MCJobs --------------------------------
(***************************************************************************)
(* Small instances of what runs by itself and has to get somewhere: the    *)
(* WARP tunnel and its monitor, the expiry job, and the schema migrations  *)
(* of a start.  They share no state here, so each behaviour runs one of    *)
(* them and the others stay as they began.                                 *)
(***************************************************************************)
EXTENDS WarpTunnel, KeyExpiry, Migrations

VARIABLE part

mcExpires == [k \in EKeys |-> 2]

jobsVars == <<part, tunnelVars, expiryVars, migrationVars>>

\* A step of one part
OfTunnel(A) == part = "tunnel" /\ A /\ UNCHANGED <<part, expiryVars, migrationVars>>
OfExpiry(A) == part = "expiry" /\ A /\ UNCHANGED <<part, tunnelVars, migrationVars>>
OfMigrations(A) == part = "migrations" /\ A /\ UNCHANGED <<part, tunnelVars, expiryVars>>

JobsInit ==
    /\ part \in {"tunnel", "expiry", "migrations"}
    /\ TunnelInit /\ ExpiryInit /\ MigrationsInit
    /\ part # "tunnel" => ~observer /\ \A s \in DOMAIN settings : ~settings[s]
    /\ part # "migrations" => legacy = CHOOSE v \in FirstVersions : TRUE
    /\ part # "migrations" => trouble = {}

JobsNext == OfTunnel(TunnelNext) \/ OfExpiry(ExpiryNext) \/ OfMigrations(MigrationsNext)

\* The fairness of TunnelSpec and ExpirySpec, of the part that runs
JobsFairness ==
    /\ SF_jobsVars(OfTunnel(StopLock)) /\ WF_jobsVars(OfTunnel(OpStep)) /\ WF_jobsVars(OfTunnel(MonStep))
    /\ WF_jobsVars(OfExpiry(JobStep)) /\ SF_jobsVars(OfExpiry(NextDay))

JobsSpec == JobsInit /\ [][JobsNext]_jobsVars /\ JobsFairness
===============================================================================
