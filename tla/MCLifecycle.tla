---------------------------- MODULE MCLifecycle ----------------------------
(* Small instances of CheckpointLifecycle.                                 *)
EXTENDS CheckpointLifecycle

CONSTANTS bare, web, db, loop, rest

AllBare       == [w \in Workload |-> "None"]
AllDeployment == [w \in Workload |-> "Deployment"]
ByKind        == [w \in Workload |->
                    CASE w = bare -> "None"
                      [] w = web  -> "Deployment"
                      [] w = db   -> "StatefulSet"]
=============================================================================
