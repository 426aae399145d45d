------------------------------ MODULE MCReclaim ------------------------------
(* Values for the model checker.  Memory is counted in MiB.                *)
EXTENDS ReclaimLoop

CONSTANT p

Usage(cpu, mem, net, qps) == [cpu |-> cpu, mem |-> mem, net |-> net, qps |-> qps]

IdleLoad == Usage(2, 64, 0, 0)
BatchLoad == Usage(900, 800, 0, 0)       \* computes without any traffic
MCLoad == {IdleLoad, BatchLoad}
MCRequests == [cpu |-> 1000, mem |-> 1024]

(* The only replica of a Deployment that may go, checkpointed or (after a  *)
(* change of its annotations) only made smaller, and a replica of a        *)
(* StatefulSet, which is never checkpointed.                               *)
Stateful == [protected |-> FALSE, critical |-> FALSE, priority |-> 0, disruptions |-> -1,
             available |-> 2, optIn |-> FALSE, phase |-> "Running",
             owner |-> "StatefulSet", checkpointable |-> "absent"]
Single == [Stateful EXCEPT !.owner = "Deployment", !.available = 1, !.optIn = TRUE]
Kept == [Single EXCEPT !.checkpointable = "false"]
MCTraits == {Single, Kept, Stateful}

MCAnswers == {Queries, Queries \ {"cpu"}, {}}
MCOutages == {Queries, {}}
=============================================================================
