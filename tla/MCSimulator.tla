----------------------------- MODULE MCSimulator -----------------------------
EXTENDS SimulatorLifecycle

CONSTANTS job, jobCopy, db, dbPod, dbCopy

MCOwner == [x \in Pod |-> IF x = dbPod THEN db ELSE NoOwner]
MCRestoredName == [k \in {job, db} |-> IF k = job THEN jobCopy ELSE dbCopy]
MCDependsOn == [x \in Pod |-> IF x = job THEN <<db>> ELSE <<>>]
=============================================================================
