----------------------------- MODULE MCScheduler -----------------------------
(* Small instances of AdaptiveScheduler.                                    *)
EXTENDS AdaptiveScheduler

CONSTANTS solo, r1, r2, app, disk, flash

MCOwner == [x \in Name |-> IF x = solo THEN NoOwner ELSE app]

(* The init container of the standalone pod keeps it from a node with a    *)
(* replica on it, which may come beside the pod once that is bound.        *)
One == [cpu |-> 1, mem |-> 1]
MCContainers == [x \in Name |-> IF x = solo THEN <<[cpu |-> 1, mem |-> 2]>> ELSE <<One, One>>]
MCInitContainers == [x \in Name |-> IF x = solo THEN <<[cpu |-> 1, mem |-> 3]>> ELSE <<>>]
MCSelector == [x \in Name |-> IF x = solo THEN {"ssd"} ELSE {}]
MCLabels == [n \in Node |-> IF n = flash THEN {"ssd"} ELSE {}]
MCAllocatable == [n \in Node |-> [cpu |-> 4, mem |-> 4]]

(* A node with room and one that is in use to the last.                    *)
MCTelemetry ==
  {[ready |-> TRUE, pressure |-> {}, used |-> [cpu |-> 0, mem |-> 0]],
   [ready |-> TRUE, pressure |-> {}, used |-> [cpu |-> 4, mem |-> 4]]}
=============================================================================
