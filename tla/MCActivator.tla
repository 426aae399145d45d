---------------------------- MODULE MCActivator ----------------------------
(* Small instances of Activator.                                           *)
EXTENDS Activator

CONSTANTS api, cache, r1, r2, r3

NoDependencies == [s \in Service |-> {}]
ApiNeedsCache  == [s \in Service |-> IF s = api THEN {cache} ELSE {}]
AllForApi   == [q \in Request |-> api]
OneForCache == [q \in Request |-> IF q = r3 THEN cache ELSE api]
=============================================================================
