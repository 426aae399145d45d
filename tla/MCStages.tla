------------------------------ MODULE MCStages ------------------------------
(* Small instances of RestorationStages.                                   *)
EXTENDS RestorationStages

CONSTANTS api, cache, store
=============================================================================
