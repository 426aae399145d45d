------------------------------- MODULE MCCache -------------------------------
(* A small instance of MetricsCache.                                       *)
EXTENDS MetricsCache
=============================================================================
