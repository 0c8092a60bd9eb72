----------------------------- MODULE MCTraffic -----------------------------
(* The instances of MCConcurrency and of MCGates. *)
EXTENDS MCConcurrency, MCGates, Traffic
=============================================================================
