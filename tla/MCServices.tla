----------------------------- MODULE MCServices -----------------------------
(* The instances of MCOrderConsumer and of MCServers. *)
EXTENDS MCServers, MCOrderConsumer, Services
=============================================================================
