---------------------------- MODULE MCConcurrency ----------------------------
(* Three jobs each, and the same two workers. *)
EXTENDS MCJobProcessor, Concurrency
=============================================================================
