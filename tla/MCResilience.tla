---------------------------- MODULE MCResilience ----------------------------
(* Two callers, of which one fits into the bulkhead. *)
EXTENDS Resilience

CONSTANTS c1, c2

MCCallers == {c1, c2}
MCBudgets == {NoDeadline, 3}
MCRetryable == {"error", "ErrCircuitOpen"}
=============================================================================
