--------------------------- MODULE MCJobProcessor ---------------------------
(* Two workers and a queue that three jobs can fill. *)
EXTENDS JobProcessor

CONSTANTS j1, j2, j3, w1, w2

MCJobs == {j1, j2, j3}
MCWorkers == {w1, w2}
=============================================================================
