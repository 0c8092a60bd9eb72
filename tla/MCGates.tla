------------------------------- MODULE MCGates -------------------------------
(* The two callers of MCResilience ask the limiter for one identity, or one *)
(* of them for two; a bucket refills just within the TTL, late marks and    *)
(* readings included.                                                       *)
EXTENDS MCResilience, Gates

CONSTANTS i1, i2

MCIds == {i1, i2}
MCBoxes == 1 .. 4
MCWorkloads == {[c \in MCCallers |-> {i1}],
                [c \in MCCallers |-> IF c = c1 THEN MCIds ELSE {}]}
=============================================================================
