-------------------------- MODULE MCOrderConsumer --------------------------
(* Two processes, two partitions; key "k" is delivered on both partitions, *)
(* and one record is malformed.                                            *)
EXTENDS OrderConsumer

MCProcs == {"a", "b"}
MCPartitions == {"p1", "p2"}
MCLog == [p \in MCPartitions |-> IF p = "p1" THEN <<"k", Bad>> ELSE <<"k">>]
MCAssigned == [p \in MCPartitions |-> IF p = "p1" THEN "a" ELSE "b"]
MCFaults == FaultKinds
MCLossFaults == {"crash"}
=============================================================================
