------------------------------ MODULE MCBroker ------------------------------
(* Two consumers serve two queues; the publishers choose distinct IDs or   *)
(* the same one.  One message has been tried before, and every attempt     *)
(* fails for a reason of its own.                                          *)
EXTENDS Broker, TLC

CONSTANTS orders, bulk, c1, c2, m1, m2

MCQueues == {orders, bulk}
MCConsumers == {c1, c2}
MCMessages == {m1, m2}
MCIdChoices == {[m \in MCMessages |-> m], [m \in MCMessages |-> m1]}
MCFirstAttempts == [m \in MCMessages |-> IF m = m1 THEN {0} ELSE {2}]
MCCauses == [n \in 1 .. 3 |-> {<<"timeout", "refused", "gone">>[n]}]
=============================================================================
