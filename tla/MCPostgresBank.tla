--------------------------- MODULE MCPostgresBank ---------------------------
(* Three clients, an account that covers one or two of their charges, one  *)
(* that covers the smallest only, a customer without an account, and an    *)
(* amount that makes no sense.                                             *)
EXTENDS PostgresBank

CONSTANTS k1, k2, k3

MCClients == {k1, k2, k3}
MCAccounts == {"cus_1", "cus_2"}
MCStrangers == {"cus_9"}
MCAmounts == {-1, 1, 2}
MCOpening == [cus_1 |-> 3, cus_2 |-> 1]
=============================================================================
