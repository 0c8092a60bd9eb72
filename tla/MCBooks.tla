------------------------------- MODULE MCBooks -------------------------------
(* The ledger has two callers, two currencies and three-bit amounts, so     *)
(* that sums wrap at 4; its slips are one of each kind Post tells apart,    *)
(* and one that balances only because its sum wraps.  Containers have a     *)
(* capacity of 0 (which becomes 1), 2 or 3; heaps hold up to five elements, *)
(* two kinds of which are of equal priority.                                *)
EXTENDS MCPostgresBank, Books, TLC

CONSTANTS c1, c2

MCCallers == {c1, c2}
MCPostings == {-4, 2}
MCLine(account, n, currency) ==
    [account |-> account, amount |-> [amount |-> n, currency |-> currency]]

(* The empty strings are the ledger's NoAccount and NoCurrency. *)
MCSlips == {
    <<MCLine("cash", 3, "USD"), MCLine("revenue", 3, "USD"), MCLine("cash", 2, "USD")>>,
    <<MCLine("cash", 1, "EUR"), MCLine("revenue", -1, "USD")>>,
    <<MCLine("cash", 1, "USD"), MCLine("revenue", 1, "USD")>>,
    <<MCLine("cash", 0, "USD"), MCLine("", 0, "USD")>>,
    <<MCLine("cash", 0, "USD"), MCLine("revenue", 0, "")>>,
    <<MCLine("cash", 0, ""), MCLine("revenue", 0, "USD")>>,
    <<MCLine("cash", 0, "USD")>>}

MCValues == 1 .. 4
MCKeys == 5 .. 7
MCImage == <<3, 2, 1, 4>>
MCPriority == <<1, 2, 2, 3>>

(* Clients of the bank are interchangeable, and so are the ledger's callers. *)
Symmetry == Permutations(MCClients) \cup Permutations(MCCallers)
=============================================================================
