---------------------------- MODULE BankContract ----------------------------
(***************************************************************************)
(* What a PaymentStore promises (13-databases/examples/bank/bank.go, lines *)
(* 40-55): Charge debits the account and records the payment in one step,  *)
(* or changes nothing.  FakeStore of fake.go does this under a mutex.      *)
(***************************************************************************)
EXTENDS Integers

CONSTANTS Accounts, Opening

VARIABLES
    balance,    \* account -> balance in minor units
    recorded    \* the payments recorded: [id, customer, amount]

BankInit ==
    /\ balance = Opening
    /\ recorded = {}

(* Charge succeeds: the balance covers the amount, and the payment gets an *)
(* id of its own.  That the amount is positive is the CHECK of the table   *)
(* payments (postgres.go line 57); FakeStore has no such check.            *)
ChargeOnce(p) ==
    /\ p.amount > 0
    /\ balance[p.customer] >= p.amount
    /\ balance' = [balance EXCEPT ![p.customer] = @ - p.amount]
    /\ \A q \in recorded : q.id # p.id
    /\ recorded' = recorded \cup {p}

(* One charge per step: the payment that is new. *)
BankNext == \E p \in recorded' \ recorded : ChargeOnce(p)

(* What a caller of the store can see. *)
bankVars == <<balance, recorded>>

BankSpec == BankInit /\ [][BankNext]_bankVars
=============================================================================
