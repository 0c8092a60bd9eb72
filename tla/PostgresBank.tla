---------------------------- MODULE PostgresBank ----------------------------
(***************************************************************************)
(* The Postgres payment store of 13-databases/examples/bank/postgres.go:   *)
(* concurrent Charge calls, each a transaction of two statements inside    *)
(* withinTx, on one accounts and one payments table.                       *)
(*                                                                         *)
(* Outside the repository, and modelled from the SQL: Postgres at its      *)
(* default isolation level READ COMMITTED.  An UPDATE skips a row whose    *)
(* committed version fails the predicate, waits for a row another          *)
(* transaction has updated, and evaluates the predicate again when it gets *)
(* it; the row stays locked to the end of the transaction.  bigserial ids  *)
(* are handed out at once and never taken back, and created_at is the time *)
(* the transaction began.                                                  *)
(***************************************************************************)
EXTENDS Integers, FiniteSetsExt

CONSTANTS
    Clients,     \* goroutines that call Charge
    Accounts,    \* customers that have an account
    Strangers,   \* customers without one
    Amounts,     \* amounts callers ask for; Charge does not check them
    Opening,     \* account -> its balance at the start
    MaxCharges   \* bound: transactions begun

Nobody == "nobody"

ASSUME BankConstants ==
    /\ Nobody \notin Clients
    /\ Accounts \cap Strangers = {}
    /\ Amounts \subseteq Int
    /\ Opening \in [Accounts -> Nat]
    /\ MaxCharges \in Nat

VARIABLES
    balance,     \* accounts table, committed: customer -> balance_minor
    payments,    \* payments table, committed: [id, customer, amount, created_at]
    sequence,    \* payments_id_seq: the last id handed out
    locked,      \* customer -> the client whose transaction updated the row, or Nobody
    tx,          \* client -> its transaction, see Transaction, or Idle
    result,      \* client -> what its last Charge returned
    now,         \* the database's clock
    begun,       \* how many transactions have begun
    returned     \* history: ids Charge has returned to a caller

vars == <<balance, payments, sequence, locked, tx, result, now, begun,
          returned>>
tables == <<balance, payments>>
clock == <<now, begun>>

Idle == [place |-> "none"]

(* place is the statement the transaction is about to run; id is what the  *)
(* insert got, 0 before; seen are the ids returned before it began.        *)
Transaction ==
    [place : {"update", "insert", "commit"}, customer : Accounts \cup Strangers,
     amount : Amounts, created_at : Nat, id : Nat, seen : SUBSET Nat]
Results == {"nothing", "charged", "ErrInsufficientFunds", "error"}

-----------------------------------------------------------------------------
(* Schema and seeded accounts; nobody is in Charge. *)
Init ==
    /\ balance = Opening
    /\ payments = {}
    /\ sequence = 0
    /\ locked = [c \in Accounts |-> Nobody]
    /\ tx = [k \in Clients |-> Idle]
    /\ result = [k \in Clients |-> "nothing"]
    /\ now = 0
    /\ begun = 0
    /\ returned = {}

At(k, place) == tx[k].place = place

(* BeginTx; the clock may or may not have moved since the last one. *)
Begin(k, c, amount) ==
    /\ At(k, "none")
    /\ begun < MaxCharges
    /\ begun' = begun + 1
    /\ now' \in {now, now + 1}
    /\ tx' = [tx EXCEPT ![k] =
                [place |-> "update", customer |-> c, amount |-> amount,
                 created_at |-> now', id |-> 0, seen |-> returned]]
    /\ UNCHANGED <<tables, sequence, locked, result, returned>>

(* Mutation: the lease on the row is not released. *)
EndKeepsLock(k, r) ==
    /\ tx' = [tx EXCEPT ![k] = Idle]
    /\ result' = [result EXCEPT ![k] = r]
    /\ UNCHANGED locked

(* The transaction is over, its locks are free, Charge returns. *)
End(k, r) ==
    /\ tx' = [tx EXCEPT ![k] = Idle]
    /\ result' = [result EXCEPT ![k] = r]
    /\ locked' = [c \in Accounts |-> IF locked[c] = k THEN Nobody ELSE locked[c]]

(* Mutation: the predicate on the balance is gone. *)
CoversAlways(c, amount) == c \in Accounts

(* The row the UPDATE's WHERE clause matches. *)
Covers(c, amount) == c \in Accounts /\ balance[c] >= amount

(* The UPDATE gets the row. *)
Update(k) ==
    LET c == tx[k].customer IN
    /\ At(k, "update")
    /\ Covers(c, tx[k].amount)
    /\ locked[c] = Nobody
    /\ locked' = [locked EXCEPT ![c] = k]
    /\ tx' = [tx EXCEPT ![k].place = "insert"]
    /\ UNCHANGED <<tables, sequence, result, clock, returned>>

(* No row matches: rollback, ErrInsufficientFunds, also for a customer     *)
(* without an account.                                                     *)
Refuse(k) ==
    /\ At(k, "update")
    /\ ~Covers(tx[k].customer, tx[k].amount)
    /\ End(k, "ErrInsufficientFunds")
    /\ UNCHANGED <<tables, sequence, clock, returned>>

(* CHECK (amount_minor > 0) *)
MayInsert(k) == tx[k].amount > 0

Insert(k) ==
    /\ At(k, "insert")
    /\ MayInsert(k)
    /\ sequence' = sequence + 1
    /\ tx' = [tx EXCEPT ![k].place = "commit", ![k].id = sequence + 1]
    /\ UNCHANGED <<tables, locked, result, clock, returned>>

(* The insert is refused, after it drew an id. *)
InsertFails(k) ==
    /\ At(k, "insert")
    /\ ~MayInsert(k)
    /\ sequence' = sequence + 1
    /\ End(k, "error")
    /\ UNCHANGED <<tables, clock, returned>>

(* The effects of the transaction become visible. *)
Install(k) ==
    /\ balance' = [balance EXCEPT ![tx[k].customer] = @ - tx[k].amount]
    /\ payments' = payments \cup
        {[id |-> tx[k].id, customer |-> tx[k].customer, amount |-> tx[k].amount,
          created_at |-> tx[k].created_at, seen |-> tx[k].seen]}

Commit(k) ==
    /\ At(k, "commit")
    /\ Install(k)
    /\ End(k, "charged")
    /\ returned' = returned \cup {tx[k].id}
    /\ UNCHANGED <<sequence, clock>>

(* The database commits and the answer is lost: Commit returns an error. *)
CommitUnanswered(k) ==
    /\ At(k, "commit")
    /\ Install(k)
    /\ End(k, "error")
    /\ UNCHANGED <<sequence, clock, returned>>

(* Mutation: a failed transaction is committed. *)
AbortCommits(k) ==
    /\ At(k, "insert")
    /\ balance' = [balance EXCEPT ![tx[k].customer] = @ - tx[k].amount]
    /\ End(k, "error")
    /\ UNCHANGED <<payments, sequence, clock, returned>>

(* A statement fails, the context is done, the handler panics or the       *)
(* connection breaks: rollback.                                            *)
Abort(k) ==
    /\ ~At(k, "none")
    /\ End(k, "error")
    /\ UNCHANGED <<tables, sequence, clock, returned>>

(* Every caller is content. *)
Terminated ==
    /\ begun = MaxCharges
    /\ \A k \in Clients : At(k, "none")
    /\ UNCHANGED vars

Next ==
    \/ Terminated
    \/ \E k \in Clients :
        \/ \E c \in Accounts \cup Strangers, amount \in Amounts : Begin(k, c, amount)
        \/ Update(k) \/ Refuse(k) \/ Insert(k) \/ InsertFails(k)
        \/ Commit(k) \/ CommitUnanswered(k) \/ Abort(k)

Spec == Init /\ [][Next]_vars

-----------------------------------------------------------------------------
(* Mutation: ORDER BY created_at DESC. *)
NewerByTime(p, q) == p.created_at > q.created_at

(* ORDER BY created_at DESC, id DESC *)
Newer(p, q) ==
    \/ p.created_at > q.created_at
    \/ p.created_at = q.created_at /\ p.id > q.id

-----------------------------------------------------------------------------
(* Type correctness; a row is locked exactly by the transaction that has   *)
(* updated it.                                                             *)
TypeOK ==
    /\ balance \in [Accounts -> Int]
    /\ \A p \in payments : p.id \in 1 .. sequence /\ p.customer \in Accounts
    /\ sequence \in Nat
    /\ locked \in [Accounts -> Clients \cup {Nobody}]
    /\ tx \in [Clients -> Transaction \cup {Idle}]
    /\ \A k \in Clients, c \in Accounts :
        locked[c] = k <=> tx[k].place \in {"insert", "commit"} /\ tx[k].customer = c
    /\ result \in [Clients -> Results]

Charged(c) == {p \in payments : p.customer = c}
AmountOf(charges) == MapThenSumSet(LAMBDA p : p.amount, charges)

(* "an overdraft is impossible" (bank.go lines 7-9): whatever is asked for *)
(* and whatever fails on the way, no balance is negative, and each is the  *)
(* opening balance less the payments recorded.                             *)
NoOverdraft ==
    \A c \in Accounts :
        /\ balance[c] >= 0
        /\ balance[c] = Opening[c] - AmountOf(Charged(c))

(* ByCustomer lists "newest first": a payment whose Charge began after     *)
(* another one's had returned comes before it, also if the database's      *)
(* clock did not move in between.                                          *)
NewestFirst ==
    \A p, q \in payments : q.id \in p.seen => Newer(p, q)

(* Charge debits and records atomically (bank.go lines 44-47): what other  *)
(* clients can see changes by whole charges.                               *)
Contract == INSTANCE BankContract WITH
    recorded <- {[id |-> p.id, customer |-> p.customer, amount |-> p.amount] : p \in payments}
ImplementsContract == Contract!BankSpec
=============================================================================
