---------------------------- MODULE BooksProofs ----------------------------
(***************************************************************************)
(* Proofs about the bank store, the ledger and the containers.             *)
(*                                                                         *)
(* For every number of clients, whatever they charge and however the       *)
(* database numbers, times and loses what it does, no account is           *)
(* overdrawn, the books add up, payments are listed in the order their     *)
(* charges were made, and others see whole charges only.  For every number *)
(* of callers of the journal, whatever slices they keep and write to,      *)
(* posted entries stay, and the accounts balance in every currency.  For   *)
(* every capacity and any elements, ring, window, cache and heap are the   *)
(* collections they stand for.                                             *)
(***************************************************************************)
EXTENDS Books, Sequences, Sums

(* The rows of the payments table. *)
Payment ==
    [id : Nat \ {0}, customer : Accounts, amount : Int, created_at : Nat,
     seen : SUBSET Nat]

RowsTyped ==
    /\ payments \subseteq Payment
    /\ IsFiniteSet(payments)
    /\ now \in Nat /\ begun \in Nat
    /\ returned \subseteq Nat

(* A transaction past its UPDATE has the row for itself, and the row still *)
(* covers the amount: nobody else can have debited it since.               *)
RowHeld ==
    \A k \in Clients : tx[k].place \in {"insert", "commit"} =>
        /\ tx[k].customer \in Accounts
        /\ locked[tx[k].customer] = k
        /\ balance[tx[k].customer] >= tx[k].amount

(* A transaction past its INSERT has an amount the CHECK accepts and an id *)
(* that no payment and no other transaction has.                           *)
IdIsFresh ==
    \A k \in Clients : tx[k].place = "commit" =>
        /\ tx[k].amount > 0
        /\ tx[k].id \in 1 .. sequence
        /\ \A p \in payments : p.id # tx[k].id
        /\ \A l \in Clients : tx[l].place = "commit" /\ tx[l].id = tx[k].id => l = k

(* The ids Charge has returned, and hence those a later Charge has seen,   *)
(* are ids of payments.                                                    *)
SeenArePayments ==
    /\ \A x \in returned : \E p \in payments : p.id = x
    /\ \A k \in Clients : tx[k] # Idle => tx[k].seen \subseteq returned
    /\ \A p \in payments : p.seen \subseteq returned

(* A transaction began no earlier than the payments it has seen, and draws *)
(* its id after theirs.                                                    *)
SeenAreOlder ==
    /\ \A p \in payments : p.created_at <= now
    /\ \A k \in Clients : tx[k] # Idle =>
        /\ tx[k].created_at <= now
        /\ \A q \in payments : q.id \in tx[k].seen =>
            /\ q.created_at <= tx[k].created_at
            /\ tx[k].place = "commit" => q.id < tx[k].id

(* The inductive strengthening of the invariants. *)
IInv ==
    /\ TypeOK
    /\ RowsTyped
    /\ RowHeld
    /\ IdIsFresh
    /\ SeenArePayments
    /\ SeenAreOlder
    /\ NoOverdraft
    /\ NewestFirst

-----------------------------------------------------------------------------
(* Nothing charged, nothing owed. *)
LEMMA AmountOfNothing == AmountOf({}) = 0
BY SumOfAmounts, TotalOfNothing, FS_EmptySet, Zenon DEF AmountOf

(* One more charge adds its amount to the sum. *)
LEMMA AmountWithOne ==
    ASSUME NEW S, IsFiniteSet(S), NEW p, p \notin S,
           \A q \in S \cup {p} : q.amount \in Int
    PROVE  /\ AmountOf(S \cup {p}) = AmountOf(S) + p.amount
           /\ AmountOf(S) \in Int
<1> DEFINE T == S \cup {p}
           v == [q \in S |-> q.amount]
           w == [q \in T |-> q.amount]
<1>1. IsFiniteSet(T)
  BY FS_AddElement
<1>2. AmountOf(S) = Total(v, S) /\ AmountOf(T) = Total(w, T)
  BY <1>1, SumOfAmounts, Zenon DEF AmountOf
<1>3. /\ \A q \in S : v[q] \in Int /\ w[q] = v[q]
      /\ \A q \in T : w[q] \in Int
      /\ w[p] = p.amount
  OBVIOUS
<1> HIDE DEF v, w
<1>4. Total(w, T) = Total(w, S) + w[p]
  BY <1>3, TotalWith
<1>5. Total(w, S) = Total(v, S)
  BY <1>3, TotalAgrees
<1>6. Total(v, S) \in Int
  BY <1>3, TotalIsInteger
<1> QED BY <1>2, <1>3, <1>4, <1>5, <1>6

(* The schema and the seeded accounts satisfy the invariant. *)
LEMMA InitIInv == Init => IInv
<1> SUFFICES ASSUME Init PROVE IInv
  OBVIOUS
<1>1. TypeOK
  BY BankConstants DEF Init, TypeOK, Idle, Results
<1>2. RowsTyped
  BY FS_EmptySet DEF Init, RowsTyped
<1>3. RowHeld /\ IdIsFresh /\ SeenArePayments /\ SeenAreOlder /\ NewestFirst
  BY DEF Init, RowHeld, IdIsFresh, SeenArePayments, SeenAreOlder, NewestFirst, Idle
<1>4. NoOverdraft
  <2> SUFFICES ASSUME NEW c \in Accounts
               PROVE  /\ balance[c] >= 0
                      /\ balance[c] = Opening[c] - AmountOf(Charged(c))
    BY Zenon DEF NoOverdraft
  <2>1. Charged(c) = {}
    BY DEF Init, Charged
  <2>2. AmountOf(Charged(c)) = 0
    BY <2>1, AmountOfNothing
  <2> QED BY <2>2, BankConstants DEF Init
<1> QED BY <1>1, <1>2, <1>3, <1>4 DEF IInv

-----------------------------------------------------------------------------
(* The books stay as they are while the tables do. *)
LEMMA BooksKept == NoOverdraft /\ UNCHANGED tables => NoOverdraft'
<1> SUFFICES ASSUME NoOverdraft, UNCHANGED tables, NEW c \in Accounts
             PROVE  /\ balance'[c] >= 0
                    /\ balance'[c] = Opening[c] - AmountOf(Charged(c)')
  BY Zenon DEF NoOverdraft
<1>1. Charged(c)' = Charged(c) /\ balance' = balance
  BY DEF tables, Charged
<1>2. balance[c] >= 0 /\ balance[c] = Opening[c] - AmountOf(Charged(c))
  BY Zenon DEF NoOverdraft
<1> QED BY <1>1, <1>2

(* A transaction that is rolled back leaves nothing but a gap in the ids.  *)
LEMMA RollbackKeeps ==
    ASSUME IInv, NEW k \in Clients, NEW r \in Results, End(k, r),
           sequence' \in {sequence, sequence + 1},
           UNCHANGED <<tables, clock, returned>>
    PROVE  IInv'
<1> USE DEF IInv
<1>1. /\ tx' = [tx EXCEPT ![k] = Idle]
      /\ result' = [result EXCEPT ![k] = r]
      /\ locked' = [c \in Accounts |-> IF locked[c] = k THEN Nobody ELSE locked[c]]
      /\ UNCHANGED <<balance, payments, now, begun, returned>>
      /\ sequence' \in Nat /\ sequence' >= sequence
  BY DEF End, tables, clock, TypeOK
<1>2. /\ tx'[k] = Idle
      /\ \A l \in Clients : l # k => tx'[l] = tx[l]
  BY <1>1 DEF TypeOK
<1>3. Idle.place = "none"
  BY DEF Idle
<1>4. TypeOK'
  <2>1. tx' \in [Clients -> Transaction \cup {Idle}]
    BY <1>1 DEF TypeOK
  <2>2. \A l \in Clients, c \in Accounts :
          locked'[c] = l <=> tx'[l].place \in {"insert", "commit"} /\ tx'[l].customer = c
    BY <1>1, <1>2, <1>3, BankConstants DEF TypeOK
  <2> QED BY <1>1, <2>1, <2>2 DEF TypeOK
<1>5. RowsTyped'
  BY <1>1 DEF RowsTyped
<1>6. RowHeld'
  BY <1>1, <1>2, <1>3 DEF RowHeld, TypeOK
<1>7. IdIsFresh'
  BY <1>1, <1>2, <1>3 DEF IdIsFresh, TypeOK
<1>8. SeenArePayments' /\ SeenAreOlder'
  BY <1>1, <1>2 DEF SeenArePayments, SeenAreOlder
<1>9. NoOverdraft' /\ NewestFirst'
  BY <1>1, BooksKept DEF NewestFirst, Newer, tables
<1> QED BY <1>4, <1>5, <1>6, <1>7, <1>8, <1>9

(* A transaction that is committed, with or without an answer, debits its  *)
(* account by the amount of the one payment it adds.                       *)
LEMMA CommitKeeps ==
    ASSUME IInv, NEW k \in Clients, NEW r \in Results, End(k, r),
           At(k, "commit"), Install(k),
           returned' \in {returned, returned \cup {tx[k].id}},
           UNCHANGED <<sequence, clock>>
    PROVE  IInv'
<1> USE DEF IInv
<1> DEFINE c == tx[k].customer
           new == [id |-> tx[k].id, customer |-> tx[k].customer,
                   amount |-> tx[k].amount, created_at |-> tx[k].created_at,
                   seen |-> tx[k].seen]
<1>1. /\ tx' = [tx EXCEPT ![k] = Idle]
      /\ result' = [result EXCEPT ![k] = r]
      /\ locked' = [a \in Accounts |-> IF locked[a] = k THEN Nobody ELSE locked[a]]
      /\ balance' = [balance EXCEPT ![c] = @ - tx[k].amount]
      /\ payments' = payments \cup {new}
      /\ UNCHANGED <<now, begun, sequence>>
      /\ tx[k].place = "commit"
  BY DEF End, Install, clock, At
<1>2. /\ tx'[k] = Idle
      /\ \A l \in Clients : l # k => tx'[l] = tx[l]
  BY <1>1 DEF TypeOK
<1>3. Idle.place = "none"
  BY DEF Idle
<1>4. /\ tx[k] \in Transaction /\ tx[k] # Idle
      /\ c \in Accounts /\ locked[c] = k /\ balance[c] >= tx[k].amount
      /\ tx[k].amount \in Int /\ tx[k].amount > 0
      /\ tx[k].id \in 1 .. sequence
      /\ tx[k].created_at \in Nat /\ tx[k].seen \subseteq Nat
  <2>1. tx[k] # Idle
    BY <1>1, <1>3
  <2>2. tx[k] \in Transaction
    BY <2>1 DEF TypeOK
  <2>3. tx[k].amount \in Int /\ tx[k].created_at \in Nat /\ tx[k].seen \subseteq Nat
    BY <2>2, BankConstants DEF Transaction
  <2>4. c \in Accounts /\ locked[c] = k /\ balance[c] >= tx[k].amount
    BY <1>1 DEF RowHeld
  <2>5. tx[k].amount > 0 /\ tx[k].id \in 1 .. sequence
    BY <1>1 DEF IdIsFresh
  <2> QED BY <2>1, <2>2, <2>3, <2>4, <2>5
<1>5. new \in Payment /\ new \notin payments
  BY <1>1, <1>4 DEF Payment, IdIsFresh, TypeOK
<1>6. /\ balance' \in [Accounts -> Int]
      /\ balance'[c] = balance[c] - tx[k].amount
      /\ \A a \in Accounts : a # c => balance'[a] = balance[a]
  BY <1>1, <1>4 DEF TypeOK
<1>7. TypeOK'
  <2>1. tx' \in [Clients -> Transaction \cup {Idle}]
    BY <1>1 DEF TypeOK
  <2>2. \A l \in Clients, a \in Accounts :
          locked'[a] = l <=> tx'[l].place \in {"insert", "commit"} /\ tx'[l].customer = a
    BY <1>1, <1>2, <1>3, BankConstants DEF TypeOK
  <2>3. \A p \in payments' : p.id \in 1 .. sequence' /\ p.customer \in Accounts
    BY <1>1, <1>4 DEF TypeOK
  <2> QED BY <1>1, <1>6, <2>1, <2>2, <2>3 DEF TypeOK
<1>8. RowsTyped'
  <2>1. IsFiniteSet(payments')
    <3>1. IsFiniteSet(payments)
      BY DEF RowsTyped
    <3> HIDE DEF new
    <3> QED BY <1>1, <3>1, FS_AddElement
  <2> QED BY <1>1, <1>4, <1>5, <2>1 DEF RowsTyped
<1>9. RowHeld'
  <2> SUFFICES ASSUME NEW l \in Clients, tx'[l].place \in {"insert", "commit"}
               PROVE  /\ tx'[l].customer \in Accounts
                      /\ locked'[tx'[l].customer] = l
                      /\ balance'[tx'[l].customer] >= tx'[l].amount
    BY DEF RowHeld
  <2>1. l # k /\ tx'[l] = tx[l] /\ tx[l].customer \in Accounts
        /\ locked[tx[l].customer] = l /\ balance[tx[l].customer] >= tx[l].amount
    BY <1>2, <1>3 DEF RowHeld
  <2>2. tx[l].customer # c
    BY <1>4, <2>1
  <2> QED BY <1>1, <1>6, <2>1, <2>2
<1>10. IdIsFresh'
  BY <1>1, <1>2, <1>3 DEF IdIsFresh, TypeOK
<1>11. SeenArePayments'
  <2>1. \A x \in returned' : \E p \in payments' : p.id = x
    BY <1>1 DEF SeenArePayments
  <2>2. \A p \in payments' : p.seen \subseteq returned'
    BY <1>1, <1>4 DEF SeenArePayments
  <2> QED BY <1>2, <2>1, <2>2 DEF SeenArePayments
<1>12. new.id \notin returned
  BY <1>1, <1>5 DEF SeenArePayments, IdIsFresh
<1>13. SeenAreOlder'
  <2>1. \A p \in payments' : p.created_at <= now'
    BY <1>1, <1>4 DEF SeenAreOlder
  <2>2. ASSUME NEW l \in Clients, tx'[l] # Idle
        PROVE  /\ tx'[l].created_at <= now'
               /\ \A q \in payments' : q.id \in tx'[l].seen =>
                    /\ q.created_at <= tx'[l].created_at
                    /\ tx'[l].place = "commit" => q.id < tx'[l].id
    <3>1. tx'[l] = tx[l] /\ tx[l] # Idle /\ new.id \notin tx[l].seen
      BY <1>2, <1>12, <2>2 DEF SeenArePayments
    <3> QED BY <1>1, <3>1 DEF SeenAreOlder
  <2> QED BY <2>1, <2>2 DEF SeenAreOlder
<1>14. NoOverdraft'
  <2> SUFFICES ASSUME NEW a \in Accounts
               PROVE  /\ balance'[a] >= 0
                      /\ balance'[a] = Opening[a] - AmountOf(Charged(a)')
    BY Zenon DEF NoOverdraft
  <2>1. balance[a] >= 0 /\ balance[a] = Opening[a] - AmountOf(Charged(a))
    BY Zenon DEF NoOverdraft
  <2>2. CASE a # c
    <3>1. Charged(a)' = Charged(a)
      BY <1>1, <2>2 DEF Charged
    <3> QED BY <1>6, <2>1, <2>2, <3>1
  <2>3. CASE a = c
    <3> DEFINE S == Charged(a)
    <3>1. Charged(a)' = S \cup {new} /\ new \notin S
      BY <1>1, <1>5, <2>3 DEF Charged
    <3>2. IsFiniteSet(S)
      BY FS_Subset DEF RowsTyped, Charged
    <3>3. \A q \in S \cup {new} : q.amount \in Int
      BY <1>4 DEF Charged, RowsTyped, Payment
    <3>4. /\ AmountOf(S \cup {new}) = AmountOf(S) + new.amount
          /\ AmountOf(S) \in Int
      <4> HIDE DEF S, new
      <4> QED BY <3>1, <3>2, <3>3, AmountWithOne
    <3>5. new.amount = tx[k].amount
      OBVIOUS
    <3> HIDE DEF S, new
    <3> QED BY <1>4, <1>6, <2>1, <2>3, <3>1, <3>4, <3>5, BankConstants DEF S
  <2> QED BY <2>2, <2>3
<1>15. NewestFirst'
  <2> SUFFICES ASSUME NEW p \in payments', NEW q \in payments', q.id \in p.seen
               PROVE  Newer(p, q)
    BY DEF NewestFirst, Newer
  <2>1. q \in payments
    <3>1. p.seen \subseteq returned
      BY <1>1, <1>4 DEF SeenArePayments
    <3> QED BY <1>1, <1>12, <3>1
  <2>2. CASE p \in payments
    BY <2>1, <2>2 DEF NewestFirst
  <2>3. CASE p = new
    <3>1. q.created_at <= tx[k].created_at /\ q.id < tx[k].id
      BY <1>1, <1>4, <2>1, <2>3 DEF SeenAreOlder
    <3>2. q.created_at \in Nat
      BY <2>1 DEF RowsTyped, Payment
    <3> QED BY <1>4, <2>3, <3>1, <3>2 DEF Newer
  <2> QED BY <1>1, <2>2, <2>3
<1> QED BY <1>7, <1>8, <1>9, <1>10, <1>11, <1>13, <1>14, <1>15

(* No step of a client or of the database leaves the inductive invariant.  *)
LEMMA NextIInv == IInv /\ [Next]_vars => IInv'
<1> SUFFICES ASSUME IInv, [Next]_vars PROVE IInv'
  OBVIOUS
<1> USE DEF IInv
<1>1. ASSUME NEW k \in Clients, NEW c \in Accounts \cup Strangers,
             NEW amount \in Amounts, Begin(k, c, amount)
      PROVE  IInv'
  <2> DEFINE new == [place |-> "update", customer |-> c, amount |-> amount,
                     created_at |-> now', id |-> 0, seen |-> returned]
  <2>1. /\ tx' = [tx EXCEPT ![k] = new]
        /\ UNCHANGED <<balance, payments, sequence, locked, result, returned>>
        /\ now' \in Nat /\ now' >= now /\ begun' \in Nat
        /\ tx[k].place = "none"
    BY <1>1 DEF Begin, At, tables, RowsTyped
  <2>2. new \in Transaction /\ new.place = "update"
    BY <2>1 DEF Transaction, RowsTyped
  <2>3. /\ tx'[k] = new
        /\ \A l \in Clients : l # k => tx'[l] = tx[l]
    BY <2>1 DEF TypeOK
  <2>4. TypeOK'
    <3>1. tx' \in [Clients -> Transaction \cup {Idle}]
      BY <2>1, <2>2 DEF TypeOK
    <3>2. \A l \in Clients, a \in Accounts :
            locked'[a] = l <=> tx'[l].place \in {"insert", "commit"} /\ tx'[l].customer = a
      BY <2>1, <2>2, <2>3 DEF TypeOK
    <3> QED BY <2>1, <3>1, <3>2 DEF TypeOK
  <2>5. RowsTyped' /\ RowHeld' /\ IdIsFresh'
    BY <2>1, <2>2, <2>3 DEF RowsTyped, RowHeld, IdIsFresh
  <2>6. SeenArePayments'
    BY <2>1, <2>3 DEF SeenArePayments
  <2>7. SeenAreOlder'
    <3>1. \A p \in payments : p.created_at <= now'
      BY <2>1 DEF SeenAreOlder, RowsTyped, Payment
    <3>2. \A l \in Clients : l # k /\ tx[l] # Idle => tx[l].created_at <= now'
      BY <2>1 DEF SeenAreOlder, RowsTyped, TypeOK, Transaction
    <3> QED BY <2>1, <2>2, <2>3, <3>1, <3>2 DEF SeenAreOlder
  <2>8. NoOverdraft' /\ NewestFirst'
    BY <2>1, BooksKept DEF NewestFirst, Newer, tables
  <2> QED BY <2>4, <2>5, <2>6, <2>7, <2>8
<1>2. ASSUME NEW k \in Clients, Update(k)
      PROVE  IInv'
  <2> DEFINE c == tx[k].customer
  <2>1. /\ tx[k].place = "update" /\ c \in Accounts /\ balance[c] >= tx[k].amount
        /\ locked[c] = Nobody
        /\ locked' = [locked EXCEPT ![c] = k]
        /\ tx' = [tx EXCEPT ![k].place = "insert"]
        /\ UNCHANGED <<balance, payments, sequence, result, now, begun, returned>>
    BY <1>2 DEF Update, At, Covers, tables, clock
  <2>2. tx[k] \in Transaction
    BY <2>1 DEF TypeOK, Idle
  <2>3. /\ tx'[k] = [tx[k] EXCEPT !.place = "insert"]
        /\ \A l \in Clients : l # k => tx'[l] = tx[l]
    BY <2>1 DEF TypeOK
  <2>4. /\ tx'[k] \in Transaction /\ tx'[k].place = "insert"
        /\ tx'[k].customer = c /\ tx'[k].amount = tx[k].amount
        /\ tx'[k].seen = tx[k].seen /\ tx'[k].created_at = tx[k].created_at
    BY <2>2, <2>3 DEF Transaction
  <2>5. /\ locked'[c] = k
        /\ \A a \in Accounts : a # c => locked'[a] = locked[a]
        /\ locked' \in [Accounts -> Clients \cup {Nobody}]
    BY <2>1 DEF TypeOK
  <2>6. TypeOK'
    <3>1. tx' \in [Clients -> Transaction \cup {Idle}]
      BY <2>1, <2>3, <2>4 DEF TypeOK
    <3>2. ASSUME NEW l \in Clients, NEW a \in Accounts
          PROVE  locked'[a] = l <=>
                    tx'[l].place \in {"insert", "commit"} /\ tx'[l].customer = a
      <4>1. locked[a] = l <=> tx[l].place \in {"insert", "commit"} /\ tx[l].customer = a
        BY DEF TypeOK
      <4>2. CASE l = k
        BY <2>1, <2>4, <2>5, <4>1, <4>2
      <4>3. CASE l # k
        BY <2>1, <2>3, <2>5, <4>1, <4>3, BankConstants
      <4> QED BY <4>2, <4>3
    <3> QED BY <2>1, <2>5, <3>1, <3>2 DEF TypeOK
  <2>7. RowsTyped' /\ IdIsFresh'
    BY <2>1, <2>3, <2>4 DEF RowsTyped, IdIsFresh
  <2>8. RowHeld'
    BY <2>1, <2>3, <2>4, <2>5, BankConstants DEF RowHeld
  <2>9. SeenArePayments' /\ SeenAreOlder'
    <3>1. tx[k] # Idle
      BY <2>1 DEF Idle
    <3> QED BY <2>1, <2>3, <2>4, <3>1 DEF SeenArePayments, SeenAreOlder
  <2>10. NoOverdraft' /\ NewestFirst'
    BY <2>1, BooksKept DEF NewestFirst, Newer, tables
  <2> QED BY <2>6, <2>7, <2>8, <2>9, <2>10
<1>3. ASSUME NEW k \in Clients, Refuse(k)
      PROVE  IInv'
  BY <1>3, RollbackKeeps DEF Refuse, Results
<1>4. ASSUME NEW k \in Clients, Insert(k)
      PROVE  IInv'
  <2>1. /\ tx[k].place = "insert" /\ tx[k].amount > 0
        /\ sequence' = sequence + 1
        /\ tx' = [tx EXCEPT ![k].place = "commit", ![k].id = sequence + 1]
        /\ UNCHANGED <<balance, payments, locked, result, now, begun, returned>>
    BY <1>4 DEF Insert, At, MayInsert, tables, clock
  <2>2. tx[k] \in Transaction /\ tx[k] # Idle /\ sequence \in Nat
    BY <2>1 DEF TypeOK, Idle
  <2> DEFINE inserted == [tx EXCEPT ![k].place = "commit"]
  <2>3. /\ inserted[k] \in Transaction /\ inserted[k].place = "commit"
        /\ inserted[k].customer = tx[k].customer /\ inserted[k].amount = tx[k].amount
        /\ inserted[k].seen = tx[k].seen
        /\ inserted[k].created_at = tx[k].created_at
        /\ inserted \in [Clients -> Transaction \cup {Idle}]
        /\ \A l \in Clients : l # k => inserted[l] = tx[l]
    BY <2>2 DEF TypeOK, Transaction
  <2>4. /\ tx'[k] \in Transaction /\ tx'[k].place = "commit"
        /\ tx'[k].customer = tx[k].customer /\ tx'[k].amount = tx[k].amount
        /\ tx'[k].seen = tx[k].seen /\ tx'[k].created_at = tx[k].created_at
        /\ tx'[k].id = sequence + 1
        /\ tx' \in [Clients -> Transaction \cup {Idle}]
        /\ \A l \in Clients : l # k => tx'[l] = tx[l]
    <3>1. tx' = [inserted EXCEPT ![k].id = sequence + 1]
      BY <2>1
    <3> HIDE DEF inserted
    <3> QED BY <2>2, <2>3, <3>1 DEF Transaction
  <2>5. TypeOK'
    <3>1. tx' \in [Clients -> Transaction \cup {Idle}]
      BY <2>4
    <3>2. \A l \in Clients, a \in Accounts :
            locked'[a] = l <=> tx'[l].place \in {"insert", "commit"} /\ tx'[l].customer = a
      BY <2>1, <2>4 DEF TypeOK
    <3>3. \A p \in payments : p.id \in 1 .. sequence'
      BY <2>1, <2>2 DEF TypeOK
    <3> QED BY <2>1, <2>2, <3>1, <3>2, <3>3 DEF TypeOK
  <2>6. RowsTyped' /\ RowHeld'
    BY <2>1, <2>4 DEF RowsTyped, RowHeld
  <2>7. IdIsFresh'
    <3>1. \A p \in payments : p.id # sequence + 1
      BY <2>2 DEF TypeOK
    <3>2. \A l \in Clients : tx[l].place = "commit" =>
            tx[l].id # sequence + 1 /\ tx[l].id \in 1 .. sequence'
      BY <2>1, <2>2 DEF IdIsFresh
    <3> QED BY <2>1, <2>2, <2>4, <3>1, <3>2 DEF IdIsFresh
  <2>8. SeenArePayments'
    BY <2>1, <2>2, <2>4 DEF SeenArePayments
  <2>9. SeenAreOlder'
    <3>1. \A q \in payments : q.id < sequence + 1
      BY <2>2 DEF TypeOK
    <3> QED BY <2>1, <2>2, <2>4, <3>1 DEF SeenAreOlder
  <2>10. NoOverdraft' /\ NewestFirst'
    BY <2>1, BooksKept DEF NewestFirst, Newer, tables
  <2> QED BY <2>5, <2>6, <2>7, <2>8, <2>9, <2>10
<1>5. ASSUME NEW k \in Clients, InsertFails(k)
      PROVE  IInv'
  BY <1>5, RollbackKeeps DEF InsertFails, Results
<1>6. ASSUME NEW k \in Clients, Commit(k)
      PROVE  IInv'
  BY <1>6, CommitKeeps DEF Commit, Results
<1>7. ASSUME NEW k \in Clients, CommitUnanswered(k)
      PROVE  IInv'
  BY <1>7, CommitKeeps DEF CommitUnanswered, Results
<1>8. ASSUME NEW k \in Clients, Abort(k)
      PROVE  IInv'
  BY <1>8, RollbackKeeps DEF Abort, Results
<1>9. CASE UNCHANGED vars
  BY <1>9, BooksKept
     DEF vars, tables, clock, TypeOK, RowsTyped, RowHeld, IdIsFresh,
         SeenArePayments, SeenAreOlder, NewestFirst, Newer
<1> QED
  BY <1>1, <1>2, <1>3, <1>4, <1>5, <1>6, <1>7, <1>8, <1>9 DEF Next, Terminated

(* The inductive invariant holds in every reachable state. *)
LEMMA AlwaysIInv == Spec => []IInv
BY InitIInv, NextIInv, PTL DEF Spec

(* Type correctness of the tables and of the transactions, and a row is    *)
(* locked exactly by the transaction that has updated it (postgres.go).    *)
THEOREM TypeCorrect == Spec => []TypeOK
<1>1. IInv => TypeOK
  BY DEF IInv
<1> QED BY <1>1, AlwaysIInv, PTL

(* No balance is negative, and each is the opening balance less the        *)
(* payments recorded (bank.go lines 7-9).                                  *)
THEOREM OverdraftIsImpossible == Spec => []NoOverdraft
<1>1. IInv => NoOverdraft
  BY DEF IInv
<1> QED BY <1>1, AlwaysIInv, PTL

(* ByCustomer lists a payment before those that had been answered when its *)
(* Charge began.                                                           *)
THEOREM ListedNewestFirst == Spec => []NewestFirst
<1>1. IInv => NewestFirst
  BY DEF IInv
<1> QED BY <1>1, AlwaysIInv, PTL

-----------------------------------------------------------------------------
(* What is shown to the contract of a payment. *)
Shown(p) == [id |-> p.id, customer |-> p.customer, amount |-> p.amount]

(* A commit charges once: the payment it adds is new to the contract.      *)
LEMMA InstallChargesOnce ==
    ASSUME IInv, NEW k \in Clients, At(k, "commit"), Install(k)
    PROVE  Contract!BankNext
<1> USE DEF IInv
<1> DEFINE new == [id |-> tx[k].id, customer |-> tx[k].customer,
                   amount |-> tx[k].amount, created_at |-> tx[k].created_at,
                   seen |-> tx[k].seen]
           charge == Shown(new)
           recorded == {Shown(p) : p \in payments}
<1>1. /\ tx[k].place = "commit"
      /\ balance' = [balance EXCEPT ![tx[k].customer] = @ - tx[k].amount]
      /\ payments' = payments \cup {new}
  BY DEF At, Install
<1>2. /\ charge.id = tx[k].id /\ charge.customer = tx[k].customer
      /\ charge.amount = tx[k].amount
  BY DEF Shown
<1>3. balance[tx[k].customer] >= tx[k].amount /\ tx[k].amount > 0
  BY <1>1 DEF RowHeld, IdIsFresh
<1>4. \A q \in recorded : q.id # charge.id
  BY <1>1, <1>2 DEF IdIsFresh, Shown
<1>5. {Shown(p) : p \in payments'} = recorded \cup {charge}
  <2> HIDE DEF new
  <2> QED BY <1>1
<1>6. charge \in {Shown(p) : p \in payments'} \ recorded
  BY <1>4, <1>5
<1> HIDE DEF new, charge, recorded
<1> QED
  BY <1>1, <1>2, <1>3, <1>4, <1>5, <1>6
     DEF Contract!BankNext, Contract!ChargeOnce, recorded, Shown

(* A commit is one charge of the contract; nothing else is visible.        *)
LEMMA StepImplementsContract ==
    IInv /\ [Next]_vars => [Contract!BankNext]_(Contract!bankVars)
<1> SUFFICES ASSUME IInv, [Next]_vars
             PROVE  [Contract!BankNext]_(Contract!bankVars)
  OBVIOUS
<1>1. ASSUME NEW k \in Clients, Commit(k) \/ CommitUnanswered(k)
      PROVE  [Contract!BankNext]_(Contract!bankVars)
  BY <1>1, InstallChargesOnce DEF Commit, CommitUnanswered
<1>2. CASE UNCHANGED tables
  BY <1>2 DEF tables, Contract!bankVars
<1> QED
  BY <1>1, <1>2
     DEF Next, Terminated, Begin, Update, Refuse, Insert, InsertFails, Abort,
         vars, tables

(* Charge debits and records atomically, however many clients, losses and  *)
(* failures there are (bank.go lines 44-47).                               *)
THEOREM BankImplementsContract == Spec => ImplementsContract
<1>1. Init => Contract!BankInit
  BY DEF Init, Contract!BankInit
<1> QED
  BY <1>1, StepImplementsContract, AlwaysIInv, PTL
     DEF Spec, ImplementsContract, Contract!BankSpec

-----------------------------------------------------------------------------
(* The ledger's journal. *)

(* What a slice, or a list of them, consists of. *)
Elements(s) == {s[i] : i \in 1 .. Len(s)}

SlicesTyped ==
    /\ heap \in Seq(Elements(heap)) /\ entries \in Seq(Elements(entries))
    /\ \A i \in 1 .. Len(entries) : entries[i].lines \in 1 .. Len(heap)
    /\ own \in [Callers -> SUBSET (1 .. Len(heap))]

(* No caller owns a slice of the journal's: what Post was given and what   *)
(* it returned are other slices.                                           *)
JournalsOwn ==
    \A i \in 1 .. Len(entries) : \A c \in Callers : entries[i].lines \notin own[c]

(* The inductive strengthening of HistoryKept. *)
HistoryIInv == SlicesTyped /\ JournalsOwn

(* Slices are made at the end of the heap. *)
LEMMA HeapGrows ==
  ASSUME NEW s, s \in Seq(Elements(s)), NEW x
  PROVE  /\ Append(s, x) \in Seq(Elements(Append(s, x)))
         /\ Len(Append(s, x)) = Len(s) + 1 /\ Len(s) \in Nat
         /\ \A i \in 1 .. Len(s) : Append(s, x)[i] = s[i]
         /\ Append(s, x)[Len(s) + 1] = x
<1> DEFINE S == Elements(s) \cup {x}
           t == Append(s, x)
<1>1. s \in Seq(S) /\ x \in S
  OBVIOUS
<1>2. /\ t \in Seq(S) /\ Len(t) = Len(s) + 1 /\ Len(s) \in Nat
      /\ \A i \in 1 .. Len(s) : t[i] = s[i]
      /\ t[Len(s) + 1] = x
  BY <1>1
<1> HIDE DEF t
<1>3. t \in Seq(Elements(t))
  BY <1>2 DEF Elements
<1> QED
  BY <1>2, <1>3 DEF t

(* What a step may do to the journal and to the slices in it: HistoryKept. *)
HistoryStep ==
    /\ Journal!IsPrefix(entries, entries')
    /\ \A i \in DOMAIN entries :
         entries[i].lines \notin listed => heap'[entries[i].lines] = heap[entries[i].lines]

LEMMA PrefixOfSame ==
  ASSUME NEW s, s \in Seq(Elements(s)) PROVE Journal!IsPrefix(s, s)
  BY DEF Journal!IsPrefix

LEMMA PrefixOfAppend ==
  ASSUME NEW s, s \in Seq(Elements(s)), NEW x PROVE Journal!IsPrefix(s, Append(s, x))
<1>1. /\ Append(s, x) \in Seq(Elements(Append(s, x)))
      /\ Len(Append(s, x)) = Len(s) + 1 /\ Len(s) \in Nat
      /\ \A i \in 1 .. Len(s) : Append(s, x)[i] = s[i]
  BY HeapGrows
<1> QED
  BY <1>1 DEF Journal!IsPrefix

(* Post up to the lock, of any slice. *)
LEMMA PostKeeps ==
  ASSUME HistoryIInv, NEW c \in Callers, NEW named, NEW lines, Journal!Post(c, named, lines)
  PROVE  HistoryIInv' /\ HistoryStep
<1>1. /\ heap' = Append(heap, lines) /\ entries' = entries
      /\ own' = [own EXCEPT ![c] = @ \cup {Len(heap')}]
  BY DEF Journal!Post, Journal!journal
<1>2. /\ heap' \in Seq(Elements(heap')) /\ Len(heap') = Len(heap) + 1 /\ Len(heap) \in Nat
      /\ \A i \in 1 .. Len(heap) : heap'[i] = heap[i]
  BY <1>1, HeapGrows DEF HistoryIInv, SlicesTyped
<1>3. own' \in [Callers -> SUBSET (1 .. Len(heap'))]
  BY <1>1, <1>2 DEF HistoryIInv, SlicesTyped
<1>4. SlicesTyped'
  <2>1. \A i \in 1 .. Len(entries) : entries[i].lines \in 1 .. Len(heap')
    BY <1>2 DEF HistoryIInv, SlicesTyped
  <2>2. entries' \in Seq(Elements(entries'))
    BY <1>1 DEF HistoryIInv, SlicesTyped
  <2> QED
    BY <1>1, <1>2, <1>3, <2>1, <2>2 DEF SlicesTyped
<1>5. JournalsOwn'
  <2> SUFFICES ASSUME NEW i \in 1 .. Len(entries), NEW d \in Callers
               PROVE  entries[i].lines \notin own'[d]
    BY <1>1 DEF JournalsOwn
  <2>1. entries[i].lines \in 1 .. Len(heap) /\ entries[i].lines \notin own[d]
    BY DEF HistoryIInv, SlicesTyped, JournalsOwn
  <2>2. own'[d] \subseteq own[d] \cup {Len(heap')}
    BY <1>1 DEF HistoryIInv, SlicesTyped
  <2> QED
    BY <1>2, <2>1, <2>2
<1>6. HistoryStep
  BY <1>1, <1>2, PrefixOfSame DEF HistoryIInv, SlicesTyped, HistoryStep
<1> QED
  BY <1>4, <1>5, <1>6 DEF HistoryIInv

(* The journal's copy and the caller's copy are two new slices. *)
LEMMA PostAppendsKeeps ==
  ASSUME HistoryIInv, NEW c \in Callers, Journal!PostAppends(c)
  PROVE  HistoryIInv' /\ HistoryStep
<1> DEFINE lines == heap[posting[c]]
           n == Len(heap)
           entry == [id |-> Journal!IDAfter(nextID), lines |-> n + 1]
           h == Append(Append(heap, lines), lines)
<1>0. SlicesTyped /\ JournalsOwn
  BY DEF HistoryIInv
<1>1. /\ heap' = heap \o <<lines, lines>> /\ entries' = Append(entries, entry)
      /\ own' = [own EXCEPT ![c] = @ \cup {n + 2}] /\ listed' = listed
  BY DEF Journal!PostAppends, Journal!JournalSlice
<1> HIDE DEF lines
<1>2. heap' = h
  <2>1. heap \in Seq(Elements(heap) \cup {lines}) /\ lines \in Elements(heap) \cup {lines}
    BY <1>0 DEF SlicesTyped
  <2> QED
    BY <1>1, <2>1
<1>3. /\ h \in Seq(Elements(h)) /\ Len(h) = n + 2 /\ n \in Nat
      /\ \A i \in 1 .. n : h[i] = heap[i]
  <2>1. /\ Append(heap, lines) \in Seq(Elements(Append(heap, lines)))
        /\ Len(Append(heap, lines)) = n + 1 /\ n \in Nat
        /\ \A i \in 1 .. n : Append(heap, lines)[i] = heap[i]
    BY <1>0, HeapGrows DEF SlicesTyped
  <2>2. /\ h \in Seq(Elements(h)) /\ Len(h) = Len(Append(heap, lines)) + 1
        /\ \A i \in 1 .. Len(Append(heap, lines)) : h[i] = Append(heap, lines)[i]
    BY <2>1, HeapGrows
  <2> QED
    BY <2>1, <2>2
<1>4. /\ entries' \in Seq(Elements(entries')) /\ Len(entries') = Len(entries) + 1
      /\ Len(entries) \in Nat /\ entries'[Len(entries) + 1] = entry
      /\ \A i \in 1 .. Len(entries) : entries'[i] = entries[i]
  BY <1>0, <1>1, HeapGrows DEF SlicesTyped
<1> HIDE DEF h, n
<1>5. entry.lines = n + 1
  OBVIOUS
<1> HIDE DEF entry
<1>6. \A i \in 1 .. Len(entries') : i \in 1 .. Len(entries) \/ entries'[i] = entry
  BY <1>4
<1>7. own' \in [Callers -> SUBSET (1 .. n + 2)]
  <2>1. own \in [Callers -> SUBSET (1 .. n)]
    BY <1>0 DEF SlicesTyped, n
  <2> QED
    BY <1>1, <1>3, <2>1
<1>8. SlicesTyped'
  <2>1. \A i \in 1 .. Len(entries') : entries'[i].lines \in 1 .. n + 2
    BY <1>0, <1>3, <1>4, <1>5, <1>6 DEF SlicesTyped, n
  <2> QED
    BY <1>2, <1>3, <1>4, <1>7, <2>1 DEF SlicesTyped
<1>9. JournalsOwn'
  <2> SUFFICES ASSUME NEW i \in 1 .. Len(entries'), NEW d \in Callers
               PROVE  entries'[i].lines \notin own'[d]
    BY DEF JournalsOwn
  <2>1. own[d] \subseteq 1 .. n /\ own'[d] \subseteq own[d] \cup {n + 2}
    BY <1>0, <1>1 DEF SlicesTyped, n
  <2>2. CASE i \in 1 .. Len(entries)
    <3>1. entries'[i].lines \in 1 .. n /\ entries'[i].lines \notin own[d]
      BY <1>0, <1>4, <2>2 DEF SlicesTyped, JournalsOwn, n
    <3> QED
      BY <1>3, <2>1, <3>1
  <2>3. CASE entries'[i] = entry
    BY <1>3, <1>5, <2>1, <2>3
  <2> QED
    BY <1>6, <2>2, <2>3
<1>10. HistoryStep
  <2>1. Journal!IsPrefix(entries, entries')
    BY <1>0, <1>1, PrefixOfAppend DEF SlicesTyped
  <2> QED
    BY <1>0, <1>2, <1>3, <2>1 DEF SlicesTyped, HistoryStep, n
<1> QED
  BY <1>8, <1>9, <1>10 DEF HistoryIInv

(* A caller writes into a slice of its own or into one that Entries listed. *)
LEMMA WriteKeeps ==
  ASSUME HistoryIInv, NEW c \in Callers, NEW a \in Journal!Reach(c), NEW m,
         Journal!Write(c, a, m)
  PROVE  HistoryIInv' /\ HistoryStep
<1>0. SlicesTyped /\ JournalsOwn
  BY DEF HistoryIInv
<1>1. /\ heap' = [heap EXCEPT ![a][1].amount = m] /\ entries' = entries /\ own' = own
      /\ a \in own[c] \cup listed
  BY DEF Journal!Write, Journal!journal, Journal!Reach
<1>2. /\ DOMAIN heap' = DOMAIN heap /\ DOMAIN heap = 1 .. Len(heap) /\ Len(heap) \in Nat
      /\ \A b \in 1 .. Len(heap) : b # a => heap'[b] = heap[b]
  BY <1>0, <1>1 DEF SlicesTyped
<1>3. heap' \in Seq(Elements(heap')) /\ Len(heap') = Len(heap)
  <2>1. heap' = [b \in 1 .. Len(heap) |-> heap'[b]]
    BY <1>1, <1>2
  <2>2. heap' \in [1 .. Len(heap) -> {heap'[b] : b \in 1 .. Len(heap)}]
    BY <2>1
  <2>3. heap' \in Seq({heap'[b] : b \in 1 .. Len(heap)})
    BY <1>2, <2>2
  <2>4. Len(heap') = Len(heap)
    BY <1>2, <2>3
  <2> QED
    BY <2>3, <2>4 DEF Elements
<1>4. SlicesTyped' /\ JournalsOwn'
  BY <1>0, <1>1, <1>3 DEF SlicesTyped, JournalsOwn, Elements
<1>5. HistoryStep
  <2>1. \A i \in DOMAIN entries : entries[i].lines \notin listed => entries[i].lines # a
    BY <1>0, <1>1 DEF JournalsOwn, SlicesTyped
  <2> QED
    BY <1>0, <1>1, <1>2, <2>1, PrefixOfSame DEF SlicesTyped, HistoryStep
<1> QED
  BY <1>4, <1>5 DEF HistoryIInv

(* Steps that touch neither the journal nor a slice. *)
LEMMA JournalStays ==
  ASSUME HistoryIInv, UNCHANGED <<heap, entries, own>>
  PROVE  HistoryIInv' /\ HistoryStep
  BY PrefixOfSame DEF HistoryIInv, SlicesTyped, JournalsOwn, HistoryStep, Elements

LEMMA HistoryNext ==
  ASSUME HistoryIInv, [Journal!Next]_(Journal!vars) PROVE HistoryIInv' /\ HistoryStep
<1>1. CASE Journal!Terminated \/ UNCHANGED Journal!vars
  BY <1>1, JournalStays DEF Journal!Terminated, Journal!vars, Journal!journal
<1>2. ASSUME NEW c \in Callers, NEW named, NEW lines, Journal!Post(c, named, lines)
      PROVE  HistoryIInv' /\ HistoryStep
  BY <1>2, PostKeeps
<1>3. ASSUME NEW c \in Callers, NEW from, NEW to, NEW m, Journal!PostBalance(c, from, to, m)
      PROVE  HistoryIInv' /\ HistoryStep
  BY <1>3, PostKeeps DEF Journal!PostBalance
<1>4. ASSUME NEW c \in Callers, Journal!PostReversal(c)
      PROVE  HistoryIInv' /\ HistoryStep
  BY <1>4, PostKeeps DEF Journal!PostReversal
<1>5. ASSUME NEW c \in Callers, Journal!Entries(c)
      PROVE  HistoryIInv' /\ HistoryStep
  BY <1>5, JournalStays DEF Journal!Entries, Journal!journal
<1> QED
  BY <1>1, <1>2, <1>3, <1>4, <1>5, PostAppendsKeeps, WriteKeeps DEF Journal!Next

-----------------------------------------------------------------------------
(* A behaviour of the three is one of each: the others stand still. *)
LEMMA BooksAreLedger == BooksSpec => Journal!Spec
<1>1. BooksInit => Journal!Init
  BY DEF BooksInit
<1>2. [BooksNext]_all => [Journal!Next]_(Journal!vars)
  BY DEF BooksNext, OfBank, OfLedger, OfShelf, all, ledgerVars, Journal!vars, Journal!journal
<1> QED BY <1>1, <1>2, PTL DEF BooksSpec, Journal!Spec

(* "Entries are immutable once posted (defensive copies, no mutators)":    *)
(* however callers post, reverse and write into slices they hold, the      *)
(* journal loses no entry and only what Entries listed can be rewritten.   *)
THEOREM EntriesStayPosted == BooksSpec => HistoryKept
<1>1. Journal!Init => HistoryIInv
  <2> SUFFICES ASSUME Journal!Init PROVE HistoryIInv
    OBVIOUS
  <2>1. /\ heap = <<>> /\ entries = <<>> /\ Len(heap) = 0 /\ Len(entries) = 0
        /\ own \in [Callers -> SUBSET (1 .. 0)]
    BY DEF Journal!Init
  <2> QED
    BY <2>1 DEF HistoryIInv, SlicesTyped, JournalsOwn, Elements
<1>2. HistoryIInv /\ [Journal!Next]_(Journal!vars) => HistoryIInv' /\ [HistoryStep]_(Journal!vars)
  BY HistoryNext
<1>3. Journal!Spec => [][HistoryStep]_(Journal!vars)
  BY <1>1, <1>2, PTL DEF Journal!Spec
<1> QED BY <1>3, BooksAreLedger DEF HistoryKept, Journal!HistoryKept, HistoryStep

-----------------------------------------------------------------------------
(* money.go: sums that wrap around. *)

LEMMA HalfIsPositive == Journal!Half \in Nat \ {0}
<1>1. Width - 1 \in Nat
  BY LedgerAssumption DEF Journal!LedgerConstants
<1>2. IsFiniteSet(SUBSET (1 .. Width - 1)) /\ Cardinality(SUBSET (1 .. Width - 1)) = 2^(Width - 1)
      /\ 2^(Width - 1) \in Nat
  BY <1>1, PowerIsCount
<1>3. SUBSET (1 .. Width - 1) # {}
  OBVIOUS
<1>4. 2^(Width - 1) # 0
  BY <1>2, <1>3, FS_EmptySet
<1> QED
  BY <1>2, <1>4 DEF Journal!Half

(* Wrap(n) differs from n by turns of the clock, and is in range. *)
LEMMA WrapTurns ==
  ASSUME NEW n \in Int
  PROVE  /\ Journal!Wrap(n) \in Journal!Int64
         /\ \E q \in Int : n = Journal!Wrap(n) + q * (2 * Journal!Half)
<1> DEFINE H == Journal!Half
           M == 2 * H
           x == n + H
<1>1. M \in Nat \ {0} /\ x \in Int /\ H \in Nat \ {0}
  BY HalfIsPositive
<1>w. Journal!Wrap(n) = (x % M) - H /\ Journal!Int64 = -H .. H - 1
  BY DEF Journal!Wrap, Journal!Int64
<1>e. n = x - H /\ M = 2 * H
  BY <1>1
<1> HIDE DEF H, M, x
<1>2. x = M * (x \div M) + (x % M) /\ x % M \in 0 .. M - 1 /\ x \div M \in Int
  BY <1>1
<1>3. (x % M) - H \in -H .. H - 1
  BY <1>1, <1>2, <1>e
<1>4. n = ((x % M) - H) + (x \div M) * M
  BY <1>1, <1>2, <1>e
<1> QED
  BY <1>2, <1>3, <1>4, <1>w DEF M, H

LEMMA WrapIsUnique ==
  ASSUME NEW v \in Journal!Int64, NEW u \in Journal!Int64, NEW p \in Int, NEW q \in Int,
         v + p * (2 * Journal!Half) = u + q * (2 * Journal!Half)
  PROVE  v = u
<1> DEFINE M == 2 * Journal!Half
<1>1. M \in Nat \ {0} /\ v \in Int /\ u \in Int /\ v - u < M /\ u - v < M
  BY HalfIsPositive DEF Journal!Int64
<1>2. v + p * M = u + q * M
  OBVIOUS
<1> HIDE DEF M
<1> DEFINE d == q - p
<1>3. v - u = d * M /\ d \in Int
  BY <1>1, <1>2
<1> HIDE DEF d
<1>4. d >= 1 => d * M >= M
  BY <1>1, <1>3
<1>5. d <= -1 => d * M <= -M
  BY <1>1, <1>3
<1>6. d = 0
  BY <1>1, <1>3, <1>4, <1>5
<1> QED
  BY <1>1, <1>3, <1>6

LEMMA WrapIsIdentity == \A v \in Journal!Int64 : Journal!Wrap(v) = v
<1> TAKE v \in Journal!Int64
<1>1. v \in Int /\ Journal!Half \in Nat
  BY HalfIsPositive DEF Journal!Int64
<1>2. PICK q \in Int : v = Journal!Wrap(v) + q * (2 * Journal!Half)
  BY <1>1, WrapTurns
<1>3. v + 0 * (2 * Journal!Half) = Journal!Wrap(v) + q * (2 * Journal!Half)
  BY <1>1, <1>2
<1>4. Journal!Wrap(v) \in Journal!Int64
  BY <1>1, WrapTurns
<1> QED
  BY <1>3, <1>4, WrapIsUnique

(* It makes no difference when a sum wraps. *)
LEMMA WrapOfSum ==
  ASSUME NEW m \in Int, NEW n \in Int
  PROVE  Journal!Wrap(Journal!Wrap(m) + n) = Journal!Wrap(m + n)
<1> DEFINE M == 2 * Journal!Half
           w == Journal!Wrap(m)
           a == Journal!Wrap(w + n)
           b == Journal!Wrap(m + n)
<1>1. M \in Nat
  BY HalfIsPositive
<1>2. PICK p \in Int : m = w + p * M
  BY WrapTurns
<1>3. w \in Int
  BY WrapTurns, HalfIsPositive DEF Journal!Int64
<1>4. w + n \in Int /\ m + n \in Int
  BY <1>3
<1>5. PICK q \in Int : w + n = a + q * M
  BY <1>4, WrapTurns
<1>6. PICK r \in Int : m + n = b + r * M
  BY <1>4, WrapTurns
<1>7. a \in Journal!Int64 /\ b \in Journal!Int64
  BY <1>4, WrapTurns
<1> HIDE DEF a, b, w, M
<1>8. a \in Int /\ b \in Int
  BY <1>7, HalfIsPositive DEF Journal!Int64
<1>9. a + (q + p) * M = b + r * M
  BY <1>1, <1>2, <1>3, <1>5, <1>6, <1>8
<1> QED
  BY <1>7, <1>9, WrapIsUnique DEF M, a, b, w

-----------------------------------------------------------------------------
(* What sums of money can come to. *)
Errors == {"ErrInvalidAmount", "ErrCurrencyMismatch", "ErrUnknownAccount", "error"}
Answers == Journal!Money \cup {Journal!Failed(e) : e \in Errors}

LEMMA MoneyIsNoError ==
  /\ \A m \in Journal!Money : ~Journal!IsError(m)
  /\ \A e \in Errors : /\ Journal!IsError(Journal!Failed(e)) /\ Journal!Failed(e).err = e
                       /\ Journal!Failed(e) \in Answers
  /\ \A v \in Answers : Journal!IsError(v) => \E e \in Errors : v = Journal!Failed(e)
  /\ \A v \in Answers : ~Journal!IsError(v) => v \in Journal!Money
<1>1. \A m \in Journal!Money : ~Journal!IsError(m)
  BY DEF Journal!Money, Journal!IsError
<1>2. ASSUME NEW e \in Errors
      PROVE  Journal!IsError(Journal!Failed(e)) /\ Journal!Failed(e).err = e
  BY DEF Journal!IsError, Journal!Failed
<1> QED
  BY <1>1, <1>2 DEF Answers

LEMMA MoneyHasParts ==
  ASSUME NEW m \in Journal!Money
  PROVE  /\ m.amount \in Journal!Int64 /\ m.amount \in Int
         /\ m.currency \in Currencies \cup {Journal!NoCurrency}
         /\ m = [amount |-> m.amount, currency |-> m.currency]
<1>1. m.amount \in Journal!Int64 /\ m.currency \in Currencies \cup {Journal!NoCurrency}
  BY DEF Journal!Money
<1>2. m.amount \in Int
  BY <1>1, HalfIsPositive DEF Journal!Int64
<1>3. m = [amount |-> m.amount, currency |-> m.currency]
  BY DEF Journal!Money
<1> QED
  BY <1>1, <1>2, <1>3

LEMMA ZeroIsMoney ==
  \A currency \in Currencies \cup {Journal!NoCurrency} :
    Journal!Zero(currency) \in Journal!Money
  BY HalfIsPositive DEF Journal!Zero, Journal!Money, Journal!Int64

(* Add of two valid amounts of one currency, and of others. *)
LEMMA AddIs ==
  ASSUME NEW m \in Journal!Money, NEW o \in Journal!Money
  PROVE  /\ Journal!Add(m, o) \in Answers
         /\ ~Journal!IsError(Journal!Add(m, o)) =>
               /\ Journal!Valid(m) /\ Journal!Valid(o) /\ m.currency = o.currency
         /\ Journal!Valid(m) /\ Journal!Valid(o) /\ m.currency = o.currency =>
               /\ Journal!Add(m, o) \in Journal!Money
               /\ Journal!Add(m, o).currency = m.currency
               /\ Journal!Add(m, o).amount = Journal!Wrap(m.amount + o.amount)
         /\ Journal!Valid(m) /\ Journal!Valid(o) /\ m.currency # o.currency =>
               Journal!Add(m, o) = Journal!Failed("ErrCurrencyMismatch")
<1>1. CASE Journal!Valid(m) /\ Journal!Valid(o) /\ m.currency = o.currency
  <2> DEFINE n == Journal!Wrap(m.amount + o.amount)
  <2>1. Journal!Add(m, o) = [m EXCEPT !.amount = n]
    BY <1>1 DEF Journal!Add
  <2>2. n \in Journal!Int64
    <3>1. m.amount + o.amount \in Int
      BY MoneyHasParts
    <3> QED
      BY <3>1, WrapTurns
  <2> HIDE DEF n
  <2>3. Journal!Add(m, o) \in Journal!Money /\ Journal!Add(m, o).amount = n
        /\ Journal!Add(m, o).currency = m.currency
    BY <2>1, <2>2 DEF Journal!Money
  <2> QED
    BY <1>1, <2>3 DEF Answers, n
<1>2. CASE ~(Journal!Valid(m) /\ Journal!Valid(o))
  <2>1. Journal!Add(m, o) = Journal!Failed("ErrInvalidAmount")
    BY <1>2 DEF Journal!Add
  <2>2. "ErrInvalidAmount" \in Errors
    BY DEF Errors
  <2> QED
    BY <1>2, <2>1, <2>2, MoneyIsNoError
<1>3. CASE Journal!Valid(m) /\ Journal!Valid(o) /\ m.currency # o.currency
  <2>1. Journal!Add(m, o) = Journal!Failed("ErrCurrencyMismatch")
    BY <1>3 DEF Journal!Add
  <2>2. "ErrCurrencyMismatch" \in Errors
    BY DEF Errors
  <2> QED
    BY <1>3, <2>1, <2>2, MoneyIsNoError
<1> QED
  BY <1>1, <1>2, <1>3

LEMMA PlusIs ==
  ASSUME NEW v \in Answers, NEW m \in Journal!Money
  PROVE  /\ Journal!Plus(v, m) \in Answers
         /\ Journal!IsError(v) => Journal!Plus(v, m) = v
         /\ ~Journal!IsError(v) => v \in Journal!Money /\ Journal!Plus(v, m) = Journal!Add(v, m)
  BY AddIs, MoneyIsNoError DEF Journal!Plus

LEMMA LineHasParts ==
  ASSUME NEW l \in Journal!Line
  PROVE  l.amount \in Journal!Money /\ l.account \in Names \cup {Journal!NoAccount}
  BY DEF Journal!Line

(* The steps of Post's loop, of Total's and of Balance's. *)
LEMMA StepsAnswer ==
  ASSUME NEW v \in Answers, NEW l \in Journal!Line
  PROVE  /\ Journal!AddLine(v, l) \in Answers
         /\ \A currency : Journal!ToTotal(currency, v, l) \in Answers
         /\ \A account : Journal!ToBalance(account, v, l) \in Answers
<1>1. l.amount \in Journal!Money /\ Journal!Plus(v, l.amount) \in Answers /\ l.amount \in Answers
  BY LineHasParts, PlusIs DEF Answers
<1>2. Journal!Failed("error") \in Answers
  BY MoneyIsNoError DEF Errors
<1>3. Journal!AddLine(v, l) \in Answers
  BY <1>1, <1>2 DEF Journal!AddLine
<1>4. ASSUME NEW currency PROVE Journal!ToTotal(currency, v, l) \in Answers
  BY <1>1 DEF Journal!ToTotal
<1>5. ASSUME NEW account PROVE Journal!ToBalance(account, v, l) \in Answers
  BY <1>1 DEF Journal!ToBalance
<1> QED
  BY <1>3, <1>4, <1>5

-----------------------------------------------------------------------------
(* The folds over lines, as functions of a line and of the value so far. *)
adding == [l \in Journal!Line |-> [v \in Answers |-> Journal!AddLine(v, l)]]
totalling(currency) ==
    [l \in Journal!Line |-> [v \in Answers |-> Journal!ToTotal(currency, v, l)]]
balancing(account) ==
    [l \in Journal!Line |-> [v \in Answers |-> Journal!ToBalance(account, v, l)]]

(* Along lines such a function goes from answer to answer. *)
Answering(f) == \A l \in Journal!Line : \A v \in Answers : f[l][v] \in Answers

LEMMA AlongLines ==
  ASSUME NEW f, Answering(f),
         NEW s \in Seq(Journal!Line)
  PROVE  /\ Len(s) \in Nat /\ DOMAIN s = 1 .. Len(s)
         /\ \A k \in 1 .. Len(s) : s[k] \in Journal!Line /\ Along(f, s)[k] = f[s[k]]
         /\ KeepTo(Answers, Along(f, s), Len(s))
<1>1. Len(s) \in Nat /\ DOMAIN s = 1 .. Len(s) /\ \A k \in 1 .. Len(s) : s[k] \in Journal!Line
  OBVIOUS
<1>2. \A k \in 1 .. Len(s) : Along(f, s)[k] = f[s[k]]
  BY DEF Along
<1> QED
  BY <1>1, <1>2 DEF KeepTo, Answering

LEMMA AddingFolds ==
  ASSUME NEW s \in Seq(Journal!Line), NEW base \in Answers
  PROVE  Journal!FoldLeft(Journal!AddLine, base, s) = FoldOf(base, Along(adding, s), Len(s))
<1> DEFINE S == DOMAIN s
           Fits(h) == h = [t \in SUBSET S |->
                            IF t = {} THEN base
                            ELSE Journal!AddLine(h[t \ {Max(t)}], s[Max(t)])]
           H == CHOOSE h : Fits(h)
           n == Len(s)
           step == Along(adding, s)
<1>1. \A l \in Journal!Line : \A v \in Answers :
        adding[l][v] = Journal!AddLine(v, l)
  BY DEF adding
<1>a. Answering(adding)
  BY StepsAnswer DEF adding, Answering
<1>2. /\ n \in Nat /\ S = 1 .. n /\ KeepTo(Answers, step, n)
      /\ \A k \in 1 .. n : s[k] \in Journal!Line /\ step[k] = adding[s[k]]
  BY <1>a, AlongLines
<1>s. \A k \in 1 .. n : \A v \in Answers : step[k][v] = Journal!AddLine(v, s[k])
  BY <1>1, <1>2
<1>3. Journal!FoldLeft(Journal!AddLine, base, s) = H[S]
  BY DEF Journal!FoldLeft, Journal!MapThenFoldSet, Journal!Max, Max
<1> HIDE DEF step, n
<1>4. \E h : Fits(h)
  <2>1. PICK h : IsFoldOf(h, base, step, 1 .. n) /\ \A t \in SUBSET (1 .. n) : h[t] \in Answers
    BY <1>2, FoldOfValues
  <2>2. ASSUME NEW t \in SUBSET S, t # {}
        PROVE  h[t] = Journal!AddLine(h[t \ {Max(t)}], s[Max(t)])
    <3>1. Max(t) \in 1 .. n /\ t \in SUBSET (1 .. n) /\ t \ {Max(t)} \in SUBSET (1 .. n)
      BY <1>2, <2>2, LastPosition
    <3>2. h[t] = step[Max(t)][h[t \ {Max(t)}]] /\ h[t \ {Max(t)}] \in Answers
      BY <2>1, <2>2, <3>1 DEF IsFoldOf
    <3> QED
      BY <1>s, <3>1, <3>2
  <2>3. h = [t \in SUBSET S |-> h[t]] /\ h[{}] = base
    BY <1>2, <2>1 DEF IsFoldOf
  <2> HIDE DEF S
  <2>4. Fits(h)
    BY <2>2, <2>3
  <2> QED
    BY <2>4
<1>5. Fits(H)
  <2> HIDE DEF Fits
  <2> QED
    BY <1>4, Zenon
<1>6. H[1 .. n] = FoldOf(base, step, n)
  <2> HIDE DEF H
  <2>1. H[{}] = base
    BY <1>5
  <2>2. ASSUME NEW t \in SUBSET (1 .. n), t # {}, H[t \ {Max(t)}] \in Answers
        PROVE  H[t] = step[Max(t)][H[t \ {Max(t)}]]
    <3>1. Max(t) \in 1 .. n
      BY <1>2, <2>2, LastPosition
    <3>2. H[t] = Journal!AddLine(H[t \ {Max(t)}], s[Max(t)])
      BY <1>2, <1>5, <2>2
    <3> QED
      BY <1>s, <2>2, <3>1, <3>2
  <2>3. RecursLike(H, Answers, base, step, n)
    BY <2>1, <2>2 DEF RecursLike
  <2> HIDE DEF Fits
  <2> QED
    BY <1>2, <2>3, FoldLike
<1> QED
  BY <1>2, <1>3, <1>6 DEF step, n

LEMMA TotallingFolds ==
  ASSUME NEW currency, NEW s \in Seq(Journal!Line), NEW base \in Answers
  PROVE  Journal!FoldLeft(LAMBDA v, l : Journal!ToTotal(currency, v, l), base, s)
            = FoldOf(base, Along(totalling(currency), s), Len(s))
<1> DEFINE S == DOMAIN s
           Fits(h) == h = [t \in SUBSET S |->
                            IF t = {} THEN base
                            ELSE Journal!ToTotal(currency, h[t \ {Max(t)}], s[Max(t)])]
           H == CHOOSE h : Fits(h)
           n == Len(s)
           step == Along(totalling(currency), s)
<1>1. \A l \in Journal!Line : \A v \in Answers :
        totalling(currency)[l][v] = Journal!ToTotal(currency, v, l)
  BY DEF totalling
<1>a. Answering(totalling(currency))
  BY StepsAnswer DEF totalling, Answering
<1>2. /\ n \in Nat /\ S = 1 .. n /\ KeepTo(Answers, step, n)
      /\ \A k \in 1 .. n : s[k] \in Journal!Line /\ step[k] = totalling(currency)[s[k]]
  BY <1>a, AlongLines
<1>s. \A k \in 1 .. n : \A v \in Answers : step[k][v] = Journal!ToTotal(currency, v, s[k])
  BY <1>1, <1>2
<1>3. Journal!FoldLeft(LAMBDA v, l : Journal!ToTotal(currency, v, l), base, s) = H[S]
  BY DEF Journal!FoldLeft, Journal!MapThenFoldSet, Journal!Max, Max
<1> HIDE DEF step, n
<1>4. \E h : Fits(h)
  <2>1. PICK h : IsFoldOf(h, base, step, 1 .. n) /\ \A t \in SUBSET (1 .. n) : h[t] \in Answers
    BY <1>2, FoldOfValues
  <2>2. ASSUME NEW t \in SUBSET S, t # {}
        PROVE  h[t] = Journal!ToTotal(currency, h[t \ {Max(t)}], s[Max(t)])
    <3>1. Max(t) \in 1 .. n /\ t \in SUBSET (1 .. n) /\ t \ {Max(t)} \in SUBSET (1 .. n)
      BY <1>2, <2>2, LastPosition
    <3>2. h[t] = step[Max(t)][h[t \ {Max(t)}]] /\ h[t \ {Max(t)}] \in Answers
      BY <2>1, <2>2, <3>1 DEF IsFoldOf
    <3> QED
      BY <1>s, <3>1, <3>2
  <2>3. h = [t \in SUBSET S |-> h[t]] /\ h[{}] = base
    BY <1>2, <2>1 DEF IsFoldOf
  <2> HIDE DEF S
  <2>4. Fits(h)
    BY <2>2, <2>3
  <2> QED
    BY <2>4
<1>5. Fits(H)
  <2> HIDE DEF Fits
  <2> QED
    BY <1>4, Zenon
<1>6. H[1 .. n] = FoldOf(base, step, n)
  <2> HIDE DEF H
  <2>1. H[{}] = base
    BY <1>5
  <2>2. ASSUME NEW t \in SUBSET (1 .. n), t # {}, H[t \ {Max(t)}] \in Answers
        PROVE  H[t] = step[Max(t)][H[t \ {Max(t)}]]
    <3>1. Max(t) \in 1 .. n
      BY <1>2, <2>2, LastPosition
    <3>2. H[t] = Journal!ToTotal(currency, H[t \ {Max(t)}], s[Max(t)])
      BY <1>2, <1>5, <2>2
    <3> QED
      BY <1>s, <2>2, <3>1, <3>2
  <2>3. RecursLike(H, Answers, base, step, n)
    BY <2>1, <2>2 DEF RecursLike
  <2> HIDE DEF Fits
  <2> QED
    BY <1>2, <2>3, FoldLike
<1> QED
  BY <1>2, <1>3, <1>6 DEF step, n

LEMMA BalancingFolds ==
  ASSUME NEW account, NEW s \in Seq(Journal!Line), NEW base \in Answers
  PROVE  Journal!FoldLeft(LAMBDA v, l : Journal!ToBalance(account, v, l), base, s)
            = FoldOf(base, Along(balancing(account), s), Len(s))
<1> DEFINE S == DOMAIN s
           Fits(h) == h = [t \in SUBSET S |->
                            IF t = {} THEN base
                            ELSE Journal!ToBalance(account, h[t \ {Max(t)}], s[Max(t)])]
           H == CHOOSE h : Fits(h)
           n == Len(s)
           step == Along(balancing(account), s)
<1>1. \A l \in Journal!Line : \A v \in Answers :
        balancing(account)[l][v] = Journal!ToBalance(account, v, l)
  BY DEF balancing
<1>a. Answering(balancing(account))
  BY StepsAnswer DEF balancing, Answering
<1>2. /\ n \in Nat /\ S = 1 .. n /\ KeepTo(Answers, step, n)
      /\ \A k \in 1 .. n : s[k] \in Journal!Line /\ step[k] = balancing(account)[s[k]]
  BY <1>a, AlongLines
<1>s. \A k \in 1 .. n : \A v \in Answers : step[k][v] = Journal!ToBalance(account, v, s[k])
  BY <1>1, <1>2
<1>3. Journal!FoldLeft(LAMBDA v, l : Journal!ToBalance(account, v, l), base, s) = H[S]
  BY DEF Journal!FoldLeft, Journal!MapThenFoldSet, Journal!Max, Max
<1> HIDE DEF step, n
<1>4. \E h : Fits(h)
  <2>1. PICK h : IsFoldOf(h, base, step, 1 .. n) /\ \A t \in SUBSET (1 .. n) : h[t] \in Answers
    BY <1>2, FoldOfValues
  <2>2. ASSUME NEW t \in SUBSET S, t # {}
        PROVE  h[t] = Journal!ToBalance(account, h[t \ {Max(t)}], s[Max(t)])
    <3>1. Max(t) \in 1 .. n /\ t \in SUBSET (1 .. n) /\ t \ {Max(t)} \in SUBSET (1 .. n)
      BY <1>2, <2>2, LastPosition
    <3>2. h[t] = step[Max(t)][h[t \ {Max(t)}]] /\ h[t \ {Max(t)}] \in Answers
      BY <2>1, <2>2, <3>1 DEF IsFoldOf
    <3> QED
      BY <1>s, <3>1, <3>2
  <2>3. h = [t \in SUBSET S |-> h[t]] /\ h[{}] = base
    BY <1>2, <2>1 DEF IsFoldOf
  <2> HIDE DEF S
  <2>4. Fits(h)
    BY <2>2, <2>3
  <2> QED
    BY <2>4
<1>5. Fits(H)
  <2> HIDE DEF Fits
  <2> QED
    BY <1>4, Zenon
<1>6. H[1 .. n] = FoldOf(base, step, n)
  <2> HIDE DEF H
  <2>1. H[{}] = base
    BY <1>5
  <2>2. ASSUME NEW t \in SUBSET (1 .. n), t # {}, H[t \ {Max(t)}] \in Answers
        PROVE  H[t] = step[Max(t)][H[t \ {Max(t)}]]
    <3>1. Max(t) \in 1 .. n
      BY <1>2, <2>2, LastPosition
    <3>2. H[t] = Journal!ToBalance(account, H[t \ {Max(t)}], s[Max(t)])
      BY <1>2, <1>5, <2>2
    <3> QED
      BY <1>s, <2>2, <3>1, <3>2
  <2>3. RecursLike(H, Answers, base, step, n)
    BY <2>1, <2>2 DEF RecursLike
  <2> HIDE DEF Fits
  <2> QED
    BY <1>2, <2>3, FoldLike
<1> QED
  BY <1>2, <1>3, <1>6 DEF step, n

-----------------------------------------------------------------------------
(* Totals and balances after k lines. *)
Mismatch == Journal!Failed("ErrCurrencyMismatch")
TotalAfter(currency, s, k) == FoldOf(Journal!Zero(currency), Along(totalling(currency), s), k)
BalanceAfter(account, s, k) == FoldOf(Journal!Unknown, Along(balancing(account), s), k)

(* Lines of known accounts with amounts in known currencies. *)
SoundLine == {l \in Journal!Line : l.account \in Names /\ l.amount.currency \in Currencies}

LEMMA SoundLinesAreLines == \A s \in Seq(SoundLine) : s \in Seq(Journal!Line)
  BY DEF SoundLine

LEMMA AnsweringSteps ==
  \A currency, account : Answering(totalling(currency)) /\ Answering(balancing(account))
  BY StepsAnswer DEF totalling, balancing, Answering

LEMMA UnknownIsAnswer ==
  /\ Journal!Unknown \in Answers /\ Journal!IsError(Journal!Unknown)
  /\ Mismatch \in Answers /\ Journal!IsError(Mismatch) /\ Journal!Unknown # Mismatch
<1>1. "ErrUnknownAccount" \in Errors /\ "ErrCurrencyMismatch" \in Errors
  BY DEF Errors
<1>2. Journal!Unknown.err # Mismatch.err
  BY <1>1, MoneyIsNoError DEF Journal!Unknown, Mismatch
<1> QED
  BY <1>1, <1>2, MoneyIsNoError DEF Journal!Unknown, Mismatch

(* A fold along lines, step by step. *)
LEMMA AlongSteps ==
  ASSUME NEW s \in Seq(Journal!Line), NEW f, Answering(f), NEW base \in Answers
  PROVE  /\ FoldOf(base, Along(f, s), 0) = base
         /\ \A k \in 1 .. Len(s) :
              FoldOf(base, Along(f, s), k) = f[s[k]][FoldOf(base, Along(f, s), k - 1)]
         /\ \A k \in 1 .. Len(s) :
              s[k] \in Journal!Line /\ FoldOf(base, Along(f, s), k - 1) \in Answers
         /\ \A k \in 0 .. Len(s) : FoldOf(base, Along(f, s), k) \in Answers
<1> DEFINE step == Along(f, s)
<1>1. /\ Len(s) \in Nat /\ KeepTo(Answers, step, Len(s))
      /\ \A k \in 1 .. Len(s) : s[k] \in Journal!Line /\ step[k] = f[s[k]]
  BY AlongLines
<1> HIDE DEF step
<1>2. FoldOf(base, step, 0) = base
  BY FoldOfSteps
<1>3. ASSUME NEW k \in 0 .. Len(s) PROVE FoldOf(base, step, k) \in Answers
  <2>1. k \in Nat /\ KeepTo(Answers, step, k)
    BY <1>1 DEF KeepTo
  <2> QED
    BY <2>1, FoldOfStaysIn
<1>4. ASSUME NEW k \in 1 .. Len(s)
      PROVE  FoldOf(base, step, k) = f[s[k]][FoldOf(base, step, k - 1)] /\ k - 1 \in 0 .. Len(s)
  <2>1. k \in Nat /\ k # 0 /\ k - 1 \in 0 .. Len(s)
    BY <1>1
  <2> QED
    BY <1>1, <2>1, FoldOfSteps
<1> QED
  BY <1>1, <1>2, <1>3, <1>4 DEF step

LEMMA TotalAfterSteps ==
  ASSUME NEW s \in Seq(Journal!Line), NEW currency \in Currencies
  PROVE  /\ TotalAfter(currency, s, 0) = Journal!Zero(currency)
         /\ \A k \in 1 .. Len(s) :
              TotalAfter(currency, s, k)
                = Journal!ToTotal(currency, TotalAfter(currency, s, k - 1), s[k])
         /\ \A k \in 0 .. Len(s) : TotalAfter(currency, s, k) \in Answers
<1>1. Answering(totalling(currency)) /\ Journal!Zero(currency) \in Answers
  BY AnsweringSteps, ZeroIsMoney DEF Answers
<1> QED
  BY <1>1, AlongSteps DEF TotalAfter, totalling

LEMMA BalanceAfterSteps ==
  ASSUME NEW s \in Seq(Journal!Line), NEW account
  PROVE  /\ BalanceAfter(account, s, 0) = Journal!Unknown
         /\ \A k \in 1 .. Len(s) :
              BalanceAfter(account, s, k)
                = Journal!ToBalance(account, BalanceAfter(account, s, k - 1), s[k])
         /\ \A k \in 0 .. Len(s) : BalanceAfter(account, s, k) \in Answers
<1>1. Answering(balancing(account)) /\ Journal!Unknown \in Answers
  BY AnsweringSteps, UnknownIsAnswer
<1> QED
  BY <1>1, AlongSteps DEF BalanceAfter, balancing

(* A total stays in its currency. *)
LEMMA TotalHasCurrency ==
  ASSUME NEW s \in Seq(SoundLine), NEW currency \in Currencies, NEW k \in 0 .. Len(s)
  PROVE  TotalAfter(currency, s, k) \in Journal!Money
         /\ TotalAfter(currency, s, k).currency = currency
<1> DEFINE t(j) == TotalAfter(currency, s, j)
           A == {j \in 0 .. Len(s) : t(j) \in Journal!Money /\ t(j).currency = currency}
<1>0. s \in Seq(Journal!Line) /\ Len(s) \in Nat
  BY SoundLinesAreLines
<1>1. 0 \in A
  <2>1. t(0) = Journal!Zero(currency)
    BY <1>0, TotalAfterSteps
  <2> QED
    BY <1>0, <2>1, ZeroIsMoney DEF Journal!Zero
<1>2. ASSUME NEW j \in 1 .. Len(s), j - 1 \in A
      PROVE  j \in A
  <2> DEFINE l == s[j]
             old == t(j - 1)
  <2>1. t(j) = Journal!ToTotal(currency, old, l)
    BY <1>0, TotalAfterSteps
  <2>2. old \in Journal!Money /\ old.currency = currency /\ j \in 0 .. Len(s)
    BY <1>2
  <2>3. l \in SoundLine /\ l \in Journal!Line /\ l.amount \in Journal!Money
    BY LineHasParts DEF SoundLine
  <2> HIDE DEF t, l
  <2> SUFFICES t(j) \in Journal!Money /\ t(j).currency = currency
    BY <2>2
  <2> HIDE DEF old
  <2>4. CASE l.amount.currency # currency
    BY <2>1, <2>2, <2>4 DEF Journal!ToTotal
  <2>5. CASE l.amount.currency = currency
    <3>1. Journal!Valid(old) /\ Journal!Valid(l.amount)
      BY <2>2, <2>5, LedgerAssumption DEF Journal!Valid, Journal!LedgerConstants
    <3>2. Journal!Plus(old, l.amount) = Journal!Add(old, l.amount)
      BY <2>2, MoneyIsNoError DEF Journal!Plus
    <3>3. Journal!Add(old, l.amount) \in Journal!Money
          /\ Journal!Add(old, l.amount).currency = currency
      BY <2>2, <2>3, <2>5, <3>1, AddIs
    <3> QED
      BY <2>1, <2>5, <3>2, <3>3 DEF Journal!ToTotal
  <2> QED
    BY <2>4, <2>5
<1>3. \A j \in 0 .. Len(s) : j \in A
  <2> HIDE DEF A
  <2> QED
    BY <1>0, <1>1, <1>2, UpTo
<1> QED
  BY <1>3

(* What a balance of sound lines can be. *)
Balances ==
    {m \in Journal!Money : m.currency \in Currencies} \cup {Journal!Unknown, Mismatch}

LEMMA ShareIs ==
  ASSUME NEW b \in Balances, NEW currency \in Currencies
  PROVE  /\ Journal!Share(b, currency) \in Journal!Int64 /\ Journal!Share(b, currency) \in Int
         /\ b \in {Journal!Unknown, Mismatch} => Journal!Share(b, currency) = 0
         /\ b \notin {Journal!Unknown, Mismatch} =>
               Journal!Share(b, currency) = IF b.currency = currency THEN b.amount ELSE 0
<1>1. CASE b \in {Journal!Unknown, Mismatch}
  BY <1>1, UnknownIsAnswer, HalfIsPositive DEF Journal!Share, Journal!Int64
<1>2. CASE b \notin {Journal!Unknown, Mismatch}
  <2>1. b \in Journal!Money
    BY <1>2 DEF Balances
  <2>2. Journal!Share(b, currency) = IF b.currency = currency THEN b.amount ELSE 0
    BY <2>1, MoneyIsNoError DEF Journal!Share
  <2>3. b.amount \in Journal!Int64 /\ b.amount \in Int
    BY <2>1, MoneyHasParts
  <2> QED
    BY <1>2, <2>2, <2>3, HalfIsPositive DEF Journal!Int64
<1> QED
  BY <1>1, <1>2

(* One more line: a balance that mixes currencies is lost, any other takes *)
(* the line's amount if it is one of the account's.                        *)
LEMMA BalanceStep ==
  ASSUME NEW b \in Balances, NEW l \in SoundLine, NEW account
  PROVE  /\ Journal!ToBalance(account, b, l) \in Balances
         /\ b = Mismatch => Journal!ToBalance(account, b, l) = Mismatch
         /\ Journal!ToBalance(account, b, l) # Mismatch =>
              \A currency \in Currencies :
                Journal!Share(Journal!ToBalance(account, b, l), currency)
                  = IF l.account = account /\ l.amount.currency = currency
                    THEN Journal!Wrap(Journal!Share(b, currency) + l.amount.amount)
                    ELSE Journal!Share(b, currency)
<1> DEFINE m == l.amount
           n == Journal!ToBalance(account, b, l)
<1>1. /\ m \in Journal!Money /\ m.currency \in Currencies /\ m \in Balances
      /\ Journal!Valid(m) /\ m \notin {Journal!Unknown, Mismatch}
  <2>1. m \in Journal!Money /\ m.currency \in Currencies
    BY LineHasParts DEF SoundLine
  <2>2. Journal!Valid(m)
    BY <2>1, LedgerAssumption DEF Journal!Valid, Journal!LedgerConstants
  <2> QED
    BY <2>1, <2>2, MoneyIsNoError, UnknownIsAnswer DEF Balances
<1> SUFFICES /\ n \in Balances /\ (b = Mismatch => n = Mismatch)
             /\ \A currency \in Currencies : n # Mismatch =>
                  Journal!Share(n, currency)
                    = IF l.account = account /\ m.currency = currency
                      THEN Journal!Wrap(Journal!Share(b, currency) + m.amount)
                      ELSE Journal!Share(b, currency)
  OBVIOUS
<1>2. CASE l.account # account
  BY <1>2 DEF Journal!ToBalance
<1>3. CASE l.account = account /\ b = Journal!Unknown
  <2>1. n = m
    BY <1>3 DEF Journal!ToBalance
  <2>2. ASSUME NEW currency \in Currencies
        PROVE  Journal!Share(n, currency)
                 = IF m.currency = currency
                   THEN Journal!Wrap(Journal!Share(b, currency) + m.amount)
                   ELSE Journal!Share(b, currency)
    <3>1. Journal!Share(b, currency) = 0
      BY <1>3, ShareIs
    <3>2. Journal!Share(m, currency) = IF m.currency = currency THEN m.amount ELSE 0
      BY <1>1, ShareIs
    <3>3. Journal!Wrap(0 + m.amount) = m.amount
      <4>1. m.amount \in Journal!Int64 /\ m.amount \in Int
        BY <1>1, MoneyHasParts
      <4>2. 0 + m.amount = m.amount
        BY <4>1
      <4> QED
        BY <4>1, <4>2, WrapIsIdentity
    <3> HIDE DEF n, m
    <3> QED
      BY <2>1, <3>1, <3>2, <3>3
  <2> QED
    BY <1>1, <1>3, <2>1, <2>2, UnknownIsAnswer
<1>4. CASE l.account = account /\ b = Mismatch
  <2>1. n = Mismatch
    BY <1>1, <1>4, UnknownIsAnswer, PlusIs DEF Journal!ToBalance
  <2> QED
    BY <1>4, <2>1
<1>5. CASE l.account = account /\ b \notin {Journal!Unknown, Mismatch}
  <2>1. b \in Journal!Money /\ b.currency \in Currencies /\ b \in Answers /\ Journal!Valid(b)
    BY <1>5, LedgerAssumption DEF Balances, Answers, Journal!Valid, Journal!LedgerConstants
  <2>2. n = Journal!Add(b, m)
    BY <1>1, <1>5, <2>1, MoneyIsNoError, PlusIs DEF Journal!ToBalance
  <2>3. CASE b.currency # m.currency
    <3>1. n = Mismatch
      BY <1>1, <2>1, <2>2, <2>3, AddIs DEF Mismatch
    <3> QED
      BY <1>5, <3>1 DEF Balances
  <2>4. CASE b.currency = m.currency
    <3>1. /\ n \in Journal!Money /\ n.currency = m.currency
          /\ n.amount = Journal!Wrap(b.amount + m.amount)
      BY <1>1, <2>1, <2>2, <2>4, AddIs
    <3> HIDE DEF n
    <3>2. n \in Balances /\ n \notin {Journal!Unknown, Mismatch}
      BY <1>1, <3>1, MoneyIsNoError, UnknownIsAnswer DEF Balances
    <3>3. ASSUME NEW currency \in Currencies
          PROVE  Journal!Share(n, currency)
                   = IF m.currency = currency
                     THEN Journal!Wrap(Journal!Share(b, currency) + m.amount)
                     ELSE Journal!Share(b, currency)
      <4>1. Journal!Share(n, currency) = IF n.currency = currency THEN n.amount ELSE 0
        BY <3>2, ShareIs
      <4>2. Journal!Share(b, currency) = IF b.currency = currency THEN b.amount ELSE 0
        BY <1>5, ShareIs
      <4> QED
        BY <2>4, <3>1, <4>1, <4>2
    <3> QED
      BY <1>5, <3>2, <3>3
  <2> QED
    BY <2>3, <2>4
<1> QED
  BY <1>2, <1>3, <1>4, <1>5

LEMMA BalanceAfterIs ==
  ASSUME NEW s \in Seq(SoundLine), NEW account, NEW k \in 0 .. Len(s)
  PROVE  BalanceAfter(account, s, k) \in Balances
<1> DEFINE b(j) == BalanceAfter(account, s, j)
           A == {j \in 0 .. Len(s) : b(j) \in Balances}
<1>0. s \in Seq(Journal!Line) /\ Len(s) \in Nat
  BY SoundLinesAreLines
<1>1. 0 \in A
  <2>1. b(0) = Journal!Unknown
    BY <1>0, BalanceAfterSteps
  <2> QED
    BY <1>0, <2>1 DEF Balances
<1>2. ASSUME NEW j \in 1 .. Len(s), j - 1 \in A
      PROVE  j \in A
  <2>1. b(j) = Journal!ToBalance(account, b(j - 1), s[j])
    BY <1>0, BalanceAfterSteps
  <2>2. b(j - 1) \in Balances /\ j \in 0 .. Len(s) /\ s[j] \in SoundLine
    BY <1>2
  <2> HIDE DEF b
  <2> QED
    BY <2>1, <2>2, BalanceStep
<1>3. \A j \in 0 .. Len(s) : j \in A
  <2> HIDE DEF A
  <2> QED
    BY <1>0, <1>1, <1>2, UpTo
<1> QED
  BY <1>3

(* After k lines: an account mixes currencies, and what accounts have. *)
Mixed(s, k) == \E a \in Names : BalanceAfter(a, s, k) = Mismatch
SharesAfter(currency, s, k) ==
    [a \in Names |-> Journal!Share(BalanceAfter(a, s, k), currency)]

LEMMA NamesAreFinite == IsFiniteSet(Names)
  BY LedgerAssumption DEF Journal!LedgerConstants, Journal!IsFiniteSet, IsFiniteSet

(* A line moves the sum of the shares by as much as the share it is for. *)
LEMMA SumMoves ==
  ASSUME NEW f, NEW g, NEW a \in Names, NEW x \in Int,
         \A c \in Names : f[c] \in Int /\ g[c] \in Int,
         \A c \in Names : c # a => g[c] = f[c],
         g[a] = Journal!Wrap(f[a] + x)
  PROVE  Journal!Wrap(Total(g, Names)) = Journal!Wrap(Journal!Wrap(Total(f, Names)) + x)
<1> DEFINE rest == Total(f, Names \ {a})
<1>1. IsFiniteSet(Names) /\ IsFiniteSet(Names \ {a})
  BY NamesAreFinite, FS_Subset
<1>2. Total(f, Names) = f[a] + rest
  BY <1>1, TotalWithout
<1>3. Total(g, Names) = g[a] + Total(g, Names \ {a})
  BY <1>1, TotalWithout
<1>4. Total(g, Names \ {a}) = rest
  BY <1>1, TotalAgrees
<1>5. rest \in Int
  BY <1>1, TotalIsInteger
<1> HIDE DEF rest
<1>6. /\ f[a] \in Int /\ f[a] + x \in Int
      /\ Total(f, Names) \in Int /\ (f[a] + x) + rest = Total(f, Names) + x
  BY <1>2, <1>5
<1>7. Journal!Wrap(Total(g, Names)) = Journal!Wrap((f[a] + x) + rest)
  <2> DEFINE y == f[a] + x
  <2>1. Total(g, Names) = Journal!Wrap(y) + rest
    BY <1>3, <1>4
  <2>2. y \in Int
    BY <1>6
  <2> HIDE DEF y
  <2>3. Journal!Wrap(Journal!Wrap(y) + rest) = Journal!Wrap(y + rest)
    BY <1>5, <2>2, WrapOfSum
  <2> QED
    BY <2>1, <2>3 DEF y
<1> QED
  BY <1>6, <1>7, WrapOfSum

(* Whatever lines there are: unless an account mixes currencies, the       *)
(* balances of the accounts add up to the total of the lines.              *)
LEMMA SharesAddUp ==
  ASSUME NEW s \in Seq(SoundLine), NEW currency \in Currencies, NEW k \in 0 .. Len(s)
  PROVE  \/ Mixed(s, k)
         \/ Journal!Wrap(Total(SharesAfter(currency, s, k), Names))
              = TotalAfter(currency, s, k).amount
<1> DEFINE b(a, j) == BalanceAfter(a, s, j)
           t(j) == TotalAfter(currency, s, j)
           f(j) == SharesAfter(currency, s, j)
           A == {j \in 0 .. Len(s) :
                    Mixed(s, j) \/ Journal!Wrap(Total(f(j), Names)) = t(j).amount}
<1>0. s \in Seq(Journal!Line) /\ Len(s) \in Nat
  BY SoundLinesAreLines
<1>1. 0 \in A
  <2>1. t(0) = Journal!Zero(currency) /\ \A a \in Names : b(a, 0) = Journal!Unknown
    BY <1>0, TotalAfterSteps, BalanceAfterSteps
  <2>2. \A a \in Names : f(0)[a] = 0
    BY <2>1, ShareIs DEF SharesAfter, Balances
  <2>3. Total(f(0), Names) = 0
    BY <2>2, NamesAreFinite, TotalOfZeros
  <2>4. t(0).amount = 0
    BY <2>1 DEF Journal!Zero
  <2>5. Journal!Wrap(0) = 0
    BY WrapIsIdentity, HalfIsPositive DEF Journal!Int64
  <2> QED
    BY <1>0, <2>3, <2>4, <2>5
<1>2. ASSUME NEW j \in 1 .. Len(s), j - 1 \in A
      PROVE  j \in A
  <2> DEFINE l == s[j]
             m == l.amount
  <2>0. j \in 0 .. Len(s) /\ j - 1 \in 0 .. Len(s) /\ l \in SoundLine
    OBVIOUS
  <2> SUFFICES ASSUME ~Mixed(s, j)
               PROVE  Journal!Wrap(Total(f(j), Names)) = t(j).amount
    BY <2>0
  <2>1. l.account \in Names /\ m \in Journal!Money /\ m.currency \in Currencies
        /\ m.amount \in Int /\ m.amount \in Journal!Int64
    BY <2>0, LineHasParts, MoneyHasParts DEF SoundLine
  <2>2. ASSUME NEW a \in Names
        PROVE  /\ b(a, j) \in Balances /\ b(a, j - 1) \in Balances
               /\ b(a, j) # Mismatch /\ b(a, j - 1) # Mismatch
               /\ f(j - 1)[a] \in Int /\ f(j)[a] \in Int /\ f(j - 1)[a] \in Journal!Int64
               /\ f(j)[a] = IF l.account = a /\ m.currency = currency
                            THEN Journal!Wrap(f(j - 1)[a] + m.amount)
                            ELSE f(j - 1)[a]
    <3>1. b(a, j) \in Balances /\ b(a, j - 1) \in Balances
      BY <2>0, BalanceAfterIs
    <3>2. b(a, j) = Journal!ToBalance(a, b(a, j - 1), l)
      BY <1>0, BalanceAfterSteps
    <3>3. b(a, j) # Mismatch
      BY DEF Mixed
    <3>4. f(j)[a] = Journal!Share(b(a, j), currency)
          /\ f(j - 1)[a] = Journal!Share(b(a, j - 1), currency)
      BY DEF SharesAfter
    <3> HIDE DEF b, f, l
    <3>5. /\ b(a, j - 1) # Mismatch
          /\ Journal!Share(b(a, j), currency)
               = IF l.account = a /\ m.currency = currency
                 THEN Journal!Wrap(Journal!Share(b(a, j - 1), currency) + m.amount)
                 ELSE Journal!Share(b(a, j - 1), currency)
      BY <2>0, <3>1, <3>2, <3>3, BalanceStep
    <3> QED
      BY <3>1, <3>3, <3>4, <3>5, ShareIs
  <2>3. Journal!Wrap(Total(f(j - 1), Names)) = t(j - 1).amount
    <3>1. ~Mixed(s, j - 1)
      BY <2>2 DEF Mixed
    <3> QED
      BY <1>2, <3>1
  <2>4. t(j) = Journal!ToTotal(currency, t(j - 1), l)
    BY <1>0, TotalAfterSteps
  <2>5. t(j - 1) \in Journal!Money /\ t(j - 1).currency = currency
    BY <2>0, TotalHasCurrency
  <2> HIDE DEF b, f, t, l
  <2>6. CASE m.currency # currency
    <3>1. t(j) = t(j - 1)
      BY <2>4, <2>6 DEF Journal!ToTotal
    <3>2. Total(f(j), Names) = Total(f(j - 1), Names)
      BY <2>2, <2>6, NamesAreFinite, TotalAgrees
    <3> QED
      BY <2>3, <3>1, <3>2
  <2>7. CASE m.currency = currency
    <3>1. Journal!Valid(t(j - 1)) /\ Journal!Valid(m)
      BY <2>5, <2>7, LedgerAssumption DEF Journal!Valid, Journal!LedgerConstants
    <3>2. t(j) = Journal!Add(t(j - 1), m)
      BY <2>4, <2>5, <2>7, MoneyIsNoError DEF Journal!ToTotal, Journal!Plus
    <3>3. t(j).amount = Journal!Wrap(t(j - 1).amount + m.amount)
      BY <2>1, <2>5, <2>7, <3>1, <3>2, AddIs
    <3>4. Journal!Wrap(Total(f(j), Names))
            = Journal!Wrap(Journal!Wrap(Total(f(j - 1), Names)) + m.amount)
      <4> DEFINE F == f(j - 1)
                 G == f(j)
                 x == m.amount
                 a == l.account
      <4>1. \A c \in Names : F[c] \in Int /\ G[c] \in Int
        BY <2>2
      <4>2. \A c \in Names : c # a => G[c] = F[c]
        BY <2>2
      <4>3. G[a] = Journal!Wrap(F[a] + x)
        BY <2>1, <2>2, <2>7
      <4>4. a \in Names /\ x \in Int
        BY <2>1
      <4> HIDE DEF F, G, x, a
      <4>5. Journal!Wrap(Total(G, Names)) = Journal!Wrap(Journal!Wrap(Total(F, Names)) + x)
        BY <4>1, <4>2, <4>3, <4>4, SumMoves
      <4> QED
        BY <4>5 DEF F, G, x
    <3> QED
      BY <2>3, <3>3, <3>4
  <2> QED
    BY <2>6, <2>7
<1>3. \A j \in 0 .. Len(s) : j \in A
  <2> HIDE DEF A
  <2> QED
    BY <1>0, <1>1, <1>2, UpTo
<1> QED
  BY <1>3

-----------------------------------------------------------------------------
(* What Post accepts. *)
AddedAfter(currency, s, k) == FoldOf(Journal!Zero(currency), Along(adding, s), k)

LEMMA AddedAfterSteps ==
  ASSUME NEW s \in Seq(Journal!Line), NEW currency \in Currencies
  PROVE  /\ AddedAfter(currency, s, 0) = Journal!Zero(currency)
         /\ \A k \in 1 .. Len(s) :
              AddedAfter(currency, s, k)
                = Journal!AddLine(AddedAfter(currency, s, k - 1), s[k])
         /\ \A k \in 0 .. Len(s) : AddedAfter(currency, s, k) \in Answers
<1>1. Answering(adding) /\ Journal!Zero(currency) \in Answers
  BY StepsAnswer, ZeroIsMoney DEF Answers, adding, Answering
<1> QED
  BY <1>1, AlongSteps DEF AddedAfter, adding

(* The lines of one entry: known accounts, one currency, a sum of zero. *)
Balanced(s, u) ==
    /\ s \in Seq(SoundLine) /\ u \in Currencies
    /\ \A k \in 1 .. Len(s) : s[k].amount.currency = u
    /\ AddedAfter(u, s, Len(s)) = Journal!Zero(u)

LEMMA AcceptedIsBalanced ==
  ASSUME NEW s \in Seq(Journal!Line), NEW named, Journal!Verdict(named, s) = "ok"
  PROVE  \E u \in Currencies : Balanced(s, u)
<1> DEFINE n == Len(s)
           u == s[1].amount.currency
           d(k) == AddedAfter(u, s, k)
           total == Journal!FoldLeft(Journal!AddLine, Journal!Zero(u), s)
<1>1. n \in Nat /\ n >= 2 /\ Journal!Valid(s[1].amount)
  BY DEF Journal!Verdict
<1>2. s[1] \in Journal!Line /\ \A k \in 1 .. n : s[k] \in Journal!Line
  BY <1>1
<1>3. u \in Currencies
  <2>1. s[1].amount \in Journal!Money
    BY <1>2, LineHasParts
  <2>2. u \in Currencies \cup {Journal!NoCurrency}
    BY <2>1, MoneyHasParts
  <2> QED
    BY <1>1, <2>2 DEF Journal!Valid
<1>4. total = d(n) /\ d(n) \in Answers
  <2>1. Journal!Zero(u) \in Answers
    BY <1>3, ZeroIsMoney DEF Answers
  <2>2. n \in 0 .. n
    BY <1>1
  <2>3. total = d(n)
    BY <2>1, AddingFolds DEF AddedAfter
  <2> HIDE DEF d
  <2>4. d(n) \in Answers
    BY <1>3, <2>2, AddedAfterSteps DEF d
  <2> QED
    BY <2>3, <2>4
<1>5. ~Journal!IsError(d(n)) /\ d(n).amount = 0
  <2> HIDE DEF d, u, n
  <2>1. Journal!Verdict(named, s) = IF Journal!IsError(total) THEN total.err
                                    ELSE IF total.amount # 0 THEN "ErrUnbalanced" ELSE "ok"
    BY DEF Journal!Verdict, u
  <2> HIDE DEF total
  <2>2. Journal!IsError(total) => total.err \in Errors
    BY <1>4, MoneyIsNoError
  <2>3. "ok" \notin Errors
    BY DEF Errors
  <2> QED
    BY <1>4, <2>1, <2>2, <2>3
<1>6. /\ d(0) = Journal!Zero(u)
      /\ \A k \in 1 .. n : d(k) = Journal!AddLine(d(k - 1), s[k])
      /\ \A k \in 0 .. n : d(k) \in Answers
  BY <1>3, AddedAfterSteps
<1> HIDE DEF d, u, total
<1>7. \A k \in 0 .. n : ~Journal!IsError(d(k))
  <2> DEFINE A == {k \in 0 .. n : ~Journal!IsError(d(n - k))}
  <2>1. 0 \in A
    BY <1>1, <1>5
  <2>2. ASSUME NEW k \in 1 .. n, k - 1 \in A
        PROVE  k \in A
    <3> DEFINE j == n - k
    <3>1. /\ j + 1 \in 1 .. n /\ j \in 0 .. n /\ (j + 1) - 1 = j /\ n - (k - 1) = j + 1
          /\ k \in 0 .. n
      BY <1>1
    <3>2. d(j + 1) = Journal!AddLine(d(j), s[j + 1]) /\ ~Journal!IsError(d(j + 1))
      BY <1>6, <2>2, <3>1
    <3>3. d(j) \in Answers /\ s[j + 1] \in Journal!Line /\ s[j + 1].amount \in Journal!Money
      BY <1>2, <1>6, <3>1, LineHasParts
    <3> HIDE DEF j
    <3>4. ASSUME Journal!IsError(d(j)) PROVE FALSE
      <4>1. Journal!Plus(d(j), s[j + 1].amount) = d(j)
        BY <3>3, <3>4, PlusIs
      <4> QED
        BY <3>2, <3>4, <4>1 DEF Journal!AddLine
    <3> QED
      BY <3>1, <3>4 DEF j
  <2>3. \A k \in 0 .. n : k \in A
    <3> HIDE DEF A
    <3> QED
      BY <1>1, <2>1, <2>2, UpTo
  <2> SUFFICES ASSUME NEW k \in 0 .. n PROVE ~Journal!IsError(d(k))
    OBVIOUS
  <2>4. n - k \in 0 .. n /\ n - (n - k) = k
    BY <1>1
  <2> QED
    BY <2>3, <2>4
<1>8. ASSUME NEW k \in 1 .. n
      PROVE  /\ s[k].account \in Names /\ s[k].amount \in Journal!Money
             /\ d(k) \in Journal!Money /\ d(k - 1) \in Journal!Money
             /\ s[k].amount.currency = d(k - 1).currency
             /\ d(k).currency = d(k - 1).currency
             /\ Journal!Valid(s[k].amount)
  <2>1. k \in 0 .. n /\ k - 1 \in 0 .. n
    BY <1>1
  <2>2. d(k) = Journal!AddLine(d(k - 1), s[k])
    BY <1>6
  <2>3. ~Journal!IsError(d(k)) /\ ~Journal!IsError(d(k - 1))
        /\ d(k) \in Journal!Money /\ d(k - 1) \in Journal!Money
    BY <1>6, <1>7, <2>1, MoneyIsNoError
  <2>4. s[k].amount \in Journal!Money /\ s[k].account \in Names \cup {Journal!NoAccount}
    BY <1>2, LineHasParts
  <2>5. s[k].account # Journal!NoAccount
    <3>1. Journal!IsError(Journal!Failed("error"))
      BY MoneyIsNoError DEF Errors
    <3> QED
      BY <2>2, <2>3, <3>1 DEF Journal!AddLine
  <2>6. d(k) = Journal!Add(d(k - 1), s[k].amount)
    BY <2>2, <2>3, <2>5 DEF Journal!AddLine, Journal!Plus
  <2> QED
    BY <2>3, <2>4, <2>5, <2>6, AddIs
<1>9. \A k \in 0 .. n : d(k).currency = u
  <2> DEFINE A == {k \in 0 .. n : d(k).currency = u}
  <2>1. 0 \in A
    BY <1>1, <1>6 DEF Journal!Zero
  <2>2. ASSUME NEW k \in 1 .. n, k - 1 \in A PROVE k \in A
    BY <1>8, <2>2
  <2>3. \A k \in 0 .. n : k \in A
    <3> HIDE DEF A
    <3> QED
      BY <1>1, <2>1, <2>2, UpTo
  <2> QED
    BY <2>3
<1>10. \A k \in 1 .. n : s[k] \in SoundLine /\ s[k].amount.currency = u
  <2> TAKE k \in 1 .. n
  <2>1. k - 1 \in 0 .. n
    OBVIOUS
  <2> QED
    BY <1>2, <1>3, <1>8, <1>9, <2>1 DEF SoundLine
<1>11. s \in Seq(SoundLine)
  BY <1>1, <1>10
<1>12. d(n) = Journal!Zero(u)
  <2>1. n \in 1 .. n /\ n \in 0 .. n
    BY <1>1
  <2>2. d(n) = [amount |-> d(n).amount, currency |-> d(n).currency]
    BY <1>8, <2>1, MoneyHasParts
  <2> QED
    BY <1>5, <1>9, <2>1, <2>2 DEF Journal!Zero
<1>13. Balanced(s, u)
  BY <1>3, <1>10, <1>11, <1>12 DEF Balanced, d
<1> QED
  BY <1>3, <1>13

(* Lines that come to zero in every currency. *)
Settled(s) ==
    /\ s \in Seq(SoundLine)
    /\ \A currency \in Currencies : TotalAfter(currency, s, Len(s)) = Journal!Zero(currency)

(* Another entry leaves every total as it was. *)
LEMMA EntrySettles ==
  ASSUME NEW s, Settled(s), NEW t, NEW u, Balanced(t, u)
  PROVE  Settled(s \o t)
<1> DEFINE n == Len(s)
           r == s \o t
<1>1. /\ s \in Seq(SoundLine) /\ t \in Seq(SoundLine) /\ u \in Currencies
      /\ s \in Seq(Journal!Line) /\ t \in Seq(Journal!Line)
  BY SoundLinesAreLines DEF Settled, Balanced
<1>2. /\ r \in Seq(SoundLine) /\ Len(r) = n + Len(t) /\ n \in Nat /\ Len(t) \in Nat
      /\ \A k \in 1 .. n : r[k] = s[k]
      /\ \A k \in 1 .. Len(t) : r[n + k] = t[k]
  BY <1>1
<1>3. r \in Seq(Journal!Line)
  BY <1>2, SoundLinesAreLines
<1> HIDE DEF r
<1>4. ASSUME NEW c \in Currencies
      PROVE  TotalAfter(c, r, Len(r)) = Journal!Zero(c)
  <2> DEFINE d(k) == TotalAfter(c, r, k)
             e(k) == AddedAfter(u, t, k)
  <2>1. d(n) = Journal!Zero(c)
    <3> DEFINE f == totalling(c)
               zero == Journal!Zero(c)
               old == Along(f, s)
               new == Along(f, r)
    <3>1. \A k \in 1 .. n : new[k] = old[k]
      BY <1>2 DEF Along
    <3> HIDE DEF old, new, zero
    <3>2. FoldOf(zero, new, n) = FoldOf(zero, old, n)
      <4> HIDE DEF n
      <4> QED
        BY <1>2, <3>1, FoldOfAgrees
    <3>3. TotalAfter(c, r, n) = FoldOf(zero, new, n) /\ TotalAfter(c, s, n) = FoldOf(zero, old, n)
      BY DEF TotalAfter, old, new, zero
    <3>4. TotalAfter(c, s, n) = Journal!Zero(c)
      BY DEF Settled
    <3> QED
      BY <3>2, <3>3, <3>4
  <2> DEFINE A == {k \in 0 .. Len(t) : d(n + k) = IF c = u THEN e(k) ELSE Journal!Zero(c)}
  <2>2. 0 \in A
    <3>1. e(0) = Journal!Zero(u)
      BY <1>1, AddedAfterSteps
    <3>2. n + 0 = n
      BY <1>2
    <3> QED
      BY <1>2, <2>1, <3>1, <3>2
  <2>3. ASSUME NEW k \in 1 .. Len(t), k - 1 \in A
        PROVE  k \in A
    <3> DEFINE l == t[k]
    <3>1. /\ k \in 0 .. Len(t) /\ n + k \in 1 .. Len(r) /\ (n + k) - 1 = n + (k - 1)
          /\ r[n + k] = l /\ l \in SoundLine /\ l.amount.currency = u
      BY <1>1, <1>2 DEF Balanced
    <3>2. d(n + k) = Journal!ToTotal(c, d(n + (k - 1)), l)
      BY <1>3, <3>1, TotalAfterSteps
    <3>3. e(k) = Journal!AddLine(e(k - 1), l)
      BY <1>1, AddedAfterSteps
    <3>4. l.account # Journal!NoAccount
      BY <3>1, LedgerAssumption DEF SoundLine, Journal!LedgerConstants
    <3> HIDE DEF d, e, l
    <3>5. d(n + k) = IF c = u THEN e(k) ELSE Journal!Zero(c)
      BY <2>3, <3>1, <3>2, <3>3, <3>4 DEF Journal!ToTotal, Journal!AddLine
    <3> QED
      BY <3>1, <3>5
  <2>4. \A k \in 0 .. Len(t) : k \in A
    <3> HIDE DEF A
    <3> QED
      BY <1>2, <2>2, <2>3, UpTo
  <2>5. Len(t) \in 0 .. Len(t)
    BY <1>2
  <2>6. e(Len(t)) = Journal!Zero(u)
    BY DEF Balanced
  <2> HIDE DEF d, e
  <2>7. d(Len(r)) = Journal!Zero(c)
    BY <1>2, <2>4, <2>5, <2>6
  <2> QED
    BY <2>7 DEF d
<1> QED
  BY <1>2, <1>4 DEF Settled, r

-----------------------------------------------------------------------------
(* The lines of the entries es, with the slices h. *)
Joined(h, es) ==
    [k \in 1 .. Len(es) |-> [v \in Seq(Journal!Line) |-> v \o h[es[k].lines]]]
LinesOf(h, es) == FoldOf(<<>>, Joined(h, es), Len(es))

(* Entries whose slices hold lines. *)
Readable(h, es) ==
    /\ h \in Seq(Seq(Journal!Line)) /\ es \in Seq(Elements(es))
    /\ \A i \in 1 .. Len(es) : es[i].lines \in 1 .. Len(h)

LEMMA JoinedSteps ==
  ASSUME NEW h, NEW es, Readable(h, es)
  PROVE  /\ Len(es) \in Nat /\ DOMAIN es = 1 .. Len(es) /\ <<>> \in Seq(Journal!Line)
         /\ KeepTo(Seq(Journal!Line), Joined(h, es), Len(es))
         /\ \A k \in 1 .. Len(es) : \A v \in Seq(Journal!Line) :
              Joined(h, es)[k][v] = v \o h[es[k].lines]
<1>1. Len(es) \in Nat /\ DOMAIN es = 1 .. Len(es) /\ <<>> \in Seq(Journal!Line)
  BY DEF Readable
<1>2. \A k \in 1 .. Len(es) : h[es[k].lines] \in Seq(Journal!Line)
  BY DEF Readable
<1>3. \A k \in 1 .. Len(es) : \A v \in Seq(Journal!Line) :
        Joined(h, es)[k][v] = v \o h[es[k].lines]
  BY DEF Joined
<1>4. \A k \in 1 .. Len(es) : \A v \in Seq(Journal!Line) : v \o h[es[k].lines] \in Seq(Journal!Line)
  BY <1>2
<1> QED
  BY <1>1, <1>3, <1>4 DEF KeepTo

LEMMA JoiningFolds ==
  ASSUME Readable(heap, entries)
  PROVE  Journal!JournalLines = LinesOf(heap, entries)
<1> DEFINE S == DOMAIN entries
           Lines == Seq(Journal!Line)
           Fits(h) == h = [t \in SUBSET S |->
                            IF t = {} THEN <<>>
                            ELSE h[t \ {Max(t)}] \o heap[entries[Max(t)].lines]]
           H == CHOOSE h : Fits(h)
           n == Len(entries)
           step == Joined(heap, entries)
<1>2. /\ n \in Nat /\ S = 1 .. n /\ <<>> \in Lines /\ KeepTo(Lines, step, n)
      /\ \A k \in 1 .. n : \A v \in Lines : step[k][v] = v \o heap[entries[k].lines]
  BY JoinedSteps
<1>3. Journal!JournalLines = H[S]
  BY DEF Journal!JournalLines, Journal!FoldLeft, Journal!MapThenFoldSet, Journal!Max, Max
<1> HIDE DEF step, n, Lines
<1>4. \E h : Fits(h)
  <2>1. PICK h : IsFoldOf(h, <<>>, step, 1 .. n) /\ \A t \in SUBSET (1 .. n) : h[t] \in Lines
    BY <1>2, FoldOfValues
  <2>2. ASSUME NEW t \in SUBSET S, t # {}
        PROVE  h[t] = h[t \ {Max(t)}] \o heap[entries[Max(t)].lines]
    <3>1. Max(t) \in 1 .. n /\ t \in SUBSET (1 .. n) /\ t \ {Max(t)} \in SUBSET (1 .. n)
      BY <1>2, <2>2, LastPosition
    <3>2. h[t] = step[Max(t)][h[t \ {Max(t)}]] /\ h[t \ {Max(t)}] \in Lines
      BY <2>1, <2>2, <3>1 DEF IsFoldOf
    <3> QED
      BY <1>2, <3>1, <3>2
  <2>3. h = [t \in SUBSET S |-> h[t]] /\ h[{}] = <<>>
    BY <1>2, <2>1 DEF IsFoldOf
  <2> HIDE DEF S
  <2>4. Fits(h)
    BY <2>2, <2>3
  <2> QED
    BY <2>4
<1>5. Fits(H)
  <2> HIDE DEF Fits
  <2> QED
    BY <1>4, Zenon
<1>6. H[1 .. n] = FoldOf(<<>>, step, n)
  <2> HIDE DEF H
  <2>1. H[{}] = <<>>
    BY <1>5
  <2>2. ASSUME NEW t \in SUBSET (1 .. n), t # {}, H[t \ {Max(t)}] \in Lines
        PROVE  H[t] = step[Max(t)][H[t \ {Max(t)}]]
    <3>1. Max(t) \in 1 .. n
      BY <1>2, <2>2, LastPosition
    <3>2. H[t] = H[t \ {Max(t)}] \o heap[entries[Max(t)].lines]
      BY <1>2, <1>5, <2>2
    <3> QED
      BY <1>2, <2>2, <3>1, <3>2
  <2>3. RecursLike(H, Lines, <<>>, step, n)
    BY <2>1, <2>2 DEF RecursLike
  <2> HIDE DEF Fits
  <2> QED
    BY <1>2, <2>3, FoldLike
<1> QED
  BY <1>2, <1>3, <1>6 DEF LinesOf, step, n

(* The journal's lines depend on the slices of its entries only. *)
LEMMA LinesStay ==
  ASSUME NEW h, NEW es, Readable(h, es), NEW g,
         \A i \in 1 .. Len(es) : g[es[i].lines] = h[es[i].lines]
  PROVE  LinesOf(g, es) = LinesOf(h, es)
<1> DEFINE n == Len(es)
           old == Joined(h, es)
           new == Joined(g, es)
<1>1. n \in Nat
  BY DEF Readable
<1>2. \A k \in 1 .. n : new[k] = old[k]
  BY DEF Joined
<1> HIDE DEF n, old, new
<1>3. FoldOf(<<>>, new, n) = FoldOf(<<>>, old, n)
  BY <1>1, <1>2, FoldOfAgrees
<1> QED
  BY <1>3 DEF LinesOf, n, old, new

(* A new entry comes last. *)
LEMMA LinesAppend ==
  ASSUME NEW h, NEW es, Readable(h, es), NEW e, e.lines \in 1 .. Len(h)
  PROVE  /\ Readable(h, Append(es, e))
         /\ LinesOf(h, Append(es, e)) = LinesOf(h, es) \o h[e.lines]
<1> DEFINE n == Len(es)
           fs == Append(es, e)
           old == Joined(h, es)
           new == Joined(h, fs)
<1>1. /\ fs \in Seq(Elements(fs)) /\ Len(fs) = n + 1 /\ n \in Nat
      /\ \A i \in 1 .. n : fs[i] = es[i]
      /\ fs[n + 1] = e
  BY HeapGrows DEF Readable
<1> HIDE DEF fs
<1>2. Readable(h, fs)
  <2>1. \A i \in 1 .. Len(fs) : i \in 1 .. n \/ i = n + 1
    BY <1>1
  <2>2. \A i \in 1 .. Len(fs) : fs[i].lines \in 1 .. Len(h)
    BY <1>1, <2>1 DEF Readable
  <2> QED
    BY <1>1, <2>2 DEF Readable
<1>3. \A k \in 1 .. n : new[k] = old[k]
  <2> TAKE k \in 1 .. n
  <2>1. k \in 1 .. Len(fs) /\ fs[k] = es[k]
    BY <1>1
  <2> QED
    BY <2>1 DEF Joined
<1>4. LinesOf(h, es) \in Seq(Journal!Line)
  BY JoinedSteps, FoldOfStaysIn DEF LinesOf
<1>5. FoldOf(<<>>, new, n + 1) = new[n + 1][FoldOf(<<>>, new, (n + 1) - 1)]
  <2>1. n + 1 \in Nat /\ n + 1 # 0
    BY <1>1
  <2> QED
    BY <2>1, FoldOfSteps
<1>6. FoldOf(<<>>, new, n) = FoldOf(<<>>, old, n)
  <2> HIDE DEF n, old, new
  <2> QED
    BY <1>1, <1>3, FoldOfAgrees
<1>7. new[n + 1][LinesOf(h, es)] = LinesOf(h, es) \o h[e.lines]
  <2>1. n + 1 \in 1 .. Len(fs)
    BY <1>1
  <2>2. new[n + 1][LinesOf(h, es)] = LinesOf(h, es) \o h[fs[n + 1].lines]
    BY <1>2, <1>4, <2>1, JoinedSteps
  <2> QED
    BY <1>1, <2>2
<1>8. (n + 1) - 1 = n
  BY <1>1
<1>9. LinesOf(h, fs) = FoldOf(<<>>, new, n + 1) /\ LinesOf(h, es) = FoldOf(<<>>, old, n)
  BY <1>1 DEF LinesOf
<1> HIDE DEF n, old, new
<1> QED
  BY <1>2, <1>5, <1>6, <1>7, <1>8, <1>9 DEF fs

-----------------------------------------------------------------------------
(* If the lines of the journal come to zero, its books balance. *)
LEMMA SettledBooksBalance ==
  ASSUME Readable(heap, entries), Settled(LinesOf(heap, entries))
  PROVE  Journal!BooksBalance
<1> DEFINE s == LinesOf(heap, entries)
           n == Len(s)
<1>1. s \in Seq(SoundLine) /\ s \in Seq(Journal!Line) /\ n \in Nat /\ n \in 0 .. n
  BY SoundLinesAreLines DEF Settled
<1>2. Journal!JournalLines = s
  BY JoiningFolds
<1> HIDE DEF s
<1>3. ASSUME NEW c \in Currencies
      PROVE  Journal!Total(c) = TotalAfter(c, s, n)
  <2>1. Journal!Zero(c) \in Answers
    BY ZeroIsMoney DEF Answers
  <2>2. Journal!Total(c)
          = Journal!FoldLeft(LAMBDA v, l : Journal!ToTotal(c, v, l), Journal!Zero(c), s)
    BY <1>2 DEF Journal!Total
  <2> QED
    BY <1>1, <2>1, <2>2, TotallingFolds DEF TotalAfter
<1>4. ASSUME NEW a \in Names
      PROVE  Journal!Balance(a) = BalanceAfter(a, s, n)
  <2>1. Journal!Balance(a)
          = Journal!FoldLeft(LAMBDA v, l : Journal!ToBalance(a, v, l), Journal!Unknown, s)
    BY <1>2 DEF Journal!Balance
  <2> QED
    BY <1>1, <2>1, UnknownIsAnswer, BalancingFolds DEF BalanceAfter
<1>5. ASSUME NEW c \in Currencies
      PROVE  /\ Journal!Total(c) = Journal!Zero(c)
             /\ \/ \E a \in Names : Journal!Balance(a) = Mismatch
                \/ Journal!Wrap(Journal!SumFunction(
                        [a \in Names |-> Journal!Share(Journal!Balance(a), c)])) = 0
  <2> DEFINE f == [a \in Names |-> Journal!Share(Journal!Balance(a), c)]
  <2>1. TotalAfter(c, s, n) = Journal!Zero(c)
    BY DEF Settled, s
  <2>2. Mixed(s, n) \/ Journal!Wrap(Total(SharesAfter(c, s, n), Names)) = 0
    <3>1. \/ Mixed(s, n)
          \/ Journal!Wrap(Total(SharesAfter(c, s, n), Names)) = TotalAfter(c, s, n).amount
      <4> HIDE DEF n
      <4> QED
        BY <1>1, SharesAddUp DEF n
    <3> QED
      BY <2>1, <3>1 DEF Journal!Zero
  <2>3. f = SharesAfter(c, s, n)
    BY <1>4 DEF SharesAfter
  <2>4. Journal!SumFunction(f) = Total(f, Names)
    <3>1. Journal!SumFunction(f) = SumFunction(f)
      <4> HIDE DEF f
      <4> QED
        BY DEF Journal!SumFunction, Journal!SumFunctionOnSet, Journal!FoldFunctionOnSet,
               Journal!MapThenFoldSet, SumFunction, SumFunctionOnSet, FoldFunctionOnSet,
               MapThenFoldSet
    <3>2. DOMAIN f = Names
      OBVIOUS
    <3> HIDE DEF f
    <3> QED
      BY <3>1, <3>2, NamesAreFinite, SumOfFunction
  <2> HIDE DEF f, n
  <2>5. Journal!Wrap(Journal!SumFunction(f)) = 0 \/ Mixed(s, n)
    BY <2>2, <2>3, <2>4
  <2>6. Mixed(s, n) => \E a \in Names : Journal!Balance(a) = Mismatch
    BY <1>4 DEF Mixed, n
  <2>7. Journal!Total(c) = Journal!Zero(c)
    BY <1>3, <2>1 DEF n
  <2> QED
    BY <2>5, <2>6, <2>7 DEF f
<1> QED
  BY <1>5 DEF Journal!BooksBalance, Mismatch

-----------------------------------------------------------------------------
SlicesHoldLines == heap \in Seq(Seq(Journal!Line))

(* No slice has two owners. *)
OwnersApart == \A c, d \in Callers : c # d => own[c] \cap own[d] = {}

(* What a Post has validated stays valid until it has the lock: the slice  *)
(* is the caller's, and the caller is waiting.                             *)
ValidatedStays ==
    /\ posting \in [Callers -> Nat]
    /\ \A c \in Callers : posting[c] # Journal!NotPosting =>
          posting[c] \in own[c] /\ Journal!Verdict(TRUE, heap[posting[c]]) = "ok"

ListedIsPosted == listed \subseteq {entries[i].lines : i \in 1 .. Len(entries)}

LinesSettled == ~rewritten => Settled(LinesOf(heap, entries))

(* The inductive strengthening of BooksBalance. *)
BalanceIInv ==
    /\ HistoryIInv /\ SlicesHoldLines /\ OwnersApart /\ ValidatedStays
    /\ ListedIsPosted /\ LinesSettled

LEMMA JournalIsReadable ==
  ASSUME HistoryIInv, SlicesHoldLines PROVE Readable(heap, entries)
  BY DEF HistoryIInv, SlicesTyped, SlicesHoldLines, Readable

LEMMA NegateIsMoney == \A m \in Journal!Money : Journal!Negate(m) \in Journal!Money
<1> TAKE m \in Journal!Money
<1> DEFINE n == Journal!Wrap(-m.amount)
<1>1. n \in Journal!Int64
  <2>1. -m.amount \in Int
    BY MoneyHasParts
  <2> QED
    BY <2>1, WrapTurns
<1>2. Journal!Negate(m) = [m EXCEPT !.amount = n]
  BY DEF Journal!Negate
<1> HIDE DEF n
<1> QED
  BY <1>1, <1>2 DEF Journal!Money

(* While nobody rewrites what Entries listed, the posted lines stay. *)
LEMMA PostedLinesStay ==
  ASSUME BalanceIInv, HistoryStep, entries' = entries,
         ~rewritten' => ~rewritten /\ \A a \in listed : heap'[a] = heap[a]
  PROVE  LinesSettled'
<1> SUFFICES ASSUME ~rewritten' PROVE Settled(LinesOf(heap', entries))
  BY DEF LinesSettled
<1>1. Readable(heap, entries) /\ Settled(LinesOf(heap, entries))
  BY JournalIsReadable DEF BalanceIInv, LinesSettled
<1>2. \A i \in 1 .. Len(entries) : heap'[entries[i].lines] = heap[entries[i].lines]
  <2>1. DOMAIN entries = 1 .. Len(entries)
    BY DEF BalanceIInv, HistoryIInv, SlicesTyped
  <2> QED
    BY <2>1 DEF HistoryStep
<1> QED
  BY <1>1, <1>2, LinesStay

(* Post up to the lock. *)
LEMMA PostBalances ==
  ASSUME BalanceIInv, NEW c \in Callers, NEW named, NEW lines \in Seq(Journal!Line),
         Journal!Post(c, named, lines)
  PROVE  BalanceIInv'
<1> DEFINE n == Len(heap)
<1>0. /\ HistoryIInv /\ SlicesTyped /\ JournalsOwn /\ SlicesHoldLines
      /\ OwnersApart /\ ValidatedStays /\ ListedIsPosted
  BY DEF BalanceIInv, HistoryIInv
<1>1. HistoryIInv' /\ HistoryStep
  BY <1>0, PostKeeps
<1>2. /\ heap' = Append(heap, lines) /\ entries' = entries
      /\ listed' = listed /\ rewritten' = rewritten
      /\ own' = [own EXCEPT ![c] = @ \cup {Len(heap')}]
      /\ \/ /\ Journal!Verdict(named, lines) = "ok"
            /\ posting' = [posting EXCEPT ![c] = Len(heap')]
         \/ posting' = posting
  BY DEF Journal!Post, Journal!journal
<1>3. /\ heap' \in Seq(Seq(Journal!Line)) /\ Len(heap') = n + 1 /\ n \in Nat
      /\ \A i \in 1 .. n : heap'[i] = heap[i]
      /\ heap'[n + 1] = lines
  BY <1>0, <1>2 DEF SlicesHoldLines
<1> HIDE DEF n
<1>4. /\ own \in [Callers -> SUBSET (1 .. n)]
      /\ own'[c] = own[c] \cup {n + 1}
      /\ \A d \in Callers : d # c => own'[d] = own[d]
  <2>1. own \in [Callers -> SUBSET (1 .. n)]
    BY <1>0 DEF SlicesTyped, n
  <2> QED
    BY <1>2, <1>3, <2>1
<1>5. SlicesHoldLines'
  BY <1>3 DEF SlicesHoldLines
<1>6. OwnersApart'
  <2> SUFFICES ASSUME NEW d \in Callers, NEW e \in Callers, d # e
               PROVE  own'[d] \cap own'[e] = {}
    BY DEF OwnersApart
  <2>1. own[d] \cap own[e] = {} /\ n + 1 \notin own[d] /\ n + 1 \notin own[e]
    BY <1>0, <1>3, <1>4 DEF OwnersApart
  <2> QED
    BY <1>4, <2>1
<1>7. ValidatedStays'
  <2>1. posting' \in [Callers -> Nat]
    BY <1>0, <1>2, <1>3 DEF ValidatedStays
  <2>2. ASSUME NEW d \in Callers, posting'[d] # Journal!NotPosting, posting'[d] = posting[d]
        PROVE  posting'[d] \in own'[d] /\ Journal!Verdict(TRUE, heap'[posting'[d]]) = "ok"
    <3>1. posting[d] \in own[d] /\ Journal!Verdict(TRUE, heap[posting[d]]) = "ok"
      BY <1>0, <2>2 DEF ValidatedStays
    <3>2. posting[d] \in 1 .. n /\ own[d] \subseteq own'[d]
      BY <1>4, <3>1
    <3> QED
      BY <1>3, <2>2, <3>1, <3>2
  <2>3. ASSUME Journal!Verdict(named, lines) = "ok",
               posting' = [posting EXCEPT ![c] = Len(heap')]
        PROVE  posting'[c] \in own'[c] /\ Journal!Verdict(TRUE, heap'[posting'[c]]) = "ok"
    <3>1. posting'[c] = n + 1
      BY <1>0, <1>3, <2>3 DEF ValidatedStays
    <3>2. Journal!Verdict(TRUE, lines) = "ok"
      BY <2>3 DEF Journal!Verdict
    <3> QED
      BY <1>3, <1>4, <3>1, <3>2
  <2>4. \A d \in Callers : d # c => posting'[d] = posting[d]
    BY <1>0, <1>2 DEF ValidatedStays
  <2> QED
    BY <1>2, <2>1, <2>2, <2>3, <2>4 DEF ValidatedStays
<1>8. ListedIsPosted'
  BY <1>0, <1>2 DEF ListedIsPosted
<1>9. LinesSettled'
  <2>1. \A a \in listed : heap'[a] = heap[a]
    BY <1>0, <1>3 DEF ListedIsPosted, SlicesTyped, n
  <2> QED
    BY <1>1, <1>2, <2>1, PostedLinesStay
<1> QED
  BY <1>1, <1>5, <1>6, <1>7, <1>8, <1>9 DEF BalanceIInv

(* The locked part: the entry settles. *)
LEMMA PostAppendsBalances ==
  ASSUME BalanceIInv, NEW c \in Callers, Journal!PostAppends(c)
  PROVE  BalanceIInv'
<1> DEFINE n == Len(heap)
           lines == heap[posting[c]]
           entry == [id |-> Journal!IDAfter(nextID), lines |-> n + 1]
<1>0. /\ HistoryIInv /\ SlicesTyped /\ JournalsOwn /\ SlicesHoldLines
      /\ OwnersApart /\ ValidatedStays /\ ListedIsPosted /\ LinesSettled
  BY DEF BalanceIInv, HistoryIInv
<1>1. HistoryIInv' /\ HistoryStep
  BY <1>0, PostAppendsKeeps
<1>2. /\ heap' = heap \o <<lines, lines>> /\ entries' = Append(entries, entry)
      /\ posting[c] # Journal!NotPosting
      /\ listed' = listed /\ rewritten' = rewritten
      /\ own' = [own EXCEPT ![c] = @ \cup {n + 2}]
      /\ posting' = [posting EXCEPT ![c] = Journal!NotPosting]
  BY DEF Journal!PostAppends, Journal!JournalSlice
<1>3. /\ posting[c] \in 1 .. n /\ lines \in Seq(Journal!Line)
      /\ Journal!Verdict(TRUE, lines) = "ok"
  <2>1. posting[c] \in own[c] /\ own[c] \subseteq 1 .. n /\ Journal!Verdict(TRUE, lines) = "ok"
    BY <1>0, <1>2 DEF ValidatedStays, SlicesTyped
  <2>2. posting[c] \in 1 .. n
    BY <2>1
  <2>3. lines \in Seq(Journal!Line)
    <3> HIDE DEF n
    <3> QED
      BY <1>0, <2>2 DEF SlicesHoldLines, n
  <2> QED
    BY <2>1, <2>2, <2>3
<1> HIDE DEF lines
<1>4. /\ heap' \in Seq(Seq(Journal!Line)) /\ Len(heap') = n + 2 /\ n \in Nat
      /\ \A i \in 1 .. n : heap'[i] = heap[i]
      /\ heap'[n + 1] = lines
  <2>1. heap \in Seq(Seq(Journal!Line)) /\ <<lines, lines>> \in Seq(Seq(Journal!Line))
        /\ Len(<<lines, lines>>) = 2 /\ <<lines, lines>>[1] = lines
    BY <1>0, <1>3 DEF SlicesHoldLines
  <2> QED
    BY <1>2, <2>1
<1>e. entry.lines = n + 1
  OBVIOUS
<1> HIDE DEF n, entry
<1>5. /\ own \in [Callers -> SUBSET (1 .. n)]
      /\ own'[c] = own[c] \cup {n + 2}
      /\ \A d \in Callers : d # c => own'[d] = own[d]
  <2>1. own \in [Callers -> SUBSET (1 .. n)]
    BY <1>0 DEF SlicesTyped, n
  <2> QED
    BY <1>2, <2>1
<1>6. SlicesHoldLines'
  BY <1>4 DEF SlicesHoldLines
<1>7. OwnersApart'
  <2> SUFFICES ASSUME NEW d \in Callers, NEW e \in Callers, d # e
               PROVE  own'[d] \cap own'[e] = {}
    BY DEF OwnersApart
  <2>1. own[d] \cap own[e] = {} /\ n + 2 \notin own[d] /\ n + 2 \notin own[e]
    BY <1>0, <1>4, <1>5 DEF OwnersApart
  <2> QED
    BY <1>5, <2>1
<1>8. ValidatedStays'
  <2>1. posting' \in [Callers -> Nat]
    BY <1>0, <1>2 DEF ValidatedStays, Journal!NotPosting
  <2>2. ASSUME NEW d \in Callers, posting'[d] # Journal!NotPosting
        PROVE  posting'[d] \in own'[d] /\ Journal!Verdict(TRUE, heap'[posting'[d]]) = "ok"
    <3>1. d # c /\ posting'[d] = posting[d]
      BY <1>0, <1>2, <2>2 DEF ValidatedStays
    <3>2. posting[d] \in own[d] /\ Journal!Verdict(TRUE, heap[posting[d]]) = "ok"
      BY <1>0, <2>2, <3>1 DEF ValidatedStays
    <3>3. posting[d] \in 1 .. n
      BY <1>5, <3>2
    <3>4. heap'[posting'[d]] = heap[posting[d]]
      BY <1>4, <3>1, <3>3
    <3> QED
      BY <1>5, <3>1, <3>2, <3>4
  <2> QED
    BY <2>1, <2>2 DEF ValidatedStays
<1>9. Readable(heap, entries)
  BY <1>0, JournalIsReadable
<1>10. Readable(heap', entries) /\ entry.lines \in 1 .. Len(heap')
  BY <1>4, <1>9, <1>e DEF Readable, n
<1>11. ListedIsPosted'
  <2>1. /\ Len(entries') = Len(entries) + 1 /\ Len(entries) \in Nat
        /\ \A i \in 1 .. Len(entries) : entries'[i] = entries[i]
    BY <1>0, <1>2, HeapGrows DEF SlicesTyped
  <2>2. \A i \in 1 .. Len(entries) :
          i \in 1 .. Len(entries') /\ entries'[i].lines = entries[i].lines
    BY <2>1
  <2> QED
    BY <1>0, <1>2, <2>2 DEF ListedIsPosted
<1>12. LinesSettled'
  <2> SUFFICES ASSUME ~rewritten PROVE Settled(LinesOf(heap', entries'))
    BY <1>2 DEF LinesSettled
  <2>1. LinesOf(heap', entries') = LinesOf(heap', entries) \o heap'[entry.lines]
    BY <1>2, <1>10, LinesAppend
  <2>2. LinesOf(heap', entries) = LinesOf(heap, entries)
    <3>1. \A i \in 1 .. Len(entries) : heap'[entries[i].lines] = heap[entries[i].lines]
      BY <1>4, <1>9 DEF Readable, n
    <3> QED
      BY <1>9, <3>1, LinesStay
  <2>3. Settled(LinesOf(heap, entries))
    BY <1>0 DEF LinesSettled
  <2>4. PICK u \in Currencies : Balanced(lines, u)
    BY <1>3, AcceptedIsBalanced
  <2>5. Settled(LinesOf(heap, entries) \o lines)
    BY <2>3, <2>4, EntrySettles
  <2> QED
    BY <1>4, <1>e, <2>1, <2>2, <2>5
<1> QED
  BY <1>1, <1>6, <1>7, <1>8, <1>11, <1>12 DEF BalanceIInv

(* Steps that touch neither slices nor entries nor what is being posted. *)
LEMMA BooksStay ==
  ASSUME BalanceIInv, UNCHANGED <<heap, entries, posting, own, rewritten>>, ListedIsPosted'
  PROVE  BalanceIInv'
<1>1. HistoryIInv' /\ HistoryStep
  BY JournalStays DEF BalanceIInv
<1>2. SlicesHoldLines' /\ OwnersApart'
  BY DEF BalanceIInv, SlicesHoldLines, OwnersApart
<1>3. ValidatedStays'
  BY DEF BalanceIInv, ValidatedStays
<1>4. LinesSettled'
  BY <1>1, PostedLinesStay
<1> QED
  BY <1>1, <1>2, <1>3, <1>4 DEF BalanceIInv

(* Entries hands out slices of the journal. *)
LEMMA EntriesBalances ==
  ASSUME BalanceIInv, NEW c \in Callers, Journal!Entries(c)
  PROVE  BalanceIInv'
<1>1. /\ listed' = listed \cup {entries[i].lines : i \in DOMAIN entries}
      /\ UNCHANGED <<heap, entries, posting, own, rewritten>>
  BY DEF Journal!Entries, Journal!journal
<1>2. ListedIsPosted'
  BY <1>1 DEF BalanceIInv, HistoryIInv, SlicesTyped, ListedIsPosted
<1> QED
  BY <1>1, <1>2, BooksStay

LEMMA WriteBalances ==
  ASSUME BalanceIInv, NEW c \in Callers, NEW a \in Journal!Reach(c),
         NEW m \in Journal!Money, Journal!Write(c, a, m)
  PROVE  BalanceIInv'
<1> DEFINE n == Len(heap)
<1>0. /\ HistoryIInv /\ SlicesTyped /\ JournalsOwn /\ SlicesHoldLines
      /\ OwnersApart /\ ValidatedStays /\ ListedIsPosted
  BY DEF BalanceIInv, HistoryIInv
<1>1. HistoryIInv' /\ HistoryStep
  BY <1>0, WriteKeeps
<1>2. /\ heap' = [heap EXCEPT ![a][1].amount = m] /\ posting[c] = Journal!NotPosting
      /\ rewritten' = (rewritten \/ a \in listed)
      /\ UNCHANGED <<entries, posting, own, listed>>
      /\ a \in own[c] \cup listed
  BY DEF Journal!Write, Journal!journal, Journal!Reach
<1>3. a \in 1 .. n
  <2>1. own[c] \subseteq 1 .. n /\ listed \subseteq 1 .. n
    BY <1>0 DEF SlicesTyped, ListedIsPosted
  <2> QED
    BY <1>2, <2>1
<1>4. heap \in Seq(Seq(Journal!Line)) /\ n \in Nat /\ DOMAIN heap = 1 .. n
      /\ heap \in [1 .. n -> Seq(Journal!Line)]
  BY <1>0 DEF SlicesHoldLines
<1> HIDE DEF n
<1>5. [heap[a] EXCEPT ![1].amount = m] \in Seq(Journal!Line)
  <2> DEFINE s == heap[a]
             t == [s EXCEPT ![1].amount = m]
  <2>1. s \in Seq(Journal!Line) /\ Len(s) \in Nat /\ DOMAIN s = 1 .. Len(s)
    BY <1>3, <1>4
  <2> HIDE DEF s
  <2>2. t \in [1 .. Len(s) -> Journal!Line]
    <3>1. DOMAIN t = 1 .. Len(s)
      BY <2>1
    <3>2. ASSUME NEW i \in 1 .. Len(s) PROVE t[i] \in Journal!Line
      <4>1. s[i] \in Journal!Line
        BY <2>1
      <4>2. [s[i] EXCEPT !.amount = m] \in Journal!Line
        BY <4>1 DEF Journal!Line
      <4>3. t[i] = IF i = 1 THEN [s[i] EXCEPT !.amount = m] ELSE s[i]
        BY <2>1
      <4> QED
        BY <4>1, <4>2, <4>3
    <3>3. t = [i \in 1 .. Len(s) |-> t[i]]
      BY <2>1
    <3> HIDE DEF t
    <3> QED
      BY <3>2, <3>3
  <2> HIDE DEF t
  <2>3. t \in Seq(Journal!Line)
    BY <2>1, <2>2
  <2> QED
    BY <2>3 DEF s, t
<1>6. SlicesHoldLines' /\ \A b \in 1 .. n : b # a => heap'[b] = heap[b]
  <2> DEFINE t == [heap[a] EXCEPT ![1].amount = m]
  <2>1. heap' = [heap EXCEPT ![a] = t]
    BY <1>2
  <2> HIDE DEF t
  <2>2. t \in Seq(Journal!Line)
    BY <1>5 DEF t
  <2>3. heap' \in [1 .. n -> Seq(Journal!Line)] /\ \A b \in 1 .. n : b # a => heap'[b] = heap[b]
    BY <1>4, <2>1, <2>2
  <2> QED
    BY <1>4, <2>3 DEF SlicesHoldLines
<1>7. OwnersApart' /\ ListedIsPosted'
  BY <1>0, <1>2 DEF OwnersApart, ListedIsPosted
<1>8. ValidatedStays'
  <2> SUFFICES ASSUME NEW d \in Callers, posting[d] # Journal!NotPosting
               PROVE  heap'[posting[d]] = heap[posting[d]]
    BY <1>0, <1>2 DEF ValidatedStays
  <2>1. d # c /\ posting[d] \in own[d] /\ own[d] \subseteq 1 .. n
    BY <1>0, <1>2 DEF ValidatedStays, SlicesTyped, n
  <2>2. posting[d] \notin own[c]
    BY <1>0, <2>1 DEF OwnersApart
  <2>3. posting[d] \notin listed
    BY <1>0, <2>1 DEF ListedIsPosted, JournalsOwn
  <2> QED
    BY <1>2, <1>6, <2>1, <2>2, <2>3
<1>9. LinesSettled'
  <2>1. ~rewritten' => ~rewritten /\ \A b \in listed : heap'[b] = heap[b]
    <3>1. listed \subseteq 1 .. n
      BY <1>0 DEF ListedIsPosted, SlicesTyped, n
    <3> QED
      BY <1>2, <1>6, <3>1
  <2> QED
    BY <1>1, <1>2, <2>1, PostedLinesStay
<1> QED
  BY <1>1, <1>6, <1>7, <1>8, <1>9 DEF BalanceIInv

LEMMA BalanceNext ==
  ASSUME BalanceIInv, [Journal!Next]_(Journal!vars) PROVE BalanceIInv'
<1>1. CASE Journal!Terminated \/ UNCHANGED Journal!vars
  <2>1. UNCHANGED <<heap, entries, posting, own, listed, rewritten>>
    BY <1>1 DEF Journal!Terminated, Journal!vars, Journal!journal
  <2>2. ListedIsPosted'
    BY <2>1 DEF BalanceIInv, ListedIsPosted
  <2> QED
    BY <2>1, <2>2, BooksStay
<1>2. ASSUME NEW c \in Callers, NEW named, NEW lines \in Slips, Journal!Post(c, named, lines)
      PROVE  BalanceIInv'
  <2>1. lines \in Seq(Journal!Line)
    BY LedgerAssumption DEF Journal!LedgerConstants
  <2> QED
    BY <1>2, <2>1, PostBalances
<1>3. ASSUME NEW c \in Callers, NEW from \in Names, NEW to \in Names, NEW n \in Postings,
             NEW currency \in Currencies,
             Journal!PostBalance(c, from, to, [amount |-> n, currency |-> currency])
      PROVE  BalanceIInv'
  <2> DEFINE m == [amount |-> n, currency |-> currency]
             lines == <<[account |-> from, amount |-> m],
                        [account |-> to, amount |-> Journal!Negate(m)]>>
  <2>1. Journal!Post(c, TRUE, lines)
    BY <1>3 DEF Journal!PostBalance
  <2>2. m \in Journal!Money
    BY LedgerAssumption DEF Journal!LedgerConstants, Journal!Money
  <2> HIDE DEF m
  <2>3. lines \in Seq(Journal!Line)
    <3>1. Journal!Negate(m) \in Journal!Money
      BY <2>2, NegateIsMoney
    <3> QED
      BY <2>2, <3>1 DEF Journal!Line
  <2> HIDE DEF lines
  <2> QED
    BY <2>1, <2>3, PostBalances
<1>4. ASSUME NEW c \in Callers, NEW a \in Journal!Reach(c),
             Journal!Post(c, TRUE, Journal!ReversalEntry(heap[a]))
      PROVE  BalanceIInv'
  <2> DEFINE s == heap[a]
             lines == Journal!ReversalEntry(s)
  <2>1. a \in 1 .. Len(heap)
    BY DEF BalanceIInv, HistoryIInv, SlicesTyped, ListedIsPosted, Journal!Reach
  <2>2. s \in Seq(Journal!Line)
    BY <2>1 DEF BalanceIInv, SlicesHoldLines
  <2> HIDE DEF s
  <2>3. lines \in Seq(Journal!Line)
    <3>1. Len(s) \in Nat /\ DOMAIN s = 1 .. Len(s)
      BY <2>2
    <3>2. ASSUME NEW i \in 1 .. Len(s)
          PROVE  [s[i] EXCEPT !.amount = Journal!Negate(s[i].amount)] \in Journal!Line
      <4>1. s[i] \in Journal!Line /\ s[i].amount \in Journal!Money
        BY <2>2, LineHasParts
      <4>2. Journal!Negate(s[i].amount) \in Journal!Money
        BY <4>1, NegateIsMoney
      <4> QED
        BY <4>1, <4>2 DEF Journal!Line
    <3>3. lines = [i \in 1 .. Len(s) |-> [s[i] EXCEPT !.amount = Journal!Negate(s[i].amount)]]
      BY <3>1 DEF Journal!ReversalEntry
    <3>4. lines \in [1 .. Len(s) -> Journal!Line]
      BY <3>2, <3>3
    <3> HIDE DEF lines
    <3> QED
      BY <3>1, <3>4
  <2> HIDE DEF lines
  <2>4. Journal!Post(c, TRUE, lines)
    BY <1>4 DEF s, lines
  <2> QED
    BY <2>3, <2>4, PostBalances
<1>5. ASSUME NEW c \in Callers, NEW a \in Journal!Reach(c), NEW n \in Postings,
             NEW currency \in Currencies,
             Journal!Write(c, a, [amount |-> n, currency |-> currency])
      PROVE  BalanceIInv'
  <2>1. [amount |-> n, currency |-> currency] \in Journal!Money
    BY LedgerAssumption DEF Journal!LedgerConstants, Journal!Money
  <2> QED
    BY <1>5, <2>1, WriteBalances
<1> QED
  BY <1>1, <1>2, <1>3, <1>4, <1>5, PostAppendsBalances, EntriesBalances
     DEF Journal!Next, Journal!PostReversal

LEMMA BalanceInit == Journal!Init => BalanceIInv
<1> SUFFICES ASSUME Journal!Init PROVE BalanceIInv
  OBVIOUS
<1>1. /\ heap = <<>> /\ entries = <<>> /\ Len(heap) = 0 /\ Len(entries) = 0
      /\ own = [c \in Callers |-> {}] /\ listed = {}
      /\ posting = [c \in Callers |-> Journal!NotPosting]
  BY DEF Journal!Init
<1>2. HistoryIInv
  <2>1. own \in [Callers -> SUBSET (1 .. 0)]
    BY <1>1
  <2> QED
    BY <1>1, <2>1 DEF HistoryIInv, SlicesTyped, JournalsOwn, Elements
<1>3. LinesSettled
  <2>1. LinesOf(heap, entries) = <<>>
    BY <1>1, FoldOfSteps DEF LinesOf
  <2>2. ASSUME NEW currency \in Currencies
        PROVE  TotalAfter(currency, <<>>, 0) = Journal!Zero(currency)
    <3>1. <<>> \in Seq(Journal!Line)
      OBVIOUS
    <3> QED
      BY <3>1, TotalAfterSteps
  <2> QED
    BY <2>1, <2>2 DEF LinesSettled, Settled
<1>4. SlicesHoldLines /\ OwnersApart /\ ValidatedStays /\ ListedIsPosted
  BY <1>1 DEF SlicesHoldLines, OwnersApart, ValidatedStays, ListedIsPosted,
              Journal!NotPosting
<1> QED
  BY <1>2, <1>3, <1>4 DEF BalanceIInv

(* Total's comment, "the sum over all accounts of all currencies must be   *)
(* zero": however sums wrap, entries are reversed and posted side by side, *)
(* in every currency the lines and the balances come to zero, unless a     *)
(* caller has written into what Entries returned.                          *)
THEOREM AccountsBalance == BooksSpec => []BooksBalance
<1>1. Journal!Init => BalanceIInv
  BY BalanceInit
<1>2. BalanceIInv /\ [Journal!Next]_(Journal!vars) => BalanceIInv'
  BY BalanceNext
<1>3. BalanceIInv => BooksBalance
  <2>1. CASE rewritten
    BY <2>1 DEF BooksBalance, Journal!BooksBalance
  <2>2. ASSUME BalanceIInv, ~rewritten PROVE BooksBalance
    BY <2>2, JournalIsReadable, SettledBooksBalance
       DEF BalanceIInv, LinesSettled, BooksBalance
  <2> QED
    BY <2>1, <2>2
<1> QED BY <1>1, <1>2, <1>3, BooksAreLedger, PTL DEF Journal!Spec

-----------------------------------------------------------------------------
(* Entries are numbered by their positions, and no two have one slice. *)
EntriesInOrder ==
    /\ nextID = Len(entries)
    /\ \A i \in 1 .. Len(entries) : entries[i].id = i
    /\ \A i, j \in 1 .. Len(entries) : entries[i].lines = entries[j].lines => i = j
    /\ posts \in 0 .. MaxPosts /\ writes \in 0 .. MaxWrites /\ rewritten \in BOOLEAN

LEMMA EntriesKeepOrder ==
  ASSUME BalanceIInv, EntriesInOrder, [Journal!Next]_(Journal!vars)
  PROVE  EntriesInOrder'
<1>0. MaxPosts \in Nat /\ MaxWrites \in Nat
  BY LedgerAssumption DEF Journal!LedgerConstants
<1>1. ASSUME UNCHANGED <<entries, nextID>>, posts' \in 0 .. MaxPosts,
             writes' \in 0 .. MaxWrites, rewritten' \in BOOLEAN
      PROVE  EntriesInOrder'
  BY <1>1 DEF EntriesInOrder
<1>2. CASE Journal!Terminated \/ UNCHANGED Journal!vars
  BY <1>1, <1>2 DEF Journal!Terminated, Journal!vars, Journal!journal, EntriesInOrder
<1>3. ASSUME NEW c \in Callers, NEW named, NEW lines, Journal!Post(c, named, lines)
      PROVE  EntriesInOrder'
  BY <1>0, <1>1, <1>3 DEF Journal!Post, Journal!journal, EntriesInOrder
<1>4. ASSUME NEW c \in Callers, Journal!Entries(c)
      PROVE  EntriesInOrder'
  BY <1>1, <1>4 DEF Journal!Entries, Journal!journal, EntriesInOrder
<1>5. ASSUME NEW c \in Callers, NEW a, NEW m, Journal!Write(c, a, m)
      PROVE  EntriesInOrder'
  BY <1>0, <1>1, <1>5 DEF Journal!Write, Journal!journal, EntriesInOrder
<1>6. ASSUME NEW c \in Callers, Journal!PostAppends(c)
      PROVE  EntriesInOrder'
  <2> DEFINE k == Len(entries)
             entry == [id |-> nextID + 1, lines |-> Len(heap) + 1]
  <2>1. /\ entries' = Append(entries, entry) /\ nextID' = nextID + 1
        /\ UNCHANGED <<posts, writes, rewritten>>
    BY <1>6 DEF Journal!PostAppends, Journal!IDAfter, Journal!JournalSlice
  <2>2. SlicesTyped
    BY DEF BalanceIInv, HistoryIInv
  <2>3. /\ Len(entries') = k + 1 /\ k \in Nat /\ entries'[k + 1] = entry
        /\ \A i \in 1 .. k : entries'[i] = entries[i]
    BY <2>1, <2>2, HeapGrows DEF SlicesTyped
  <2>4. \A i \in 1 .. k : entries[i].lines \in 1 .. Len(heap)
    BY <2>2 DEF SlicesTyped
  <2>5. Len(heap) \in Nat /\ entry.lines = Len(heap) + 1 /\ entry.id = k + 1
    BY <2>2 DEF SlicesTyped, EntriesInOrder
  <2> HIDE DEF k, entry
  <2>6. \A i \in 1 .. k + 1 : i \in 1 .. k \/ i = k + 1
    BY <2>3
  <2>7. \A i \in 1 .. k + 1 : entries'[i].id = i
    BY <2>3, <2>5, <2>6 DEF EntriesInOrder, k
  <2>8. \A i, j \in 1 .. k + 1 : entries'[i].lines = entries'[j].lines => i = j
    <3> TAKE i, j \in 1 .. k + 1
    <3>1. CASE i \in 1 .. k /\ j \in 1 .. k
      BY <2>3, <3>1 DEF EntriesInOrder, k
    <3>2. CASE i \in 1 .. k /\ j = k + 1
      BY <2>3, <2>4, <2>5, <3>2
    <3>3. CASE i = k + 1 /\ j \in 1 .. k
      BY <2>3, <2>4, <2>5, <3>3
    <3> QED
      BY <2>6, <3>1, <3>2, <3>3
  <2> QED
    BY <2>1, <2>3, <2>7, <2>8 DEF EntriesInOrder, k
<1> QED
  BY <1>2, <1>3, <1>4, <1>5, <1>6
     DEF Journal!Next, Journal!PostBalance, Journal!PostReversal

(* Types of the journal: entries are numbered by their positions, the      *)
(* slices of its entries are apart and hold lines, and nobody holds a      *)
(* reference to a slice that does not exist.                               *)
THEOREM JournalTypeCorrect == BooksSpec => []Journal!TypeOK
<1>1. Journal!Init => BalanceIInv /\ EntriesInOrder
  <2> SUFFICES ASSUME Journal!Init PROVE EntriesInOrder
    BY BalanceInit
  <2>1. entries = <<>> /\ Len(entries) = 0 /\ nextID = 0 /\ posts = 0 /\ writes = 0
        /\ rewritten = FALSE
    BY DEF Journal!Init
  <2>2. MaxPosts \in Nat /\ MaxWrites \in Nat
    BY LedgerAssumption DEF Journal!LedgerConstants
  <2>3. posts \in 0 .. MaxPosts /\ writes \in 0 .. MaxWrites /\ rewritten \in BOOLEAN
    <3>1. posts \in 0 .. MaxPosts /\ writes \in 0 .. MaxWrites
      BY <2>1, <2>2
    <3>2. rewritten \in BOOLEAN
      BY <2>1, Zenon
    <3> QED
      BY <3>1, <3>2
  <2>4. \A i \in 1 .. Len(entries) : FALSE
    BY <2>1
  <2> QED
    BY <2>1, <2>3, <2>4 DEF EntriesInOrder
<1>2. BalanceIInv /\ EntriesInOrder /\ [Journal!Next]_(Journal!vars)
        => BalanceIInv' /\ EntriesInOrder'
  BY BalanceNext, EntriesKeepOrder
<1>3. BalanceIInv /\ EntriesInOrder => Journal!TypeOK
  <2> SUFFICES ASSUME BalanceIInv, EntriesInOrder PROVE Journal!TypeOK
    OBVIOUS
  <2>0. /\ HistoryIInv /\ SlicesTyped /\ SlicesHoldLines /\ ValidatedStays /\ ListedIsPosted
    BY DEF BalanceIInv, HistoryIInv
  <2>1. DOMAIN heap = 1 .. Len(heap) /\ DOMAIN entries = 1 .. Len(entries)
    BY <2>0 DEF SlicesTyped
  <2>2. \A a \in DOMAIN heap : heap[a] \in Seq(Journal!Line)
    BY <2>0 DEF SlicesHoldLines
  <2>3. posting \in [Callers -> {Journal!NotPosting} \cup DOMAIN heap]
    <3>1. \A c \in Callers : posting[c] \in {Journal!NotPosting} \cup DOMAIN heap
      BY <2>0, <2>1 DEF ValidatedStays, SlicesTyped
    <3> QED
      BY <2>0, <3>1 DEF ValidatedStays
  <2>4. \A c \in Callers : Journal!Reach(c) \subseteq DOMAIN heap
    BY <2>0, <2>1 DEF SlicesTyped, ListedIsPosted, Journal!Reach
  <2>5. \A i \in DOMAIN entries : entries[i].id = i /\ entries[i].lines \in DOMAIN heap
    BY <2>0, <2>1 DEF SlicesTyped, EntriesInOrder
  <2>6. \A i, j \in DOMAIN entries : entries[i].lines = entries[j].lines => i = j
    BY <2>1 DEF EntriesInOrder
  <2> QED
    BY <2>2, <2>3, <2>4, <2>5, <2>6 DEF Journal!TypeOK, EntriesInOrder
<1> QED BY <1>1, <1>2, <1>3, BooksAreLedger, PTL DEF Journal!Spec
-----------------------------------------------------------------------------
(* The containers: the ring. *)

(* The slot o places after slot h. *)
After(h, o) == IF h + o < size THEN h + o ELSE h + o - size

(* A ring of elements of T. *)
RingType(T) == [items : [Shelf!Slots -> T \cup {0}], head : Shelf!Slots, count : 0 .. size]

(* The live slots are those of the first count places after the head. *)
Live(r) == \A o \in Shelf!Slots : r.items[After(r.head, o)] # 0 <=> o < r.count

IsRing(r, T) == r \in RingType(T) /\ Live(r)

Sized == size \in Nat \ {0}

LEMMA RemainderIsAfter ==
  ASSUME Sized, NEW h \in Shelf!Slots, NEW o \in 0 .. size
  PROVE  /\ (h + o) % size = After(h, o)
         /\ After(h, o) \in Shelf!Slots
<1>0. size \in Nat \ {0} /\ h \in 0 .. size - 1 /\ h + o \in 0 .. 2 * size - 1
  BY DEF Sized, Shelf!Slots
<1> DEFINE x == h + o
           q == x \div size
           m == x % size
<1>1. x = size * q + m /\ m \in 0 .. size - 1 /\ q \in Int
  BY <1>0
<1>2. x \in 0 .. 2 * size - 1
  BY <1>0
<1> HIDE DEF q, m, x
<1>3. q >= 2 => size * q >= size * 2
  BY <1>0, <1>1
<1>4. q <= -1 => size * q <= -size
  BY <1>0, <1>1
<1>5. q = 0 \/ q = 1
  BY <1>0, <1>1, <1>2, <1>3, <1>4
<1>6. CASE q = 0
  <2>1. x = m
    BY <1>0, <1>1, <1>6
  <2> QED
    BY <1>0, <1>1, <2>1 DEF After, Shelf!Slots, x, m
<1>7. CASE q = 1
  <2>1. x = size + m
    BY <1>0, <1>1, <1>7
  <2> QED
    BY <1>0, <1>1, <2>1 DEF After, Shelf!Slots, x, m
<1> QED
  BY <1>5, <1>6, <1>7

(* No slot is passed twice in one turn, and every slot is passed. *)
LEMMA AfterIsTurn ==
  ASSUME Sized, NEW h \in Shelf!Slots
  PROVE  /\ \A o, p \in Shelf!Slots : After(h, o) = After(h, p) => o = p
         /\ \A i \in Shelf!Slots : \E o \in Shelf!Slots : After(h, o) = i
<1>1. size \in Nat \ {0} /\ h \in 0 .. size - 1 /\ Shelf!Slots = 0 .. size - 1
  BY DEF Sized, Shelf!Slots
<1>2. \A o, p \in Shelf!Slots : After(h, o) = After(h, p) => o = p
  BY <1>1 DEF After
<1>3. ASSUME NEW i \in Shelf!Slots PROVE \E o \in Shelf!Slots : After(h, o) = i
  <2>1. CASE i >= h
    <3>1. i - h \in Shelf!Slots /\ After(h, i - h) = i
      BY <1>1, <2>1 DEF After
    <3> QED BY <3>1
  <2>2. CASE i < h
    <3>1. i - h + size \in Shelf!Slots /\ After(h, i - h + size) = i
      BY <1>1, <2>2 DEF After
    <3> QED BY <3>1
  <2> QED BY <1>1, <2>1, <2>2
<1> QED BY <1>2, <1>3

(* Oldest first. *)
LEMMA InOrderIs ==
  ASSUME Sized, NEW T, 0 \notin T, NEW r, IsRing(r, T)
  PROVE  /\ Shelf!InOrder(r) \in Seq(T)
         /\ Len(Shelf!InOrder(r)) = r.count
         /\ \A i \in 1 .. r.count : Shelf!InOrder(r)[i] = r.items[After(r.head, i - 1)]
<1>1. /\ size \in Nat \ {0} /\ r.head \in Shelf!Slots /\ r.count \in 0 .. size
      /\ r.items \in [Shelf!Slots -> T \cup {0}]
  BY DEF Sized, IsRing, RingType
<1>2. ASSUME NEW i \in 1 .. r.count
      PROVE  /\ (r.head + i - 1) % size = After(r.head, i - 1)
             /\ After(r.head, i - 1) \in Shelf!Slots
             /\ r.items[After(r.head, i - 1)] \in T
  <2>1. i - 1 \in 0 .. size /\ i - 1 \in Shelf!Slots /\ i - 1 < r.count
    BY <1>1 DEF Shelf!Slots
  <2>2. r.head + i - 1 = r.head + (i - 1)
    BY <1>1 DEF Shelf!Slots
  <2>3. After(r.head, i - 1) \in Shelf!Slots /\ (r.head + (i - 1)) % size = After(r.head, i - 1)
    BY <1>1, <2>1, RemainderIsAfter
  <2>4. r.items[After(r.head, i - 1)] # 0
    BY <2>1 DEF IsRing, Live
  <2> QED BY <1>1, <2>2, <2>3, <2>4
<1>3. Shelf!InOrder(r) = [i \in 1 .. r.count |-> r.items[After(r.head, i - 1)]]
  BY <1>2 DEF Shelf!InOrder
<1> QED
  BY <1>1, <1>2, <1>3

(* The oldest element leaves a ring that is not empty. *)
LEMMA DropHeadIs ==
  ASSUME Sized, NEW T, 0 \notin T, NEW r, IsRing(r, T), r.count > 0
  PROVE  /\ IsRing(Shelf!DropHead(r), T)
         /\ Shelf!DropHead(r).count = r.count - 1
         /\ Shelf!InOrder(Shelf!DropHead(r)) = Tail(Shelf!InOrder(r))
         /\ r.items[r.head] = Head(Shelf!InOrder(r))
<1> DEFINE d == Shelf!DropHead(r)
<1>1. /\ size \in Nat \ {0} /\ r.head \in Shelf!Slots /\ r.count \in 0 .. size
      /\ r.items \in [Shelf!Slots -> T \cup {0}] /\ Shelf!Slots = 0 .. size - 1
      /\ r \in RingType(T) /\ 1 \in 0 .. size
  BY DEF Sized, IsRing, RingType, Shelf!Slots
<1>r. r = [items |-> r.items, head |-> r.head, count |-> r.count]
  BY <1>1 DEF RingType
<1>2. (r.head + 1) % size = After(r.head, 1) /\ After(r.head, 1) \in Shelf!Slots
  BY <1>1, RemainderIsAfter
<1>3. d = [items |-> [r.items EXCEPT ![r.head] = 0], head |-> After(r.head, 1),
           count |-> r.count - 1]
  BY <1>1, <1>2, <1>r DEF Shelf!DropHead, Shelf!Zero
<1> HIDE DEF d
<1>4. d \in RingType(T) /\ d.count = r.count - 1 /\ d.head = After(r.head, 1)
      /\ d.items = [r.items EXCEPT ![r.head] = 0]
  BY <1>1, <1>2, <1>3 DEF RingType
<1>5. ASSUME NEW o \in Shelf!Slots, o < size - 1
      PROVE  /\ o + 1 \in Shelf!Slots /\ After(d.head, o) = After(r.head, o + 1)
             /\ After(r.head, o + 1) # r.head
             /\ d.items[After(d.head, o)] = r.items[After(r.head, o + 1)]
  <2>1. o + 1 \in Shelf!Slots
    BY <1>1, <1>5
  <2>3. After(d.head, o) = After(r.head, o + 1)
    <3>1. d.head = IF r.head + 1 < size THEN r.head + 1 ELSE 0
      BY <1>1, <1>4 DEF After
    <3> QED
      BY <1>1, <1>5, <3>1 DEF After
  <2>2. After(r.head, o + 1) # r.head /\ After(r.head, o + 1) \in Shelf!Slots
    BY <1>1, <1>5 DEF After
  <2> QED
    BY <1>1, <1>4, <2>1, <2>2, <2>3
<1>6. ASSUME NEW o \in Shelf!Slots, o = size - 1
      PROVE  d.items[After(d.head, o)] = 0
  <2>1. After(d.head, o) = r.head
    BY <1>1, <1>4, <1>6 DEF After
  <2> QED
    BY <1>1, <1>4, <2>1
<1>7. Live(d)
  <2> SUFFICES ASSUME NEW o \in Shelf!Slots
               PROVE  d.items[After(d.head, o)] # 0 <=> o < d.count
    BY DEF Live
  <2>1. CASE o < size - 1
    <3>1. r.items[After(r.head, o + 1)] # 0 <=> o + 1 < r.count
      BY <1>5, <2>1 DEF IsRing, Live
    <3> QED
      BY <1>1, <1>4, <1>5, <2>1, <3>1
  <2>2. CASE o = size - 1
    BY <1>1, <1>4, <1>6, <2>2
  <2> QED
    BY <1>1, <2>1, <2>2
<1>8. IsRing(d, T)
  BY <1>4, <1>7 DEF IsRing
<1>9. /\ Shelf!InOrder(r) \in Seq(T) /\ Len(Shelf!InOrder(r)) = r.count
      /\ \A i \in 1 .. r.count : Shelf!InOrder(r)[i] = r.items[After(r.head, i - 1)]
  BY InOrderIs
<1>10. /\ Shelf!InOrder(d) \in Seq(T) /\ Len(Shelf!InOrder(d)) = r.count - 1
       /\ \A i \in 1 .. r.count - 1 : Shelf!InOrder(d)[i] = d.items[After(d.head, i - 1)]
  BY <1>4, <1>8, InOrderIs
<1>11. /\ Tail(Shelf!InOrder(r)) \in Seq(T) /\ Len(Tail(Shelf!InOrder(r))) = r.count - 1
       /\ \A i \in 1 .. r.count - 1 : Tail(Shelf!InOrder(r))[i] = Shelf!InOrder(r)[i + 1]
  BY <1>1, <1>9
<1>12. ASSUME NEW i \in 1 .. r.count - 1
       PROVE  Shelf!InOrder(d)[i] = Tail(Shelf!InOrder(r))[i]
  <2>1. i - 1 \in Shelf!Slots /\ i - 1 < size - 1 /\ (i - 1) + 1 = i /\ i + 1 \in 1 .. r.count
        /\ (i + 1) - 1 = i
    BY <1>1
  <2>2. d.items[After(d.head, i - 1)] = r.items[After(r.head, i)]
    BY <1>5, <2>1
  <2> QED
    BY <1>9, <1>10, <1>11, <2>1, <2>2
<1>13. Shelf!InOrder(d) = Tail(Shelf!InOrder(r))
  BY <1>10, <1>11, <1>12
<1>14. r.items[r.head] = Head(Shelf!InOrder(r))
  <2>1. After(r.head, 0) = r.head /\ 1 \in 1 .. r.count /\ 1 - 1 = 0
    BY <1>1 DEF After
  <2> QED
    BY <1>1, <1>9, <2>1
<1> QED
  BY <1>4, <1>8, <1>13, <1>14 DEF d

(* An element joins a ring that is not full. *)
LEMMA WriteIs ==
  ASSUME Sized, NEW T, 0 \notin T, NEW r, IsRing(r, T), r.count < size, NEW v \in T
  PROVE  /\ IsRing(Shelf!Write(r, v), T)
         /\ Shelf!Write(r, v).count = r.count + 1
         /\ Shelf!InOrder(Shelf!Write(r, v)) = Append(Shelf!InOrder(r), v)
<1> DEFINE w == Shelf!Write(r, v)
           tail == After(r.head, r.count)
<1>1. /\ size \in Nat \ {0} /\ r.head \in Shelf!Slots /\ r.count \in 0 .. size - 1
      /\ r.items \in [Shelf!Slots -> T \cup {0}] /\ Shelf!Slots = 0 .. size - 1
      /\ r \in RingType(T) /\ r.count \in 0 .. size
  BY DEF Sized, IsRing, RingType, Shelf!Slots
<1>2. (r.head + r.count) % size = tail /\ tail \in Shelf!Slots
  BY <1>1, RemainderIsAfter
<1>r. r = [items |-> r.items, head |-> r.head, count |-> r.count]
  BY <1>1 DEF RingType
<1>3. w = [items |-> [r.items EXCEPT ![tail] = v], head |-> r.head, count |-> r.count + 1]
  BY <1>1, <1>2, <1>r DEF Shelf!Write
<1> HIDE DEF w
<1>4. w \in RingType(T) /\ w.count = r.count + 1 /\ w.head = r.head
      /\ w.items = [r.items EXCEPT ![tail] = v]
  BY <1>1, <1>2, <1>3 DEF RingType
<1>5. ASSUME NEW o \in Shelf!Slots
      PROVE  w.items[After(w.head, o)] = IF o = r.count THEN v ELSE r.items[After(r.head, o)]
  <2>0. o \in 0 .. size
    BY <1>1
  <2>1. After(r.head, o) = tail <=> o = r.count
    BY <1>1, AfterIsTurn
  <2>2. After(r.head, o) \in Shelf!Slots
    BY <1>1, <2>0, RemainderIsAfter
  <2> HIDE DEF tail
  <2> QED
    BY <1>1, <1>2, <1>4, <2>1, <2>2
<1>6. Live(w)
  <2> SUFFICES ASSUME NEW o \in Shelf!Slots
               PROVE  w.items[After(w.head, o)] # 0 <=> o < w.count
    BY DEF Live
  <2>1. r.items[After(r.head, o)] # 0 <=> o < r.count
    BY DEF IsRing, Live
  <2> QED
    BY <1>1, <1>4, <1>5, <2>1
<1>7. IsRing(w, T)
  BY <1>4, <1>6 DEF IsRing
<1>8. /\ Shelf!InOrder(r) \in Seq(T) /\ Len(Shelf!InOrder(r)) = r.count
      /\ \A i \in 1 .. r.count : Shelf!InOrder(r)[i] = r.items[After(r.head, i - 1)]
  BY InOrderIs
<1>9. /\ Shelf!InOrder(w) \in Seq(T) /\ Len(Shelf!InOrder(w)) = r.count + 1
      /\ \A i \in 1 .. r.count + 1 : Shelf!InOrder(w)[i] = w.items[After(w.head, i - 1)]
  BY <1>4, <1>7, InOrderIs
<1>10. /\ Append(Shelf!InOrder(r), v) \in Seq(T)
       /\ Len(Append(Shelf!InOrder(r), v)) = r.count + 1
       /\ \A i \in 1 .. r.count : Append(Shelf!InOrder(r), v)[i] = Shelf!InOrder(r)[i]
       /\ Append(Shelf!InOrder(r), v)[r.count + 1] = v
  BY <1>1, <1>8
<1>11. ASSUME NEW i \in 1 .. r.count + 1
       PROVE  Shelf!InOrder(w)[i] = Append(Shelf!InOrder(r), v)[i]
  <2>1. i - 1 \in Shelf!Slots /\ (i - 1 = r.count <=> i = r.count + 1)
        /\ (i # r.count + 1 => i \in 1 .. r.count)
    BY <1>1
  <2>2. w.items[After(w.head, i - 1)]
            = IF i - 1 = r.count THEN v ELSE r.items[After(r.head, i - 1)]
    BY <1>5, <2>1
  <2> QED
    BY <1>8, <1>9, <1>10, <2>1, <2>2
<1>12. Shelf!InOrder(w) = Append(Shelf!InOrder(r), v)
  BY <1>9, <1>10, <1>11
<1> QED
  BY <1>4, <1>7, <1>12 DEF w

(* Drop-oldest. *)
LEMMA PushedIs ==
  ASSUME Sized, NEW T, 0 \notin T, NEW r, IsRing(r, T), NEW v \in T
  PROVE  /\ IsRing(Shelf!Pushed(r, v), T)
         /\ Shelf!Pushed(r, v).count = IF r.count = size THEN size ELSE r.count + 1
         /\ Shelf!InOrder(Shelf!Pushed(r, v))
              = Append(IF r.count = size THEN Tail(Shelf!InOrder(r)) ELSE Shelf!InOrder(r), v)
         /\ Shelf!Evicted(r) = IF r.count = size THEN <<Head(Shelf!InOrder(r))>> ELSE <<>>
<1>1. size \in Nat \ {0} /\ r.count \in 0 .. size
  BY DEF Sized, IsRing, RingType
<1>2. CASE r.count = size
  <2>1. /\ IsRing(Shelf!DropHead(r), T) /\ Shelf!DropHead(r).count = size - 1
        /\ Shelf!InOrder(Shelf!DropHead(r)) = Tail(Shelf!InOrder(r))
        /\ r.items[r.head] = Head(Shelf!InOrder(r))
    BY <1>1, <1>2, DropHeadIs
  <2>3. Shelf!DropHead(r).count < size /\ (size - 1) + 1 = size
    BY <1>1, <2>1
  <2>2. /\ IsRing(Shelf!Write(Shelf!DropHead(r), v), T)
        /\ Shelf!Write(Shelf!DropHead(r), v).count = size
        /\ Shelf!InOrder(Shelf!Write(Shelf!DropHead(r), v))
              = Append(Tail(Shelf!InOrder(r)), v)
    BY <2>1, <2>3, WriteIs
  <2> QED
    BY <1>2, <2>1, <2>2 DEF Shelf!Pushed, Shelf!Evicted
<1>3. CASE r.count # size
  BY <1>1, <1>3, WriteIs DEF Shelf!Pushed, Shelf!Evicted, Shelf!Nothing
<1> QED
  BY <1>2, <1>3

(* A ring holds as many elements as it counts. *)
LEMMA RingHolds ==
  ASSUME Sized, NEW T, NEW r, IsRing(r, T)
  PROVE  Cardinality({i \in Shelf!Slots : r.items[i] # 0}) = r.count
<1> DEFINE held == {i \in Shelf!Slots : r.items[i] # 0}
           places == 0 .. r.count - 1
           turn == [o \in places |-> After(r.head, o)]
<1>1. /\ size \in Nat \ {0} /\ r.head \in Shelf!Slots /\ r.count \in 0 .. size
      /\ Shelf!Slots = 0 .. size - 1 /\ places \subseteq Shelf!Slots
  BY DEF Sized, IsRing, RingType, Shelf!Slots
<1>2. turn \in Bijection(places, held)
  <2>1. ASSUME NEW o \in places PROVE turn[o] \in held
    <3>0. o \in 0 .. size
      BY <1>1
    <3>1. After(r.head, o) \in Shelf!Slots
      BY <1>1, <3>0, RemainderIsAfter
    <3> QED
      BY <1>1, <3>1 DEF IsRing, Live
  <2>2. ASSUME NEW o \in places, NEW p \in places, turn[o] = turn[p] PROVE o = p
    <3>1. o \in Shelf!Slots /\ p \in Shelf!Slots
      BY <1>1
    <3>2. After(r.head, o) = After(r.head, p)
      BY <2>2
    <3> HIDE DEF turn, places, held
    <3> QED
      BY <1>1, <3>1, <3>2, AfterIsTurn
  <2>3. ASSUME NEW i \in held PROVE \E o \in places : turn[o] = i
    <3>0. i \in Shelf!Slots
      OBVIOUS
    <3>1. PICK o \in Shelf!Slots : After(r.head, o) = i
      <4> HIDE DEF turn, places, held
      <4> QED BY <1>1, <3>0, AfterIsTurn
    <3>2. o \in places
      BY <1>1, <3>1 DEF IsRing, Live
    <3> QED
      BY <3>1, <3>2
  <2> QED
    BY <2>1, <2>2, <2>3 DEF Bijection, Injection, Surjection, IsInjective
<1>3. IsFiniteSet(places) /\ Cardinality(places) = r.count
  <2>1. 0 \in Int /\ r.count - 1 \in Int /\ (0 > r.count - 1 <=> r.count = 0)
        /\ (r.count - 1) - 0 + 1 = r.count
    BY <1>1
  <2> QED
    BY <2>1, FS_Interval
<1> HIDE DEF turn, held, places
<1>4. Cardinality(held) = Cardinality(places)
  BY <1>2, <1>3, FS_Bijection DEF ExistsBijection
<1> QED
  BY <1>3, <1>4 DEF held

-----------------------------------------------------------------------------
(* Map. *)
Rings == {r \in RingType(Values) : Live(r)}
EmptyRing == [items |-> [i \in Shelf!Slots |-> Shelf!Zero], head |-> 0, count |-> 0]

(* A ring with the image of one more element. *)
imaging == [v \in Values |-> [r \in Rings |-> Shelf!Pushed(r, Image[v])]]

LEMMA ShelfValues ==
  /\ 0 \notin Values /\ 0 \notin Keys /\ Image \in [Values -> Values]
  /\ Priority \in [Values -> Int]
  BY ShelfAssumption DEF Shelf!ContainersConstants

LEMMA EmptyRingIs ==
  ASSUME Sized, NEW T, 0 \notin T
  PROVE  IsRing(EmptyRing, T) /\ EmptyRing.count = 0 /\ Shelf!InOrder(EmptyRing) = <<>>
<1>1. size \in Nat \ {0} /\ Shelf!Slots = 0 .. size - 1
  BY DEF Sized, Shelf!Slots
<1>2. EmptyRing \in RingType(T)
  BY <1>1 DEF EmptyRing, RingType, Shelf!Zero
<1>3. ASSUME NEW o \in Shelf!Slots
      PROVE  EmptyRing.items[After(EmptyRing.head, o)] # 0 <=> o < EmptyRing.count
  <2>1. EmptyRing.head = 0 /\ EmptyRing.count = 0 /\ After(EmptyRing.head, o) = o
    BY <1>1 DEF EmptyRing, After
  <2>2. EmptyRing.items[o] = 0
    BY DEF EmptyRing, Shelf!Zero
  <2> QED
    BY <1>1, <2>1, <2>2
<1>4. IsRing(EmptyRing, T)
  BY <1>2, <1>3 DEF IsRing, Live
<1>5. EmptyRing.count = 0
  BY DEF EmptyRing
<1>6. Shelf!InOrder(EmptyRing) \in Seq(T) /\ Len(Shelf!InOrder(EmptyRing)) = 0
  BY <1>4, <1>5, InOrderIs
<1> QED
  BY <1>4, <1>5, <1>6

LEMMA ImagingSteps ==
  ASSUME Sized, NEW s \in Seq(Values)
  PROVE  /\ Len(s) \in Nat /\ DOMAIN s = 1 .. Len(s)
         /\ \A k \in 1 .. Len(s) : s[k] \in Values /\ Along(imaging, s)[k] = imaging[s[k]]
         /\ KeepTo(Rings, Along(imaging, s), Len(s))
         /\ \A k \in 1 .. Len(s) : \A r \in Rings :
                Along(imaging, s)[k][r] = Shelf!Pushed(r, Image[s[k]])
<1>1. Len(s) \in Nat /\ DOMAIN s = 1 .. Len(s) /\ \A k \in 1 .. Len(s) : s[k] \in Values
  OBVIOUS
<1>2. \A k \in 1 .. Len(s) : Along(imaging, s)[k] = imaging[s[k]]
  BY DEF Along
<1>3. \A v \in Values : \A r \in Rings : imaging[v][r] = Shelf!Pushed(r, Image[v])
  BY DEF imaging
<1>4. ASSUME NEW v \in Values, NEW r \in Rings PROVE Shelf!Pushed(r, Image[v]) \in Rings
  <2>1. IsRing(r, Values) /\ Image[v] \in Values /\ 0 \notin Values
    BY ShelfValues DEF Rings, IsRing
  <2>2. IsRing(Shelf!Pushed(r, Image[v]), Values)
    BY <2>1, PushedIs
  <2> QED
    BY <2>2 DEF IsRing, Rings
<1>5. \A k \in 1 .. Len(s) : \A r \in Rings :
          Along(imaging, s)[k][r] = Shelf!Pushed(r, Image[s[k]])
  BY <1>1, <1>2, <1>3
<1>6. KeepTo(Rings, Along(imaging, s), Len(s))
  BY <1>1, <1>4, <1>5 DEF KeepTo
<1> QED
  BY <1>1, <1>2, <1>5, <1>6

LEMMA ImagingFolds ==
  ASSUME Sized, NEW s \in Seq(Values), NEW base \in Rings
  PROVE  Shelf!FoldLeft(LAMBDA out, v : Shelf!Pushed(out, Image[v]), base, s)
            = FoldOf(base, Along(imaging, s), Len(s))
<1> DEFINE S == DOMAIN s
           Fits(h) == h = [t \in SUBSET S |->
                            IF t = {} THEN base
                            ELSE Shelf!Pushed(h[t \ {Max(t)}], Image[s[Max(t)]])]
           H == CHOOSE h : Fits(h)
           n == Len(s)
           step == Along(imaging, s)
<1>1. /\ n \in Nat /\ S = 1 .. n /\ KeepTo(Rings, step, n)
      /\ \A k \in 1 .. n : \A r \in Rings : step[k][r] = Shelf!Pushed(r, Image[s[k]])
  BY ImagingSteps
<1>2. Shelf!FoldLeft(LAMBDA out, v : Shelf!Pushed(out, Image[v]), base, s) = H[S]
  BY DEF Shelf!FoldLeft, Shelf!MapThenFoldSet, Shelf!Max, Max
<1> HIDE DEF step, n
<1>3. \E h : Fits(h)
  <2>1. PICK h : IsFoldOf(h, base, step, 1 .. n) /\ \A t \in SUBSET (1 .. n) : h[t] \in Rings
    BY <1>1, FoldOfValues
  <2>2. ASSUME NEW t \in SUBSET S, t # {}
        PROVE  h[t] = Shelf!Pushed(h[t \ {Max(t)}], Image[s[Max(t)]])
    <3>1. Max(t) \in 1 .. n /\ t \in SUBSET (1 .. n) /\ t \ {Max(t)} \in SUBSET (1 .. n)
      BY <1>1, <2>2, LastPosition
    <3>2. h[t] = step[Max(t)][h[t \ {Max(t)}]] /\ h[t \ {Max(t)}] \in Rings
      BY <2>1, <2>2, <3>1 DEF IsFoldOf
    <3> QED
      BY <1>1, <3>1, <3>2
  <2>3. h = [t \in SUBSET S |-> h[t]] /\ h[{}] = base
    BY <1>1, <2>1 DEF IsFoldOf
  <2> HIDE DEF S
  <2>4. Fits(h)
    BY <2>2, <2>3
  <2> QED
    BY <2>4
<1>4. Fits(H)
  <2> HIDE DEF Fits
  <2> QED
    BY <1>3, Zenon
<1>5. H[1 .. n] = FoldOf(base, step, n)
  <2> HIDE DEF H
  <2>1. H[{}] = base
    BY <1>4
  <2>2. ASSUME NEW t \in SUBSET (1 .. n), t # {}, H[t \ {Max(t)}] \in Rings
        PROVE  H[t] = step[Max(t)][H[t \ {Max(t)}]]
    <3>1. Max(t) \in 1 .. n
      BY <1>1, <2>2, LastPosition
    <3>2. H[t] = Shelf!Pushed(H[t \ {Max(t)}], Image[s[Max(t)]])
      BY <1>1, <1>4, <2>2
    <3> QED
      BY <1>1, <2>2, <3>1, <3>2
  <2>3. RecursLike(H, Rings, base, step, n)
    BY <2>1, <2>2 DEF RecursLike
  <2> HIDE DEF Fits
  <2> QED
    BY <1>1, <2>3, FoldLike
<1> QED
  BY <1>1, <1>2, <1>5 DEF step, n

(* A new ring takes the images of no more elements than it has slots. *)
LEMMA MapIs ==
  ASSUME Sized, NEW s \in Seq(Values), Len(s) <= size
  PROVE  LET m == FoldOf(EmptyRing, Along(imaging, s), Len(s))
         IN  IsRing(m, Values) /\ Shelf!InOrder(m) = [i \in DOMAIN s |-> Image[s[i]]]
<1> DEFINE n == Len(s)
           step == Along(imaging, s)
           after(k) == FoldOf(EmptyRing, step, k)
           A == {k \in 0 .. n : /\ after(k).count = k
                                /\ Shelf!InOrder(after(k)) = [i \in 1 .. k |-> Image[s[i]]]}
<1>1. /\ n \in Nat /\ DOMAIN s = 1 .. n /\ size \in Nat /\ n <= size
      /\ \A k \in 1 .. n : s[k] \in Values /\ Image[s[k]] \in Values
      /\ KeepTo(Rings, step, n)
      /\ \A k \in 1 .. n : \A r \in Rings : step[k][r] = Shelf!Pushed(r, Image[s[k]])
  BY ImagingSteps, ShelfValues DEF Sized
<1>2. /\ EmptyRing \in Rings /\ EmptyRing.count = 0 /\ Shelf!InOrder(EmptyRing) = <<>>
  BY EmptyRingIs, ShelfValues DEF IsRing, Rings
<1> HIDE DEF step, n
<1>4. ASSUME NEW k \in 0 .. n PROVE after(k) \in Rings
  <2>1. KeepTo(Rings, step, k) /\ k \in Nat
    BY <1>1 DEF KeepTo
  <2> QED
    BY <1>2, <2>1, FoldOfStaysIn
<1>5. 0 \in A
  <2>1. after(0) = EmptyRing
    BY <1>1, FoldOfSteps
  <2>2. 0 \in 0 .. n
    BY <1>1
  <2>3. [i \in 1 .. 0 |-> Image[s[i]]] = <<>>
    OBVIOUS
  <2> HIDE DEF after
  <2> QED
    BY <1>2, <2>1, <2>2, <2>3
<1>6. ASSUME NEW k \in 1 .. n, k - 1 \in A PROVE k \in A
  <2> DEFINE p == after(k - 1)
             im == [i \in 1 .. k - 1 |-> Image[s[i]]]
  <2>1. after(k) = step[k][p]
    <3>1. k \in Nat /\ k # 0
      BY <1>1
    <3> QED
      BY <3>1, FoldOfSteps
  <2>2. p \in Rings /\ p.count = k - 1 /\ Shelf!InOrder(p) = im
    BY <1>1, <1>4, <1>6
  <2>3. after(k) = Shelf!Pushed(p, Image[s[k]])
    BY <1>1, <2>1, <2>2
  <2> HIDE DEF after, p
  <2>4. IsRing(p, Values) /\ 0 \notin Values /\ p.count # size /\ Image[s[k]] \in Values
    BY <1>1, <2>2, ShelfValues DEF Rings, IsRing
  <2>5. /\ after(k).count = p.count + 1
        /\ Shelf!InOrder(after(k)) = Append(Shelf!InOrder(p), Image[s[k]])
    BY <2>3, <2>4, PushedIs
  <2>6. Append(im, Image[s[k]]) = [i \in 1 .. k |-> Image[s[i]]]
    <3>1. im \in Seq(Values) /\ Len(im) = k - 1
      BY <1>1
    <3> HIDE DEF im
    <3>2. \A i \in 1 .. k - 1 : im[i] = Image[s[i]]
      BY DEF im
    <3>3. Append(im, Image[s[k]]) \in Seq(Values) /\ Len(Append(im, Image[s[k]])) = k
          /\ \A i \in 1 .. k : Append(im, Image[s[k]])[i] = Image[s[i]]
      BY <1>1, <3>1, <3>2
    <3> QED
      BY <3>3
  <2>7. Shelf!InOrder(after(k)) = [i \in 1 .. k |-> Image[s[i]]]
    BY <2>2, <2>5, <2>6
  <2>8. after(k).count = k /\ k \in 0 .. n
    BY <1>1, <2>2, <2>5
  <2> HIDE DEF im
  <2> QED
    BY <2>7, <2>8
<1>7. \A k \in 0 .. n : k \in A
  <2> HIDE DEF A
  <2> QED
    BY <1>1, <1>5, <1>6, UpTo
<1>8. n \in 0 .. n
  BY <1>1
<1> QED
  BY <1>1, <1>4, <1>7, <1>8 DEF Rings, IsRing, step, n

-----------------------------------------------------------------------------
(* Ring and RecentKeys. *)
RingElements == IF kind = "ring" THEN Values ELSE IF kind = "recent" THEN Keys ELSE {}

(* A sequence in which nothing comes twice. *)
NoTwice(s) == \A i, j \in 1 .. Len(s) : s[i] = s[j] => i = j

Kinds == {"ring", "recent", "lru", "heap"}

(* The ring is sound; RecentKeys' map knows the ring's keys, and these are *)
(* all different.                                                          *)
RingsSound ==
    /\ Sized /\ kind \in Kinds
    /\ IsRing(ring, RingElements)
    /\ kind = "recent" => /\ index = Shelf!Range(Shelf!InOrder(ring))
                          /\ NoTwice(Shelf!InOrder(ring))

LEMMA RingElementsAreThings == 0 \notin RingElements
  BY ShelfValues DEF RingElements

LEMMA InOrderNext ==
  ASSUME size' = size PROVE Shelf!InOrder(ring)' = Shelf!InOrder(ring')
  BY DEF Shelf!InOrder

LEMMA RingTypeNext ==
  ASSUME size' = size, kind' = kind
  PROVE  /\ IsRing(ring, RingElements)' <=> IsRing(ring', RingElements)
         /\ Sized' <=> Sized
  BY DEF IsRing, RingType, Live, After, RingElements, Sized, Shelf!Slots

LEMMA PushImplements ==
  ASSUME RingsSound, NEW v \in Values, Shelf!Push(v)
  PROVE  RingsSound' /\ Shelf!C!Push(v)
<1> DEFINE s == Shelf!InOrder(ring)
<1>1. /\ kind = "ring" /\ ring' = Shelf!Pushed(ring, v) /\ answer' = Shelf!Evicted(ring)
      /\ kind' = kind /\ size' = size /\ index' = index /\ ll' = ll /\ item' = item
      /\ metrics' = metrics /\ data' = data
  BY DEF Shelf!Push, Shelf!cache
<1>2. /\ Sized /\ RingElements = Values /\ 0 \notin Values /\ IsRing(ring, Values)
      /\ ring.count \in 0 .. size /\ size \in Nat \ {0}
  BY <1>1, ShelfValues DEF RingsSound, RingElements, IsRing, RingType, Sized
<1>3. /\ IsRing(ring', Values)
      /\ Shelf!InOrder(ring')
            = Append(IF ring.count = size THEN Tail(s) ELSE s, v)
      /\ answer' = IF ring.count = size THEN <<Head(s)>> ELSE <<>>
  BY <1>1, <1>2, PushedIs
<1>4. s \in Seq(Values) /\ Len(s) = ring.count
  BY <1>2, InOrderIs
<1>5. RingsSound'
  BY <1>1, <1>2, <1>3, RingTypeNext DEF RingsSound
<1> DEFINE t == Append(s, v)
<1>6. Len(t) = Len(s) + 1 /\ (s # <<>> => Tail(t) = Append(Tail(s), v)) /\ (Len(s) > 0 => s # <<>>)
  BY <1>4
<1>7. Shelf!InOrder(ring') = IF Len(t) > size THEN Tail(t) ELSE t
  BY <1>2, <1>3, <1>4, <1>6
<1>8. (IF kind = "ring" THEN Shelf!InOrder(ring) ELSE <<>>)'
          = Shelf!InOrder(ring')
  BY <1>1, InOrderNext
<1>9. answer' = IF Len(s) = size THEN <<Head(s)>> ELSE <<>>
  BY <1>3, <1>4
<1> HIDE DEF s, t
<1>10. Shelf!C!Push(v)
  BY <1>1, <1>7, <1>8, <1>9, Zenon DEF s, t, Shelf!C!Push, Shelf!C!Newest, Shelf!C!Nothing
<1> QED
  BY <1>5, <1>10

LEMMA PopImplements ==
  ASSUME RingsSound, Shelf!Pop
  PROVE  RingsSound' /\ Shelf!C!Pop
<1> DEFINE s == Shelf!InOrder(ring)
<1>1. /\ kind = "ring" /\ kind' = kind /\ size' = size /\ index' = index /\ ll' = ll
      /\ item' = item /\ metrics' = metrics /\ data' = data
      /\ IF ring.count = 0
         THEN answer' = <<>> /\ ring' = ring
         ELSE answer' = <<ring.items[ring.head]>> /\ ring' = Shelf!DropHead(ring)
  BY DEF Shelf!Pop, Shelf!cache, Shelf!Nothing
<1>2. /\ Sized /\ RingElements = Values /\ 0 \notin Values /\ IsRing(ring, Values)
      /\ ring.count \in 0 .. size /\ size \in Nat \ {0}
  BY <1>1, ShelfValues DEF RingsSound, RingElements, IsRing, RingType, Sized
<1>3. s \in Seq(Values) /\ Len(s) = ring.count /\ (s = <<>> <=> ring.count = 0)
  BY <1>2, InOrderIs
<1>4. /\ IsRing(ring', Values)
      /\ Shelf!InOrder(ring') = IF s = <<>> THEN <<>> ELSE Tail(s)
      /\ answer' = IF s = <<>> THEN <<>> ELSE <<Head(s)>>
  <2>1. CASE ring.count = 0
    BY <1>1, <1>2, <1>3, <2>1
  <2>2. CASE ring.count # 0
    <3>1. ring.count > 0
      BY <1>2, <2>2
    <3> QED
      BY <1>1, <1>2, <1>3, <2>2, <3>1, DropHeadIs
  <2> QED BY <2>1, <2>2
<1>5. RingsSound'
  BY <1>1, <1>2, <1>4, RingTypeNext DEF RingsSound
<1>6. (IF kind = "ring" THEN Shelf!InOrder(ring) ELSE <<>>)' = Shelf!InOrder(ring')
  BY <1>1, InOrderNext
<1> HIDE DEF s
<1>7. Shelf!C!Pop
  BY <1>1, <1>4, <1>6, Zenon DEF s, Shelf!C!Pop, Shelf!C!Nothing
<1> QED
  BY <1>5, <1>7

LEMMA MapImplements ==
  ASSUME RingsSound, Shelf!Map
  PROVE  RingsSound' /\ Shelf!C!Map
<1> DEFINE s == Shelf!InOrder(ring)
<1>1. /\ kind = "ring" /\ kind' = kind /\ size' = size /\ index' = index /\ ll' = ll
      /\ item' = item /\ metrics' = metrics /\ data' = data /\ answer' = answer
  BY DEF Shelf!Map, Shelf!cache
<1>2. /\ Sized /\ RingElements = Values /\ 0 \notin Values /\ IsRing(ring, Values)
      /\ ring.count \in 0 .. size /\ size \in Nat \ {0}
  BY <1>1, ShelfValues DEF RingsSound, RingElements, IsRing, RingType, Sized
<1>3. s \in Seq(Values) /\ Len(s) = ring.count
  BY <1>2, InOrderIs
<1>4. ring' = FoldOf(EmptyRing, Along(imaging, s), Len(s))
  <2>1. ring' = Shelf!FoldLeft(LAMBDA out, v : Shelf!Pushed(out, Image[v]), EmptyRing, s)
    BY Zenon DEF Shelf!Map, EmptyRing
  <2>2. EmptyRing \in Rings
    BY <1>2, EmptyRingIs DEF IsRing, Rings
  <2> QED
    BY <1>2, <1>3, <2>1, <2>2, ImagingFolds
<1>5. IsRing(ring', Values) /\ Shelf!InOrder(ring') = [i \in DOMAIN s |-> Image[s[i]]]
  BY <1>2, <1>3, <1>4, MapIs
<1>6. RingsSound'
  BY <1>1, <1>2, <1>5, RingTypeNext DEF RingsSound
<1>7. (IF kind = "ring" THEN Shelf!InOrder(ring) ELSE <<>>)' = Shelf!InOrder(ring')
  BY <1>1, InOrderNext
<1> HIDE DEF s
<1>8. Shelf!C!Map
  BY <1>1, <1>5, <1>7, Zenon DEF s, Shelf!C!Map
<1> QED
  BY <1>6, <1>8

(* What happens to the keys of a window without duplicates. *)
LEMMA WindowGrows ==
  ASSUME NEW T, NEW s \in Seq(T), NoTwice(s), NEW k \in T, k \notin Shelf!Range(s)
  PROVE  /\ Append(s, k) \in Seq(T) /\ NoTwice(Append(s, k))
         /\ Shelf!Range(Append(s, k)) = Shelf!Range(s) \cup {k}
<1> DEFINE t == Append(s, k)
           n == Len(s)
<1>1. /\ n \in Nat /\ DOMAIN s = 1 .. n /\ t \in Seq(T) /\ Len(t) = n + 1 /\ DOMAIN t = 1 .. n + 1
      /\ t[n + 1] = k /\ \A i \in 1 .. n : t[i] = s[i]
  OBVIOUS
<1> HIDE DEF t, n
<1>2. \A i \in 1 .. n : s[i] # k
  BY <1>1 DEF Shelf!Range
<1>3. NoTwice(t)
  BY <1>1, <1>2 DEF NoTwice, n
<1>4. Shelf!Range(t) = Shelf!Range(s) \cup {k}
  BY <1>1 DEF Shelf!Range
<1> QED
  BY <1>1, <1>3, <1>4 DEF t

LEMMA WindowShrinks ==
  ASSUME NEW T, NEW s \in Seq(T), NoTwice(s), s # <<>>
  PROVE  /\ Tail(s) \in Seq(T) /\ NoTwice(Tail(s))
         /\ Shelf!Range(Tail(s)) = Shelf!Range(s) \ {Head(s)}
<1> DEFINE t == Tail(s)
           n == Len(s)
<1>1. /\ n \in Nat \ {0} /\ DOMAIN s = 1 .. n /\ t \in Seq(T) /\ Len(t) = n - 1
      /\ DOMAIN t = 1 .. n - 1 /\ Head(s) = s[1] /\ \A i \in 1 .. n - 1 : t[i] = s[i + 1]
  OBVIOUS
<1> HIDE DEF t, n
<1>2. NoTwice(t)
  <2> SUFFICES ASSUME NEW i \in 1 .. n - 1, NEW j \in 1 .. n - 1, t[i] = t[j] PROVE i = j
    BY <1>1 DEF NoTwice
  <2>1. i + 1 \in 1 .. n /\ j + 1 \in 1 .. n /\ s[i + 1] = s[j + 1]
    BY <1>1
  <2> QED
    BY <1>1, <2>1 DEF NoTwice, n
<1>3. ASSUME NEW x \in Shelf!Range(t) PROVE x \in Shelf!Range(s) /\ x # s[1]
  <2>1. PICK i \in 1 .. n - 1 : x = s[i + 1]
    BY <1>1, <1>3 DEF Shelf!Range
  <2>2. i + 1 \in 1 .. n /\ 1 \in 1 .. n /\ i + 1 # 1
    BY <1>1
  <2>3. s[i + 1] # s[1]
    BY <2>2 DEF NoTwice, n
  <2> QED
    BY <1>1, <2>1, <2>2, <2>3 DEF Shelf!Range
<1>4. ASSUME NEW x \in Shelf!Range(s), x # s[1] PROVE x \in Shelf!Range(t)
  <2>1. PICK i \in 1 .. n : x = s[i]
    BY <1>1 DEF Shelf!Range
  <2>2. i - 1 \in 1 .. n - 1 /\ (i - 1) + 1 = i
    BY <1>1, <1>4, <2>1
  <2>3. t[i - 1] = x
    BY <1>1, <2>1, <2>2
  <2> QED
    BY <1>1, <2>2, <2>3 DEF Shelf!Range
<1> QED
  BY <1>1, <1>2, <1>3, <1>4 DEF t

LEMMA SeenImplements ==
  ASSUME RingsSound, NEW k \in Keys, Shelf!Seen(k)
  PROVE  RingsSound' /\ Shelf!C!Seen(k)
<1> DEFINE s == Shelf!InOrder(ring)
<1>1. /\ kind = "recent" /\ kind' = kind /\ size' = size /\ ll' = ll
      /\ item' = item /\ metrics' = metrics /\ data' = data
      /\ answer' = IF k \in index THEN <<k>> ELSE <<>>
      /\ k \in index => ring' = ring /\ index' = index
      /\ k \notin index => /\ ring' = Shelf!Pushed(ring, k)
                           /\ index' = (index \ Shelf!Range(Shelf!Evicted(ring))) \cup {k}
  BY DEF Shelf!Seen, Shelf!cache, Shelf!Nothing
<1>2. /\ Sized /\ RingElements = Keys /\ 0 \notin Keys /\ IsRing(ring, Keys)
      /\ ring.count \in 0 .. size /\ size \in Nat \ {0}
      /\ index = Shelf!Range(s) /\ NoTwice(s)
  BY <1>1, ShelfValues DEF RingsSound, RingElements, IsRing, RingType, Sized
<1>3. s \in Seq(Keys) /\ Len(s) = ring.count
  BY <1>2, InOrderIs
<1>4. (IF kind = "recent" THEN Shelf!InOrder(ring) ELSE <<>>)' = Shelf!InOrder(ring')
  BY <1>1, InOrderNext
<1>5. CASE k \in index
  <2>1. RingsSound'
    BY <1>1, <1>2, <1>5, InOrderNext, RingTypeNext DEF RingsSound
  <2>2. Shelf!C!Seen(k)
    <3>1. ring' = ring /\ answer' = <<k>> /\ k \in Shelf!C!Range(s)
      BY <1>1, <1>2, <1>5 DEF Shelf!Range, Shelf!C!Range
    <3> QED
      BY <1>1, <1>4, <3>1, Zenon DEF Shelf!C!Seen
  <2> QED BY <2>1, <2>2
<1>6. CASE k \notin index
  <2> DEFINE u == IF ring.count = size THEN Tail(s) ELSE s
             t == Append(s, k)
  <2>1. /\ IsRing(ring', Keys) /\ Shelf!InOrder(ring') = Append(u, k)
        /\ Shelf!Evicted(ring) = IF ring.count = size THEN <<Head(s)>> ELSE <<>>
        /\ k \notin Shelf!Range(s) /\ answer' = <<>>
    BY <1>1, <1>2, <1>6, PushedIs
  <2>2. /\ u \in Seq(Keys) /\ NoTwice(u)
        /\ Shelf!Range(u) = Shelf!Range(s) \ Shelf!Range(Shelf!Evicted(ring))
    <3>1. CASE ring.count = size
      <4>1. s # <<>>
        BY <1>2, <1>3, <3>1
      <4>2. Shelf!Range(<<Head(s)>>) = {Head(s)}
        BY DEF Shelf!Range
      <4> QED
        BY <1>2, <1>3, <2>1, <3>1, <4>1, <4>2, WindowShrinks
    <3>2. CASE ring.count # size
      <4>1. Shelf!Range(<<>>) = {}
        BY DEF Shelf!Range
      <4> QED
        BY <1>2, <1>3, <2>1, <3>2, <4>1
    <3> QED BY <3>1, <3>2
  <2>3. k \notin Shelf!Range(u)
    BY <2>1, <2>2
  <2> HIDE DEF s, u
  <2>4. NoTwice(Append(u, k)) /\ Shelf!Range(Append(u, k)) = Shelf!Range(u) \cup {k}
    BY <2>2, <2>3, WindowGrows
  <2>5. RingsSound'
    <3>1. NoTwice(Shelf!InOrder(ring')) /\ index' = Shelf!Range(Shelf!InOrder(ring'))
      BY <1>1, <1>2, <1>6, <2>1, <2>2, <2>4
    <3>2. Shelf!Range(Shelf!InOrder(ring))' = Shelf!Range(Shelf!InOrder(ring'))
          /\ NoTwice(Shelf!InOrder(ring))' = NoTwice(Shelf!InOrder(ring'))
      <4>1. Shelf!InOrder(ring)' = Shelf!InOrder(ring')
        BY <1>1, InOrderNext
      <4> QED
        BY <4>1, Zenon DEF Shelf!Range, NoTwice
    <3> QED
      BY <1>1, <1>2, <2>1, <3>1, <3>2, RingTypeNext DEF RingsSound
  <2>6. Shelf!C!Seen(k)
    <3>1. k \notin Shelf!C!Range(s)
      BY <2>1 DEF Shelf!Range, Shelf!C!Range
    <3>2. /\ Len(t) = Len(s) + 1 /\ (s # <<>> => Tail(t) = Append(Tail(s), k))
          /\ (Len(s) > 0 => s # <<>>)
      BY <1>3
    <3>3. Shelf!InOrder(ring') = IF Len(t) > size THEN Tail(t) ELSE t
      BY <1>2, <1>3, <2>1, <3>2 DEF u
    <3> HIDE DEF t
    <3> QED
      BY <1>1, <1>4, <2>1, <3>1, <3>3, Zenon
         DEF s, t, u, Shelf!C!Seen, Shelf!C!Newest, Shelf!C!Nothing
  <2> QED BY <2>5, <2>6
<1> QED BY <1>5, <1>6

-----------------------------------------------------------------------------
(* The LRU cache. *)

(* Sequences without their i-th element, and with a new first one.         *)
Drop(s, i) == [j \in 1 .. Len(s) - 1 |-> IF j < i THEN s[j] ELSE s[j + 1]]
InFront(x, s) == [j \in 1 .. Len(s) + 1 |-> IF j = 1 THEN x ELSE s[j - 1]]

LEMMA DropIs ==
  ASSUME NEW T, NEW s \in Seq(T), NEW i \in 1 .. Len(s)
  PROVE  /\ Drop(s, i) \in Seq(T) /\ Len(Drop(s, i)) = Len(s) - 1
         /\ DOMAIN Drop(s, i) = 1 .. Len(s) - 1
         /\ \A j \in 1 .. Len(s) - 1 :
                Drop(s, i)[j] = IF j < i THEN s[j] ELSE s[j + 1]
<1>1. Len(s) \in Nat /\ \A j \in 1 .. Len(s) : s[j] \in T
  OBVIOUS
<1>2. \A j \in 1 .. Len(s) - 1 : (IF j < i THEN s[j] ELSE s[j + 1]) \in T
  BY <1>1
<1>3. Len(s) - 1 \in Nat
  BY <1>1
<1> QED
  BY <1>2, <1>3 DEF Drop

LEMMA InFrontIs ==
  ASSUME NEW T, NEW s \in Seq(T), NEW x \in T
  PROVE  /\ InFront(x, s) \in Seq(T) /\ Len(InFront(x, s)) = Len(s) + 1
         /\ DOMAIN InFront(x, s) = 1 .. Len(s) + 1
         /\ InFront(x, s)[1] = x
         /\ <<x>> \o s = InFront(x, s)
<1>1. Len(s) \in Nat /\ \A j \in 1 .. Len(s) : s[j] \in T
  OBVIOUS
<1>2. \A j \in 1 .. Len(s) + 1 : (IF j = 1 THEN x ELSE s[j - 1]) \in T
  BY <1>1
<1>3. /\ InFront(x, s) \in Seq(T) /\ Len(InFront(x, s)) = Len(s) + 1
      /\ DOMAIN InFront(x, s) = 1 .. Len(s) + 1
      /\ \A j \in 1 .. Len(s) + 1 : InFront(x, s)[j] = IF j = 1 THEN x ELSE s[j - 1]
  BY <1>1, <1>2 DEF InFront
<1>4. InFront(x, s)[1] = x
  BY <1>1, <1>3
<1>5. /\ <<x>> \o s \in Seq(T) /\ Len(<<x>> \o s) = Len(s) + 1
      /\ \A j \in 1 .. Len(s) + 1 : (<<x>> \o s)[j] = IF j = 1 THEN x ELSE s[j - 1]
  BY <1>1
<1>6. <<x>> \o s = InFront(x, s)
  BY <1>3, <1>5
<1> QED
  BY <1>3, <1>4, <1>6

LEMMA RemoveAtIs ==
  ASSUME NEW T, NEW s \in Seq(T), NEW i \in 1 .. Len(s)
  PROVE  SubSeq(s, 1, i - 1) \o SubSeq(s, i + 1, Len(s)) = Drop(s, i)
<1> DEFINE n == Len(s)
           a == SubSeq(s, 1, i - 1)
           b == SubSeq(s, i + 1, n)
<1>1. n \in Nat /\ \A j \in 1 .. n : s[j] \in T
  OBVIOUS
<1>2. a \in Seq(T) /\ Len(a) = i - 1 /\ \A j \in 1 .. i - 1 : a[j] = s[j]
  BY <1>1
<1>3. b \in Seq(T) /\ Len(b) = n - i /\ \A j \in 1 .. n - i : b[j] = s[j + i]
  BY <1>1
<1> HIDE DEF a, b, n
<1>4. i \in 1 .. n
  BY DEF n
<1>5. /\ a \o b \in Seq(T) /\ Len(a \o b) = n - 1
      /\ \A j \in 1 .. n - 1 : (a \o b)[j] = IF j <= i - 1 THEN a[j] ELSE b[j - (i - 1)]
  <2>0. a \in Seq(T) /\ b \in Seq(T)
    BY <1>2, <1>3
  <2>1. a \o b \in Seq(T) /\ Len(a \o b) = Len(a) + Len(b)
    BY <2>0
  <2>2. \A j \in 1 .. Len(a) + Len(b) :
            (a \o b)[j] = IF j <= Len(a) THEN a[j] ELSE b[j - Len(a)]
    BY <2>0
  <2>3. Len(a) = i - 1 /\ Len(a) + Len(b) = n - 1
    BY <1>1, <1>2, <1>3, <1>4
  <2> QED
    BY <2>1, <2>2, <2>3
<1>6. ASSUME NEW j \in 1 .. n - 1 PROVE (a \o b)[j] = IF j < i THEN s[j] ELSE s[j + 1]
  <2>1. CASE j < i
    BY <1>1, <1>2, <1>4, <1>5, <2>1
  <2>2. CASE ~(j < i)
    <3>1. j - (i - 1) \in 1 .. n - i /\ (j - (i - 1)) + i = j + 1 /\ ~(j <= i - 1)
      BY <1>1, <1>4, <2>2
    <3> QED
      BY <1>3, <1>5, <2>2, <3>1
  <2> QED BY <2>1, <2>2
<1>7. a \o b = [j \in 1 .. n - 1 |-> IF j < i THEN s[j] ELSE s[j + 1]]
  <2> DEFINE c == a \o b
  <2>1. c \in Seq(T) /\ Len(c) = n - 1
    BY <1>5
  <2> HIDE DEF c
  <2>2. c = [j \in 1 .. n - 1 |-> c[j]]
    BY <2>1
  <2>3. c = [j \in 1 .. n - 1 |-> IF j < i THEN s[j] ELSE s[j + 1]]
    BY <1>6, <2>2 DEF c
  <2> QED
    BY <2>3 DEF c
<1> QED
  BY <1>7 DEF Drop, a, b, n

(* The last element goes. *)
LEMMA FrontIs ==
  ASSUME NEW T, NEW s \in Seq(T), s # <<>>
  PROVE  SubSeq(s, 1, Len(s) - 1) = Drop(s, Len(s)) /\ Len(s) \in 1 .. Len(s)
<1>1. Len(s) \in Nat \ {0} /\ Len(s) \in 1 .. Len(s) /\ \A j \in 1 .. Len(s) : s[j] \in T
  OBVIOUS
<1>2. /\ SubSeq(s, 1, Len(s) - 1) \in Seq(T) /\ Len(SubSeq(s, 1, Len(s) - 1)) = Len(s) - 1
      /\ \A j \in 1 .. Len(s) - 1 : SubSeq(s, 1, Len(s) - 1)[j] = s[j]
  <2> DEFINE m == Len(s) - 1
  <2>1. m \in 0 .. Len(s) /\ \A j \in 1 .. m : s[j] \in T
    BY <1>1
  <2> HIDE DEF m
  <2>2. SubSeq(s, 1, m) \in Seq(T) /\ Len(SubSeq(s, 1, m)) = m
    BY <1>1, <2>1
  <2>3. \A j \in 1 .. m : SubSeq(s, 1, m)[j] = s[j]
    BY <1>1, <2>1
  <2> QED
    BY <2>2, <2>3 DEF m
<1>3. /\ Drop(s, Len(s)) \in Seq(T) /\ Len(Drop(s, Len(s))) = Len(s) - 1
      /\ \A j \in 1 .. Len(s) - 1 : Drop(s, Len(s))[j] = s[j]
  BY <1>1, DropIs
<1> QED
  BY <1>1, <1>2, <1>3

LEMMA DropUnique ==
  ASSUME NEW T, NEW s \in Seq(T), NoTwice(s), NEW i \in 1 .. Len(s)
  PROVE  NoTwice(Drop(s, i)) /\ Shelf!Range(Drop(s, i)) = Shelf!Range(s) \ {s[i]}
<1> DEFINE n == Len(s)
           d == Drop(s, i)
           back(j) == IF j < i THEN j ELSE j + 1
<1>1. /\ n \in Nat /\ i \in 1 .. n /\ DOMAIN s = 1 .. n
      /\ d \in Seq(T) /\ Len(d) = n - 1 /\ DOMAIN d = 1 .. n - 1
      /\ \A j \in 1 .. n - 1 : d[j] = IF j < i THEN s[j] ELSE s[j + 1]
  BY DropIs
<1>2. \A j, k \in 1 .. n : s[j] = s[k] => j = k
  BY DEF NoTwice
<1> HIDE DEF d, n
<1>3. \A j \in 1 .. n - 1 : back(j) \in 1 .. n /\ back(j) # i /\ d[j] = s[back(j)]
  BY <1>1
<1>4. \A j, k \in 1 .. n - 1 : back(j) = back(k) => j = k
  BY <1>1
<1>5. \A j \in 1 .. n : j # i => \E k \in 1 .. n - 1 : back(k) = j
  <2> SUFFICES ASSUME NEW j \in 1 .. n, j # i PROVE \E k \in 1 .. n - 1 : back(k) = j
    OBVIOUS
  <2>1. CASE j < i
    <3>1. j \in 1 .. n - 1 /\ back(j) = j
      BY <1>1, <2>1
    <3> QED BY <3>1
  <2>2. CASE ~(j < i)
    <3>1. j - 1 \in 1 .. n - 1 /\ back(j - 1) = j
      BY <1>1, <2>2
    <3> QED BY <3>1
  <2> QED BY <2>1, <2>2
<1> HIDE DEF back
<1>6. NoTwice(d)
  BY <1>1, <1>2, <1>3, <1>4 DEF NoTwice
<1>7. Shelf!Range(d) = Shelf!Range(s) \ {s[i]}
  <2>1. ASSUME NEW y \in Shelf!Range(d) PROVE y \in Shelf!Range(s) /\ y # s[i]
    <3>1. PICK j \in 1 .. n - 1 : y = d[j]
      BY <1>1 DEF Shelf!Range
    <3>2. back(j) \in 1 .. n /\ back(j) # i /\ y = s[back(j)]
      BY <1>3, <3>1
    <3> QED
      BY <1>1, <1>2, <3>2 DEF Shelf!Range
  <2>2. ASSUME NEW y \in Shelf!Range(s), y # s[i] PROVE y \in Shelf!Range(d)
    <3>1. PICK j \in 1 .. n : y = s[j]
      BY <1>1 DEF Shelf!Range
    <3>2. PICK k \in 1 .. n - 1 : back(k) = j
      BY <1>5, <2>2, <3>1
    <3>3. y = d[k]
      BY <1>3, <3>1, <3>2
    <3> QED
      BY <1>1, <3>3 DEF Shelf!Range
  <2> QED
    BY <2>1, <2>2
<1> QED
  BY <1>6, <1>7 DEF d

LEMMA InFrontUnique ==
  ASSUME NEW T, NEW s \in Seq(T), NoTwice(s), NEW x \in T, x \notin Shelf!Range(s)
  PROVE  NoTwice(InFront(x, s)) /\ Shelf!Range(InFront(x, s)) = {x} \cup Shelf!Range(s)
<1> DEFINE n == Len(s)
           f == InFront(x, s)
<1>0. n \in Nat /\ DOMAIN s = 1 .. n
  OBVIOUS
<1>1. /\ n \in Nat /\ DOMAIN s = 1 .. n /\ Len(f) = n + 1 /\ DOMAIN f = 1 .. n + 1
      /\ f[1] = x /\ \A j \in 1 .. n : f[j + 1] = s[j]
  <2>1. /\ Len(InFront(x, s)) = Len(s) + 1
        /\ DOMAIN InFront(x, s) = 1 .. Len(s) + 1
        /\ InFront(x, s)[1] = x
    BY InFrontIs
  <2>2. \A j \in 1 .. Len(s) : InFront(x, s)[j + 1] = s[j]
    BY DEF InFront
  <2> QED
    BY <1>0, <2>1, <2>2
<1>2. \A j, k \in 1 .. n : s[j] = s[k] => j = k
  BY DEF NoTwice
<1> HIDE DEF f, n
<1>3. \A j \in 1 .. n : s[j] # x
  BY <1>1 DEF Shelf!Range
<1>4. \A j \in 1 .. n + 1 : j # 1 => j - 1 \in 1 .. n /\ f[j] = s[j - 1]
  <2> SUFFICES ASSUME NEW j \in 1 .. n + 1, j # 1 PROVE j - 1 \in 1 .. n /\ f[j] = s[j - 1]
    OBVIOUS
  <2>1. j - 1 \in 1 .. n /\ (j - 1) + 1 = j
    BY <1>1
  <2> QED BY <1>1, <2>1
<1>5. NoTwice(f)
  <2> SUFFICES ASSUME NEW j \in 1 .. n + 1, NEW k \in 1 .. n + 1, f[j] = f[k] PROVE j = k
    BY <1>1 DEF NoTwice
  <2>1. CASE j # 1 /\ k # 1
    <3>1. j - 1 = k - 1
      BY <1>2, <1>4, <2>1
    <3> QED BY <1>1, <3>1
  <2>2. CASE j = 1 \/ k = 1
    BY <1>1, <1>3, <1>4, <2>2
  <2> QED BY <2>1, <2>2
<1>6. Shelf!Range(f) = {x} \cup Shelf!Range(s)
  <2>1. ASSUME NEW y \in Shelf!Range(f) PROVE y \in {x} \cup Shelf!Range(s)
    <3>1. PICK j \in 1 .. n + 1 : y = f[j]
      BY <1>1 DEF Shelf!Range
    <3>2. CASE j = 1
      BY <1>1, <3>1, <3>2
    <3>3. CASE j # 1
      BY <1>1, <1>4, <3>1, <3>3 DEF Shelf!Range
    <3> QED
      BY <3>2, <3>3
  <2>2. ASSUME NEW y \in {x} \cup Shelf!Range(s) PROVE y \in Shelf!Range(f)
    <3>1. 1 \in 1 .. n + 1 /\ \A j \in 1 .. n : j + 1 \in 1 .. n + 1
      BY <1>1
    <3> QED
      BY <1>1, <3>1 DEF Shelf!Range
  <2> QED BY <2>1, <2>2
<1> QED
  BY <1>5, <1>6 DEF f

(* The cache's list with the values its map has: what callers see.         *)
Recency(l, it) == [i \in DOMAIN l |-> <<l[i], it[l[i]]>>]
Pairs == Keys \X Values

LruSound ==
    /\ size \in Nat \ {0}
    /\ ll \in Seq(Keys) /\ NoTwice(ll) /\ Len(ll) <= size
    /\ item \in [Shelf!Range(ll) -> Values]

LEMMA RemoveFirstIs ==
  ASSUME NEW T, NEW s \in Seq(T), NoTwice(s), NEW i \in 1 .. Len(s)
  PROVE  Shelf!RemoveFirst(s, s[i]) = Drop(s, i)
<1>1. {j \in 1 .. Len(s) : s[j] = s[i]} = {i} /\ Len(s) \in Nat
  BY DEF NoTwice
<1>2. Shelf!Min({i}) = i
  BY DEF Shelf!Min
<1>3. Shelf!SelectInSeq(s, LAMBDA v : v = s[i]) = i
  BY <1>1, <1>2 DEF Shelf!SelectInSeq
<1>4. Shelf!RemoveFirst(s, s[i]) = Shelf!RemoveAt(s, i)
  BY <1>3 DEF Shelf!RemoveFirst
<1>5. Shelf!RemoveAt(s, i) = Drop(s, i)
  BY RemoveAtIs DEF Shelf!RemoveAt
<1> QED
  BY <1>4, <1>5

LEMMA RemoveFirstNot ==
  ASSUME NEW T, NEW s \in Seq(T), NEW k, k \notin Shelf!Range(s)
  PROVE  Shelf!RemoveFirst(s, k) = s
<1>1. DOMAIN s = 1 .. Len(s)
  OBVIOUS
<1>2. ~ \E i \in 1 .. Len(s) : s[i] = k
  BY <1>1 DEF Shelf!Range
<1> QED
  BY <1>2 DEF Shelf!RemoveFirst

LEMMA RecencyIs ==
  ASSUME NEW l \in Seq(Keys), NEW it \in [Shelf!Range(l) -> Values]
  PROVE  /\ Recency(l, it) \in Seq(Pairs) /\ Len(Recency(l, it)) = Len(l)
         /\ \A i \in 1 .. Len(l) : Recency(l, it)[i] = <<l[i], it[l[i]]>>
<1>1. Len(l) \in Nat /\ DOMAIN l = 1 .. Len(l) /\ \A i \in 1 .. Len(l) : l[i] \in Keys
  OBVIOUS
<1>2. \A i \in 1 .. Len(l) : l[i] \in Shelf!Range(l)
  BY <1>1 DEF Shelf!Range
<1>3. \A i \in 1 .. Len(l) : <<l[i], it[l[i]]>> \in Pairs
  BY <1>1, <1>2 DEF Pairs
<1>4. Recency(l, it) = [i \in 1 .. Len(l) |-> <<l[i], it[l[i]]>>]
  BY <1>1 DEF Recency
<1> QED
  BY <1>1, <1>3, <1>4

(* Recency follows what the list does. *)
LEMMA RecencyDrop ==
  ASSUME NEW l \in Seq(Keys), NEW i \in 1 .. Len(l), NEW it
  PROVE  Recency(Drop(l, i), it) = Drop(Recency(l, it), i)
<1>1. Len(l) \in Nat /\ DOMAIN l = 1 .. Len(l)
  OBVIOUS
<1>2. Recency(l, it) = [j \in 1 .. Len(l) |-> <<l[j], it[l[j]]>>]
  BY <1>1 DEF Recency
<1>3. Len(Recency(l, it)) = Len(l)
  BY <1>1, <1>2
<1>4. /\ DOMAIN Drop(l, i) = 1 .. Len(l) - 1
      /\ \A j \in 1 .. Len(l) - 1 : Drop(l, i)[j] = IF j < i THEN l[j] ELSE l[j + 1]
  BY DEF Drop
<1>5. ASSUME NEW j \in 1 .. Len(l) - 1
      PROVE  <<Drop(l, i)[j], it[Drop(l, i)[j]]>>
                = IF j < i THEN Recency(l, it)[j] ELSE Recency(l, it)[j + 1]
  <2>1. j \in 1 .. Len(l) /\ j + 1 \in 1 .. Len(l)
    BY <1>1
  <2>2. Recency(l, it)[j] = <<l[j], it[l[j]]>> /\ Recency(l, it)[j + 1] = <<l[j + 1], it[l[j + 1]]>>
    BY <1>2, <2>1
  <2> QED
    BY <1>4, <2>2
<1>6. Recency(Drop(l, i), it)
        = [j \in 1 .. Len(l) - 1 |-> <<Drop(l, i)[j], it[Drop(l, i)[j]]>>]
  BY <1>4 DEF Recency
<1>7. Drop(Recency(l, it), i)
        = [j \in 1 .. Len(l) - 1 |-> IF j < i THEN Recency(l, it)[j] ELSE Recency(l, it)[j + 1]]
  BY <1>3 DEF Drop
<1> QED
  BY <1>5, <1>6, <1>7, Zenon

LEMMA RecencyInFront ==
  ASSUME NEW l \in Seq(Keys), NEW k \in Keys, NEW it
  PROVE  Recency(InFront(k, l), it) = InFront(<<k, it[k]>>, Recency(l, it))
<1>1. Len(l) \in Nat /\ DOMAIN l = 1 .. Len(l)
  OBVIOUS
<1>2. Recency(l, it) = [j \in 1 .. Len(l) |-> <<l[j], it[l[j]]>>]
  BY <1>1 DEF Recency
<1>3. Len(Recency(l, it)) = Len(l)
  BY <1>1, <1>2
<1>4. /\ DOMAIN InFront(k, l) = 1 .. Len(l) + 1
      /\ \A j \in 1 .. Len(l) + 1 : InFront(k, l)[j] = IF j = 1 THEN k ELSE l[j - 1]
  BY DEF InFront
<1>5. ASSUME NEW j \in 1 .. Len(l) + 1
      PROVE  <<InFront(k, l)[j], it[InFront(k, l)[j]]>>
                = IF j = 1 THEN <<k, it[k]>> ELSE Recency(l, it)[j - 1]
  <2>1. CASE j = 1
    BY <1>4, <2>1
  <2>2. CASE j # 1
    <3>1. j - 1 \in 1 .. Len(l)
      BY <1>1, <2>2
    <3>2. Recency(l, it)[j - 1] = <<l[j - 1], it[l[j - 1]]>>
      BY <1>2, <3>1
    <3> QED
      BY <1>4, <2>2, <3>2
  <2> QED BY <2>1, <2>2
<1>6. Recency(InFront(k, l), it)
        = [j \in 1 .. Len(l) + 1 |-> <<InFront(k, l)[j], it[InFront(k, l)[j]]>>]
  BY <1>4 DEF Recency
<1>7. InFront(<<k, it[k]>>, Recency(l, it))
        = [j \in 1 .. Len(l) + 1 |-> IF j = 1 THEN <<k, it[k]>> ELSE Recency(l, it)[j - 1]]
  BY <1>3 DEF InFront
<1> QED
  BY <1>5, <1>6, <1>7, Zenon

LEMMA RecencyAgrees ==
  ASSUME NEW l, NEW it, NEW jt, \A k \in Shelf!Range(l) : it[k] = jt[k]
  PROVE  Recency(l, it) = Recency(l, jt)
<1>1. \A i \in DOMAIN l : l[i] \in Shelf!Range(l)
  BY DEF Shelf!Range
<1> QED
  BY <1>1 DEF Recency

(* A key has one place in the list, which is that of its pair.             *)
LEMMA PositionIs ==
  ASSUME LruSound
  PROVE  /\ \A i \in 1 .. Len(ll) : Shelf!C!Position(ll[i]) = i
         /\ \A k \in Keys : k \notin Shelf!Range(ll) => Shelf!C!Position(k) = 0
<1> DEFINE r == [i \in DOMAIN ll |-> <<ll[i], item[ll[i]]>>]
<1>1. Len(ll) \in Nat /\ DOMAIN ll = 1 .. Len(ll)
  BY DEF LruSound
<1>2. r \in Seq(Pairs) /\ Len(r) = Len(ll) /\ \A i \in 1 .. Len(ll) : r[i] = <<ll[i], item[ll[i]]>>
  BY RecencyIs DEF LruSound, Recency
<1> HIDE DEF r
<1>3. \A i \in 1 .. Len(r) : r[i][1] = ll[i]
  BY <1>2
<1>4. ASSUME NEW k
      PROVE  Shelf!C!Position(k) = IF {i \in 1 .. Len(r) : r[i][1] = k} # {}
                                   THEN Shelf!C!Min({i \in 1 .. Len(r) : r[i][1] = k}) ELSE 0
  BY DEF Shelf!C!Position, Shelf!C!SelectInSeq, r
<1>5. ASSUME NEW i \in 1 .. Len(ll) PROVE Shelf!C!Position(ll[i]) = i
  <2>1. {j \in 1 .. Len(r) : r[j][1] = ll[i]} = {i}
    BY <1>2, <1>3 DEF LruSound, NoTwice
  <2>2. Shelf!C!Min({i}) = i
    BY <1>1 DEF Shelf!C!Min
  <2> QED
    BY <1>4, <2>1, <2>2
<1>6. ASSUME NEW k \in Keys, k \notin Shelf!Range(ll) PROVE Shelf!C!Position(k) = 0
  <2>1. {j \in 1 .. Len(r) : r[j][1] = k} = {}
    BY <1>1, <1>2, <1>3, <1>6 DEF Shelf!Range
  <2> QED
    BY <1>4, <2>1
<1> QED
  BY <1>5, <1>6

LEMMA CachedIs ==
  ASSUME LruSound
  PROVE  /\ \A i \in 1 .. Len(ll) :
                /\ Shelf!C!Cached(ll[i]) = <<<<ll[i], item[ll[i]]>>>>
                /\ Shelf!C!Others(ll[i]) = Recency(Drop(ll, i), item)
                /\ Shelf!C!Position(ll[i]) = i
         /\ \A k \in Keys : k \notin Shelf!Range(ll) =>
                Shelf!C!Cached(k) = <<>> /\ Shelf!C!Others(k) = Recency(ll, item)
<1> DEFINE r == Recency(ll, item)
<1>1. r \in Seq(Pairs) /\ Len(r) = Len(ll) /\ \A i \in 1 .. Len(ll) : r[i] = <<ll[i], item[ll[i]]>>
  BY RecencyIs DEF LruSound
<1>2. /\ \A i \in 1 .. Len(ll) : Shelf!C!Position(ll[i]) = i
      /\ \A k \in Keys : k \notin Shelf!Range(ll) => Shelf!C!Position(k) = 0
  BY PositionIs
<1>3. ASSUME NEW k
      PROVE  /\ Shelf!C!Cached(k) = IF Shelf!C!Position(k) = 0 THEN <<>>
                                    ELSE <<r[Shelf!C!Position(k)]>>
             /\ Shelf!C!Others(k) = IF Shelf!C!Position(k) = 0 THEN r
                                    ELSE Shelf!C!RemoveAt(r, Shelf!C!Position(k))
  BY DEF Shelf!C!Cached, Shelf!C!Others, Shelf!C!Nothing, Recency
<1> HIDE DEF r
<1>4. ASSUME NEW i \in 1 .. Len(ll)
      PROVE  /\ Shelf!C!Cached(ll[i]) = <<<<ll[i], item[ll[i]]>>>>
             /\ Shelf!C!Others(ll[i]) = Recency(Drop(ll, i), item)
  <2>1. Shelf!C!Position(ll[i]) = i /\ i # 0 /\ ll \in Seq(Keys)
    BY <1>2 DEF LruSound
  <2>2. Shelf!C!RemoveAt(r, i) = Drop(r, i)
    BY <1>1, RemoveAtIs DEF Shelf!C!RemoveAt
  <2>3. Drop(r, i) = Recency(Drop(ll, i), item)
    BY <2>1, RecencyDrop DEF r
  <2> QED
    BY <1>1, <1>3, <2>1, <2>2, <2>3
<1>5. ASSUME NEW k \in Keys, k \notin Shelf!Range(ll)
      PROVE  Shelf!C!Cached(k) = <<>> /\ Shelf!C!Others(k) = r
  BY <1>2, <1>3, <1>5
<1> QED
  BY <1>2, <1>4, <1>5 DEF r

(* Moving an element to the front.                                         *)
LEMMA ToFrontIs ==
  ASSUME LruSound, NEW i \in 1 .. Len(ll)
  PROVE  /\ ll[i] \in Keys /\ ll[i] \in Shelf!Range(ll)
         /\ Drop(ll, i) \in Seq(Keys)
         /\ Shelf!ToFront(ll[i]) = InFront(ll[i], Drop(ll, i))
         /\ InFront(ll[i], Drop(ll, i)) \in Seq(Keys)
         /\ NoTwice(InFront(ll[i], Drop(ll, i)))
         /\ Len(InFront(ll[i], Drop(ll, i))) = Len(ll)
         /\ Shelf!Range(InFront(ll[i], Drop(ll, i))) = Shelf!Range(ll)
<1>1. /\ ll \in Seq(Keys) /\ NoTwice(ll) /\ Len(ll) \in Nat /\ DOMAIN ll = 1 .. Len(ll)
      /\ ll[i] \in Keys
  BY DEF LruSound
<1>2. ll[i] \in Shelf!Range(ll)
  BY <1>1 DEF Shelf!Range
<1>3. /\ Drop(ll, i) \in Seq(Keys) /\ Len(Drop(ll, i)) = Len(ll) - 1 /\ NoTwice(Drop(ll, i))
      /\ Shelf!Range(Drop(ll, i)) = Shelf!Range(ll) \ {ll[i]}
  <2>1. Drop(ll, i) \in Seq(Keys) /\ Len(Drop(ll, i)) = Len(ll) - 1
    BY <1>1, DropIs, Zenon
  <2>2. NoTwice(Drop(ll, i)) /\ Shelf!Range(Drop(ll, i)) = Shelf!Range(ll) \ {ll[i]}
    BY <1>1, DropUnique
  <2> QED BY <2>1, <2>2, Zenon
<1>4. Shelf!RemoveFirst(ll, ll[i]) = Drop(ll, i)
  BY <1>1, RemoveFirstIs
<1>5. ll[i] \notin Shelf!Range(Drop(ll, i))
  BY <1>3
<1>6. /\ InFront(ll[i], Drop(ll, i)) \in Seq(Keys)
      /\ Len(InFront(ll[i], Drop(ll, i))) = Len(Drop(ll, i)) + 1
      /\ <<ll[i]>> \o Drop(ll, i) = InFront(ll[i], Drop(ll, i))
  BY <1>1, <1>3, InFrontIs
<1>7. /\ NoTwice(InFront(ll[i], Drop(ll, i)))
      /\ Shelf!Range(InFront(ll[i], Drop(ll, i))) = {ll[i]} \cup Shelf!Range(Drop(ll, i))
  BY <1>1, <1>3, <1>5, InFrontUnique
<1>8. Shelf!ToFront(ll[i]) = InFront(ll[i], Drop(ll, i))
  BY <1>4, <1>6 DEF Shelf!ToFront
<1>9. Shelf!Range(InFront(ll[i], Drop(ll, i))) = Shelf!Range(ll)
  <2>1. {ll[i]} \cup (Shelf!Range(ll) \ {ll[i]}) = Shelf!Range(ll)
    BY <1>2
  <2> QED BY <1>3, <1>7, <2>1
<1>10. Len(InFront(ll[i], Drop(ll, i))) = Len(ll)
  <2>1. (Len(ll) - 1) + 1 = Len(ll)
    BY <1>1
  <2> QED BY <1>3, <1>6, <2>1
<1> QED
  BY <1>1, <1>2, <1>3, <1>6, <1>7, <1>8, <1>9, <1>10, Zenon

LEMMA KnownKey ==
  ASSUME LruSound, NEW k
  PROVE  /\ DOMAIN item = Shelf!Range(ll)
         /\ k \in DOMAIN item => \E i \in 1 .. Len(ll) : k = ll[i]
<1>1. DOMAIN ll = 1 .. Len(ll) /\ DOMAIN item = Shelf!Range(ll)
  BY DEF LruSound
<1> QED
  BY <1>1 DEF Shelf!Range

(* The pairs after a step, and what else callers see.                      *)
RecencyNow == [i \in DOMAIN ll |-> <<ll[i], item[ll[i]]>>]

LEMMA GetImplements ==
  ASSUME LruSound, NEW k \in Keys, Shelf!Get(k)
  PROVE  LruSound' /\ Shelf!C!Get(k)
<1>1. /\ kind = "lru" /\ kind' = kind /\ size' = size /\ ring' = ring /\ index' = index
      /\ item' = item /\ data' = data
      /\ k \in DOMAIN item => /\ ll' = Shelf!ToFront(k) /\ answer' = <<<<k, item[k]>>>>
                              /\ metrics' = [metrics EXCEPT !.hits = @ + 1]
      /\ k \notin DOMAIN item => /\ ll' = ll /\ answer' = <<>>
                                 /\ metrics' = [metrics EXCEPT !.misses = @ + 1]
  BY DEF Shelf!Get, Shelf!Nothing
<1>2. RecencyNow' = Recency(ll', item)
  BY <1>1 DEF RecencyNow, Recency
<1>3. CASE k \in DOMAIN item
  <2>1. PICK i \in 1 .. Len(ll) : k = ll[i]
    BY <1>3, KnownKey
  <2>2. /\ k \in Keys /\ Drop(ll, i) \in Seq(Keys)
        /\ ll' = InFront(k, Drop(ll, i)) /\ InFront(k, Drop(ll, i)) \in Seq(Keys)
        /\ NoTwice(InFront(k, Drop(ll, i))) /\ Len(InFront(k, Drop(ll, i))) = Len(ll)
        /\ Shelf!Range(InFront(k, Drop(ll, i))) = Shelf!Range(ll)
    BY <1>1, <1>3, <2>1, ToFrontIs
  <2>3. LruSound'
    <3>1. Shelf!Range(ll)' = Shelf!Range(ll') /\ NoTwice(ll)' = NoTwice(ll')
      BY DEF Shelf!Range, NoTwice
    <3> QED
      BY <1>1, <2>2, <3>1 DEF LruSound
  <2>4. /\ Shelf!C!Cached(k) = <<<<k, item[k]>>>> /\ Shelf!C!Others(k) = Recency(Drop(ll, i), item)
    BY <2>1, CachedIs
  <2>5. Recency(Drop(ll, i), item) \in Seq(Pairs) /\ <<k, item[k]>> \in Pairs
    <3>1. ll[i] \in Shelf!Range(ll)
      BY ToFrontIs
    <3>2. item[k] \in Values
      BY <2>1, <3>1 DEF LruSound
    <3>3. Recency(ll, item) \in Seq(Pairs) /\ Len(Recency(ll, item)) = Len(ll)
      BY RecencyIs DEF LruSound
    <3>4. Drop(Recency(ll, item), i) \in Seq(Pairs)
      BY <3>3, DropIs
    <3>5. Recency(Drop(ll, i), item) = Drop(Recency(ll, item), i)
      BY RecencyDrop DEF LruSound
    <3> QED
      BY <3>2, <3>4, <3>5 DEF Pairs
  <2>6. Recency(ll', item) = <<<<k, item[k]>>>> \o Recency(Drop(ll, i), item)
    <3>1. Recency(ll', item) = InFront(<<k, item[k]>>, Recency(Drop(ll, i), item))
      BY <2>2, RecencyInFront
    <3> QED
      BY <2>5, <3>1, InFrontIs
  <2>7. Shelf!C!Cached(k) # <<>>
    BY <2>4
  <2>8. RecencyNow' = Shelf!C!Cached(k) \o Shelf!C!Others(k)
    BY <1>2, <2>4, <2>6
  <2>9. Shelf!C!Get(k)
    BY <1>1, <1>3, <2>4, <2>7, <2>8, Zenon DEF Shelf!C!Get, RecencyNow, Shelf!InOrder
  <2> QED BY <2>3, <2>9
<1>4. CASE k \notin DOMAIN item
  <2>1. LruSound'
    <3>1. Shelf!Range(ll)' = Shelf!Range(ll') /\ NoTwice(ll)' = NoTwice(ll')
      BY DEF Shelf!Range, NoTwice
    <3> QED
      BY <1>1, <1>4, <3>1 DEF LruSound
  <2>2. Shelf!C!Cached(k) = <<>> /\ Shelf!C!Others(k) = Recency(ll, item)
    BY <1>4, KnownKey, CachedIs
  <2>3. Recency(ll, item) \in Seq(Pairs)
    BY RecencyIs DEF LruSound
  <2>4. RecencyNow' = Shelf!C!Cached(k) \o Shelf!C!Others(k)
    BY <1>1, <1>2, <1>4, <2>2, <2>3
  <2>5. Shelf!C!Get(k)
    BY <1>1, <1>4, <2>2, <2>4, Zenon DEF Shelf!C!Get, RecencyNow, Shelf!InOrder
  <2> QED BY <2>1, <2>5
<1> QED BY <1>3, <1>4

(* The pairs that stay where they are when the i-th element moves or goes. *)
LEMMA OthersAre ==
  ASSUME LruSound, NEW i \in 1 .. Len(ll)
  PROVE  /\ Recency(ll, item) \in Seq(Pairs) /\ Len(Recency(ll, item)) = Len(ll)
         /\ Recency(Drop(ll, i), item) \in Seq(Pairs)
         /\ Len(Recency(Drop(ll, i), item)) = Len(ll) - 1
         /\ Recency(Drop(ll, i), item) = Drop(Recency(ll, item), i)
         /\ \A k \in Shelf!Range(Drop(ll, i)) : k # ll[i] /\ k \in DOMAIN item
<1>1. Recency(ll, item) \in Seq(Pairs) /\ Len(Recency(ll, item)) = Len(ll)
  BY RecencyIs DEF LruSound
<1>2. Drop(Recency(ll, item), i) \in Seq(Pairs) /\ Len(Drop(Recency(ll, item), i)) = Len(ll) - 1
  BY <1>1, DropIs
<1>3. Recency(Drop(ll, i), item) = Drop(Recency(ll, item), i)
  BY RecencyDrop DEF LruSound
<1>4. Shelf!Range(Drop(ll, i)) = Shelf!Range(ll) \ {ll[i]}
  BY DropUnique DEF LruSound
<1>5. DOMAIN item = Shelf!Range(ll)
  BY DEF LruSound
<1> QED
  BY <1>1, <1>2, <1>3, <1>4, <1>5

LEMMA SameSoundness ==
  /\ Shelf!Range(ll)' = Shelf!Range(ll') /\ NoTwice(ll)' = NoTwice(ll')
  /\ RecencyNow = Recency(ll, item) /\ RecencyNow' = Recency(ll', item')
  BY DEF Shelf!Range, NoTwice, RecencyNow, Recency

LEMMA ReplaceImplements ==
  ASSUME LruSound, NEW k \in Keys, NEW v \in Values, Shelf!Replace(k, v)
  PROVE  LruSound' /\ Shelf!C!Put(k, v)
<1>1. /\ kind = "lru" /\ kind' = kind /\ size' = size /\ ring' = ring /\ index' = index
      /\ data' = data /\ metrics' = metrics /\ answer' = <<>>
      /\ k \in DOMAIN item /\ ll' = Shelf!ToFront(k) /\ item' = [item EXCEPT ![k] = v]
  BY DEF Shelf!Replace, Shelf!Nothing
<1>2. PICK i \in 1 .. Len(ll) : k = ll[i]
  BY <1>1, KnownKey
<1>3. /\ Drop(ll, i) \in Seq(Keys)
      /\ ll' = InFront(k, Drop(ll, i)) /\ InFront(k, Drop(ll, i)) \in Seq(Keys)
      /\ NoTwice(InFront(k, Drop(ll, i))) /\ Len(InFront(k, Drop(ll, i))) = Len(ll)
      /\ Shelf!Range(InFront(k, Drop(ll, i))) = Shelf!Range(ll)
  BY <1>1, <1>2, ToFrontIs
<1>4. LruSound'
  BY <1>1, <1>3, SameSoundness DEF LruSound
<1>5. /\ Shelf!C!Others(k) = Recency(Drop(ll, i), item)
      /\ Recency(Drop(ll, i), item) \in Seq(Pairs)
      /\ Len(Recency(Drop(ll, i), item)) = Len(ll) - 1
      /\ Len(RecencyNow) = Len(ll) /\ Len(ll) \in Nat
  BY <1>2, CachedIs, OthersAre, SameSoundness DEF LruSound
<1>6. Shelf!C!Others(k) # RecencyNow
  BY <1>5
<1>7. RecencyNow' = <<<<k, v>>>> \o Shelf!C!Others(k)
  <2>1. RecencyNow' = InFront(<<k, item'[k]>>, Recency(Drop(ll, i), item'))
    BY <1>3, RecencyInFront, SameSoundness
  <2>2. item'[k] = v /\ \A j \in Shelf!Range(Drop(ll, i)) : item'[j] = item[j]
    <3>1. \A j \in Shelf!Range(Drop(ll, i)) : j # k /\ j \in DOMAIN item
      BY <1>2, OthersAre
    <3> QED
      BY <1>1, <3>1 DEF LruSound
  <2>3. Recency(Drop(ll, i), item') = Recency(Drop(ll, i), item)
    BY <2>2, RecencyAgrees
  <2>4. <<k, v>> \in Pairs
    BY DEF Pairs
  <2> QED
    BY <1>5, <2>1, <2>2, <2>3, <2>4, InFrontIs
<1>8. Shelf!C!Put(k, v)
  BY <1>1, <1>6, <1>7, Zenon DEF Shelf!C!Put, Shelf!C!Nothing, RecencyNow, Shelf!InOrder
<1> QED BY <1>4, <1>8

LEMMA DeleteImplements ==
  ASSUME LruSound, NEW k \in Keys, Shelf!Delete(k)
  PROVE  LruSound' /\ Shelf!C!Delete(k)
<1>1. /\ kind = "lru" /\ kind' = kind /\ size' = size /\ ring' = ring /\ index' = index
      /\ data' = data /\ metrics' = metrics
      /\ answer' = IF k \in DOMAIN item THEN <<<<k, item[k]>>>> ELSE <<>>
      /\ ll' = Shelf!RemoveFirst(ll, k)
      /\ item' = [j \in DOMAIN item \ {k} |-> item[j]]
  BY DEF Shelf!Delete, Shelf!Nothing, Shelf!Without
<1>0. ll \in Seq(Keys) /\ NoTwice(ll) /\ item \in [Shelf!Range(ll) -> Values]
  BY DEF LruSound
<1>2. CASE k \in DOMAIN item
  <2>1. PICK i \in 1 .. Len(ll) : k = ll[i]
    BY <1>2, KnownKey
  <2>2. ll' = Drop(ll, i)
    BY <1>0, <1>1, <2>1, RemoveFirstIs
  <2>3. /\ Drop(ll, i) \in Seq(Keys) /\ Len(Drop(ll, i)) = Len(ll) - 1 /\ NoTwice(Drop(ll, i))
        /\ Shelf!Range(Drop(ll, i)) = Shelf!Range(ll) \ {k}
    BY <1>0, <2>1, DropIs, DropUnique
  <2>4. item' \in [Shelf!Range(ll) \ {k} -> Values]
    BY <1>0, <1>1
  <2>5. Len(ll) - 1 <= size
    BY DEF LruSound
  <2>6. LruSound'
    BY <1>1, <2>2, <2>3, <2>4, <2>5, SameSoundness DEF LruSound
  <2>7. /\ Shelf!C!Cached(k) = <<<<k, item[k]>>>>
        /\ Shelf!C!Others(k) = Recency(Drop(ll, i), item)
    BY <2>1, CachedIs
  <2>8. \A j \in Shelf!Range(Drop(ll, i)) : item'[j] = item[j]
    BY <1>0, <1>1, <2>3
  <2>9. RecencyNow' = Shelf!C!Others(k)
    BY <2>2, <2>7, <2>8, RecencyAgrees, SameSoundness
  <2>10. Shelf!C!Delete(k)
    BY <1>1, <1>2, <2>7, <2>9, Zenon DEF Shelf!C!Delete, RecencyNow, Shelf!InOrder
  <2> QED BY <2>6, <2>10
<1>3. CASE k \notin DOMAIN item
  <2>1. k \notin Shelf!Range(ll)
    BY <1>3, KnownKey
  <2>2. ll' = ll
    BY <1>0, <1>1, <2>1, RemoveFirstNot
  <2>3. item' = item
    <3>1. DOMAIN item \ {k} = DOMAIN item
      BY <1>3
    <3> QED
      BY <1>0, <1>1, <3>1
  <2>4. LruSound'
    BY <1>1, <2>2, <2>3, SameSoundness DEF LruSound
  <2>5. Shelf!C!Cached(k) = <<>> /\ Shelf!C!Others(k) = Recency(ll, item)
    BY <2>1, CachedIs
  <2>6. RecencyNow' = Shelf!C!Others(k)
    BY <2>2, <2>3, <2>5, SameSoundness
  <2>7. Shelf!C!Delete(k)
    BY <1>1, <1>3, <2>5, <2>6, Zenon DEF Shelf!C!Delete, RecencyNow, Shelf!InOrder
  <2> QED BY <2>4, <2>7
<1> QED BY <1>2, <1>3

LEMMA PutImplements ==
  ASSUME LruSound, NEW k \in Keys, NEW v \in Values, Shelf!Put(k, v)
  PROVE  LruSound' /\ Shelf!C!Put(k, v)
<1> DEFINE n == Len(ll)
           oldest == ll[n]
           longer == [j \in DOMAIN item \cup {k} |-> IF j = k THEN v ELSE item[j]]
<1>1. /\ kind = "lru" /\ kind' = kind /\ size' = size /\ ring' = ring /\ index' = index
      /\ data' = data /\ k \notin DOMAIN item
      /\ n + 1 > size =>
            /\ ll' = <<k>> \o SubSeq(ll, 1, n - 1)
            /\ item' = [j \in DOMAIN longer \ {oldest} |-> longer[j]]
            /\ metrics' = [metrics EXCEPT !.evictions = @ + 1]
            /\ answer' = <<<<oldest, item[oldest]>>>>
      /\ ~(n + 1 > size) =>
            /\ ll' = <<k>> \o ll /\ item' = longer /\ answer' = <<>> /\ metrics' = metrics
  BY DEF Shelf!Put, Shelf!Nothing, Shelf!Last, Shelf!Front
<1>2. /\ ll \in Seq(Keys) /\ NoTwice(ll) /\ item \in [Shelf!Range(ll) -> Values]
      /\ n \in Nat /\ n <= size /\ size \in Nat \ {0} /\ DOMAIN item = Shelf!Range(ll)
      /\ k \notin Shelf!Range(ll)
  BY <1>1 DEF LruSound
<1>3. longer \in [Shelf!Range(ll) \cup {k} -> Values] /\ longer[k] = v
      /\ \A j \in Shelf!Range(ll) : longer[j] = item[j]
  BY <1>2
<1>4. /\ Shelf!C!Others(k) = RecencyNow /\ RecencyNow = Recency(ll, item)
      /\ Recency(ll, item) \in Seq(Pairs) /\ Len(RecencyNow) = n
      /\ <<k, v>> \in Pairs
  <2>1. Shelf!C!Others(k) = Recency(ll, item) /\ RecencyNow = Recency(ll, item)
    BY <1>2, CachedIs, SameSoundness
  <2> QED
    BY <1>2, <2>1, RecencyIs DEF Pairs
<1> HIDE DEF n, longer
<1>5. CASE n + 1 > size
  <2>1. n = size /\ n \in 1 .. n /\ ll # <<>>
    BY <1>2, <1>5 DEF n
  <2>2. /\ Drop(ll, n) \in Seq(Keys) /\ Len(Drop(ll, n)) = n - 1 /\ NoTwice(Drop(ll, n))
        /\ Shelf!Range(Drop(ll, n)) = Shelf!Range(ll) \ {oldest}
        /\ SubSeq(ll, 1, n - 1) = Drop(ll, n) /\ k \notin Shelf!Range(Drop(ll, n))
    <3>0. n \in 1 .. Len(ll)
      BY <2>1 DEF n
    <3>1. Drop(ll, n) \in Seq(Keys) /\ Len(Drop(ll, n)) = n - 1
      <4>1. Drop(ll, n) \in Seq(Keys) /\ Len(Drop(ll, n)) = Len(ll) - 1
        BY <1>2, <3>0, DropIs
      <4> QED BY <4>1 DEF n
    <3>2. NoTwice(Drop(ll, n)) /\ Shelf!Range(Drop(ll, n)) = Shelf!Range(ll) \ {oldest}
      BY <1>2, <3>0, DropUnique
    <3>3. SubSeq(ll, 1, n - 1) = Drop(ll, n)
      BY <1>2, <2>1, FrontIs DEF n
    <3> QED
      BY <1>2, <3>1, <3>2, <3>3
  <2>3. /\ ll' = InFront(k, Drop(ll, n)) /\ ll' \in Seq(Keys) /\ Len(ll') = n
        /\ NoTwice(ll') /\ Shelf!Range(ll') = {k} \cup (Shelf!Range(ll) \ {oldest})
    <3>1. /\ ll' = InFront(k, Drop(ll, n)) /\ ll' \in Seq(Keys) /\ Len(ll') = (n - 1) + 1
      <4>1. <<k>> \o Drop(ll, n) = InFront(k, Drop(ll, n)) /\ InFront(k, Drop(ll, n)) \in Seq(Keys)
            /\ Len(InFront(k, Drop(ll, n))) = Len(Drop(ll, n)) + 1
        BY <2>2, InFrontIs
      <4> QED
        BY <1>1, <1>5, <2>2, <4>1
    <3>2. NoTwice(ll') /\ Shelf!Range(ll') = {k} \cup (Shelf!Range(ll) \ {oldest})
      BY <2>2, <3>1, InFrontUnique
    <3>3. (n - 1) + 1 = n
      BY <1>2
    <3> QED BY <3>1, <3>2, <3>3
  <2>4. oldest \in Shelf!Range(ll) /\ oldest # k
    BY <1>2, <2>1 DEF Shelf!Range, n
  <2>5. item' \in [{k} \cup (Shelf!Range(ll) \ {oldest}) -> Values]
    <3>1. DOMAIN longer \ {oldest} = {k} \cup (Shelf!Range(ll) \ {oldest})
      BY <1>3, <2>4
    <3>2. item' = [j \in {k} \cup (Shelf!Range(ll) \ {oldest}) |-> longer[j]]
      BY <1>1, <1>5, <3>1
    <3>3. \A j \in {k} \cup (Shelf!Range(ll) \ {oldest}) : longer[j] \in Values
      BY <1>3
    <3> QED BY <3>2, <3>3
  <2>6. item'[k] = v /\ \A j \in Shelf!Range(Drop(ll, n)) : item'[j] = item[j]
    BY <1>1, <1>3, <1>5, <2>2, <2>4
  <2>7. LruSound'
    BY <1>1, <1>2, <2>3, <2>5, SameSoundness DEF LruSound
  <2>8. RecencyNow' = <<<<k, v>>>> \o Shelf!C!Front(RecencyNow)
    <3>1. RecencyNow' = InFront(<<k, item'[k]>>, Recency(Drop(ll, n), item'))
      BY <2>2, <2>3, RecencyInFront, SameSoundness
    <3>2. Recency(Drop(ll, n), item') = Recency(Drop(ll, n), item)
      BY <2>6, RecencyAgrees
    <3>3. Recency(Drop(ll, n), item) = Drop(RecencyNow, n)
      BY <1>2, <1>4, <2>1, RecencyDrop DEF n
    <3>4. Shelf!C!Front(RecencyNow) = Drop(RecencyNow, n) /\ Drop(RecencyNow, n) \in Seq(Pairs)
      <4>1. RecencyNow \in Seq(Pairs) /\ RecencyNow # <<>>
        BY <1>4, <2>1
      <4> QED
        BY <1>4, <2>1, <4>1, FrontIs, DropIs DEF Shelf!C!Front
    <3> QED
      BY <1>4, <2>6, <3>1, <3>2, <3>3, <3>4, InFrontIs
  <2>9. Shelf!C!Last(RecencyNow) = <<oldest, item[oldest]>>
    <3>1. RecencyNow[n] = <<ll[n], item[ll[n]]>>
      BY <1>2, <1>4, <2>1, RecencyIs DEF n
    <3> QED BY <1>4, <3>1 DEF Shelf!C!Last
  <2>10. Shelf!C!Others(k) = RecencyNow /\ Len(RecencyNow) = size
    BY <1>4, <2>1
  <2>11. answer' = <<Shelf!C!Last(RecencyNow)>>
    BY <1>1, <1>5, <2>9
  <2>12. metrics' = [metrics EXCEPT !.evictions = @ + 1]
    BY <1>1, <1>5
  <2> HIDE DEF oldest
  <2>13. Shelf!C!Put(k, v)
    BY <1>1, <2>8, <2>10, <2>11, <2>12, Zenon DEF Shelf!C!Put, RecencyNow, Shelf!InOrder
  <2> QED BY <2>7, <2>13
<1>6. CASE ~(n + 1 > size)
  <2>1. /\ ll' = InFront(k, ll) /\ ll' \in Seq(Keys) /\ Len(ll') = n + 1
        /\ NoTwice(ll') /\ Shelf!Range(ll') = {k} \cup Shelf!Range(ll)
    <3>1. /\ <<k>> \o ll = InFront(k, ll) /\ InFront(k, ll) \in Seq(Keys)
          /\ Len(InFront(k, ll)) = Len(ll) + 1
      BY <1>2, InFrontIs
    <3>2. NoTwice(InFront(k, ll)) /\ Shelf!Range(InFront(k, ll)) = {k} \cup Shelf!Range(ll)
      BY <1>2, InFrontUnique
    <3> QED
      BY <1>1, <1>6, <3>1, <3>2 DEF n
  <2>2. item' = longer /\ n + 1 <= size
    BY <1>1, <1>2, <1>6
  <2>3. LruSound'
    <3>1. item' \in [{k} \cup Shelf!Range(ll) -> Values]
      <4>1. {k} \cup Shelf!Range(ll) = Shelf!Range(ll) \cup {k}
        OBVIOUS
      <4> QED BY <1>3, <2>2, <4>1
    <3> QED
      BY <1>1, <1>2, <2>1, <2>2, <3>1, SameSoundness DEF LruSound
  <2>4. RecencyNow' = <<<<k, v>>>> \o RecencyNow
    <3>1. RecencyNow' = InFront(<<k, item'[k]>>, Recency(ll, item'))
      BY <1>2, <2>1, RecencyInFront, SameSoundness
    <3>2. Recency(ll, item') = Recency(ll, item)
      BY <1>3, <2>2, RecencyAgrees
    <3>3. item'[k] = v
      BY <1>3, <2>2
    <3>4. RecencyNow \in Seq(Pairs) /\ <<k, v>> \in Pairs
      BY <1>4
    <3>5. <<<<k, v>>>> \o RecencyNow = InFront(<<k, v>>, RecencyNow)
      BY <3>4, InFrontIs
    <3>6. RecencyNow = Recency(ll, item)
      BY <1>4
    <3> QED
      BY <3>1, <3>2, <3>3, <3>5, <3>6, Zenon
  <2>5. Len(RecencyNow) # size
    BY <1>2, <1>4, <2>2
  <2>6. answer' = <<>> /\ metrics' = metrics
    BY <1>1, <1>6
  <2>7. Shelf!C!Put(k, v)
    <3>1. Shelf!C!Others(k) = RecencyNow
      BY <1>4
    <3> QED
      BY <1>1, <2>4, <2>5, <2>6, <3>1, Zenon
         DEF Shelf!C!Put, Shelf!C!Nothing, RecencyNow, Shelf!InOrder
  <2> QED BY <2>3, <2>7
<1> QED BY <1>5, <1>6

-----------------------------------------------------------------------------
(* The heap. *)
LEMMA SameCardinality == \A S : Shelf!Cardinality(S) = Cardinality(S)
  BY Zenon DEF Shelf!Cardinality, Cardinality

(* How often a value is in a sequence, and all values with that number.    *)
Times(d, v) == Cardinality({i \in DOMAIN d : d[i] = v})
BagOf(d) == [v \in Shelf!Range(d) |-> Times(d, v)]

(* Sequences of values of length n. *)
Trees(n) == {d \in Seq(Values) : Len(d) = n}

LEMMA TreeIs ==
  ASSUME NEW n \in Nat, NEW d \in Trees(n)
  PROVE  /\ d \in Seq(Values) /\ Len(d) = n /\ DOMAIN d = 1 .. n
         /\ \A i \in 1 .. n : d[i] \in Values
  BY DEF Trees

LEMMA TimesAre ==
  ASSUME NEW n \in Nat, NEW d \in Trees(n), NEW v
  PROVE  /\ Times(d, v) \in Nat /\ (Times(d, v) > 0 <=> v \in Shelf!Range(d))
         /\ IsFiniteSet({i \in 1 .. n : d[i] = v})
<1> DEFINE I == {i \in 1 .. n : d[i] = v}
<1>1. DOMAIN d = 1 .. n
  BY TreeIs
<1>2. IsFiniteSet(I)
  <2>1. IsFiniteSet(1 .. n) /\ I \subseteq 1 .. n
    BY FS_Interval
  <2> QED BY <2>1, FS_Subset
<1>3. Cardinality(I) \in Nat /\ (Cardinality(I) = 0 <=> I = {})
  BY <1>2, FS_CardinalityType, FS_EmptySet
<1>4. v \in Shelf!Range(d) <=> I # {}
  BY <1>1 DEF Shelf!Range
<1>5. Times(d, v) = Cardinality(I)
  BY <1>1 DEF Times
<1> HIDE DEF I
<1>6. Times(d, v) \in Nat /\ (Times(d, v) > 0 <=> v \in Shelf!Range(d))
  BY <1>3, <1>4, <1>5
<1> QED
  BY <1>2, <1>6 DEF I

(* What is not in the sequence is in it 0 times.                           *)
LEMMA BagOfIs ==
  ASSUME NEW n \in Nat, NEW d \in Trees(n), NEW v
  PROVE  Times(d, v) = IF v \in DOMAIN BagOf(d) THEN BagOf(d)[v] ELSE 0
<1>1. Times(d, v) \in Nat /\ (Times(d, v) > 0 <=> v \in Shelf!Range(d))
  BY TimesAre
<1> QED
  BY <1>1 DEF BagOf

LEMMA SwapIs ==
  ASSUME NEW n \in Nat, NEW d \in Trees(n), NEW i \in 1 .. n, NEW j \in 1 .. n
  PROVE  /\ Shelf!Swap(d, i, j) \in Trees(n)
         /\ \A k \in 1 .. n : Shelf!Swap(d, i, j)[k]
                = IF k = j THEN d[i] ELSE IF k = i THEN d[j] ELSE d[k]
<1>1. /\ d \in Seq(Values) /\ Len(d) = n /\ DOMAIN d = 1 .. n
      /\ \A k \in 1 .. n : d[k] \in Values
  BY TreeIs
<1>2. d[i] \in Values /\ d[j] \in Values /\ i \in 1 .. Len(d) /\ j \in 1 .. Len(d)
  BY <1>1
<1> DEFINE e == [d EXCEPT ![i] = d[j]]
           f == [e EXCEPT ![j] = d[i]]
<1>3. e \in Seq(Values) /\ Len(e) = n /\ DOMAIN e = 1 .. n
      /\ \A k \in 1 .. n : e[k] = IF k = i THEN d[j] ELSE d[k]
  BY <1>1, <1>2
<1> HIDE DEF e
<1>4. f \in Seq(Values) /\ Len(f) = n
      /\ \A k \in 1 .. n : f[k] = IF k = j THEN d[i] ELSE e[k]
  BY <1>1, <1>2, <1>3
<1>5. Shelf!Swap(d, i, j) = f
  BY DEF Shelf!Swap, e
<1> HIDE DEF f
<1> QED
  BY <1>3, <1>4, <1>5 DEF Trees

LEMMA SwapKeeps ==
  ASSUME NEW n \in Nat, NEW d \in Trees(n), NEW i \in 1 .. n, NEW j \in 1 .. n, NEW v
  PROVE  Times(Shelf!Swap(d, i, j), v) = Times(d, v)
<1> DEFINE e == Shelf!Swap(d, i, j)
           I == {k \in 1 .. n : d[k] = v}
           J == {k \in 1 .. n : e[k] = v}
           other(k) == IF k = j THEN i ELSE IF k = i THEN j ELSE k
           turn == [k \in I |-> other(k)]
<1>1. e \in Trees(n) /\ \A k \in 1 .. n : e[k] = IF k = j THEN d[i] ELSE IF k = i THEN d[j] ELSE d[k]
  BY SwapIs
<1>2. DOMAIN d = 1 .. n /\ DOMAIN e = 1 .. n
  BY <1>1, TreeIs
<1>3. Times(d, v) = Cardinality(I) /\ Times(e, v) = Cardinality(J)
  BY <1>2 DEF Times
<1> HIDE DEF e
<1>4. turn \in Bijection(I, J)
  <2>1. ASSUME NEW k \in 1 .. n PROVE other(k) \in 1 .. n /\ other(other(k)) = k /\ e[other(k)] = d[k]
    BY <1>1
  <2> HIDE DEF other
  <2>2. \A k \in I : turn[k] \in J
    BY <2>1
  <2>3. \A k, l \in I : turn[k] = turn[l] => k = l
    BY <2>1
  <2>4. ASSUME NEW k \in J PROVE \E l \in I : turn[l] = k
    <3>1. k \in 1 .. n /\ other(k) \in 1 .. n /\ other(other(k)) = k /\ e[other(other(k))] = d[other(k)]
      BY <2>1
    <3>2. other(k) \in I /\ turn[other(k)] = k
      BY <3>1
    <3> QED BY <3>2
  <2> QED
    BY <2>2, <2>3, <2>4 DEF Bijection, Injection, Surjection, IsInjective
<1>5. IsFiniteSet(I)
  BY TimesAre
<1> HIDE DEF I, J, turn
<1>6. Cardinality(I) = Cardinality(J)
  BY <1>4, <1>5, FS_Bijection DEF ExistsBijection
<1> QED
  BY <1>3, <1>6 DEF e

(* One more element. *)
LEMMA AppendIs ==
  ASSUME NEW n \in Nat, NEW d \in Trees(n), NEW v \in Values
  PROVE  /\ Append(d, v) \in Trees(n + 1) /\ DOMAIN Append(d, v) = 1 .. n + 1
         /\ Append(d, v)[n + 1] = v /\ \A i \in 1 .. n : Append(d, v)[i] = d[i]
<1>1. d \in Seq(Values) /\ Len(d) = n /\ DOMAIN d = 1 .. n
  BY TreeIs
<1> QED
  BY <1>1 DEF Trees

LEMMA AppendAdds ==
  ASSUME NEW n \in Nat, NEW d \in Trees(n), NEW v \in Values, NEW u
  PROVE  Times(Append(d, v), u) = Times(d, u) + (IF u = v THEN 1 ELSE 0)
<1> DEFINE e == Append(d, v)
           I == {i \in 1 .. n : d[i] = u}
           J == {i \in 1 .. n + 1 : e[i] = u}
<1>1. DOMAIN d = 1 .. n
  BY TreeIs
<1>2. e[n + 1] = v /\ DOMAIN e = 1 .. n + 1 /\ \A i \in 1 .. n : e[i] = d[i]
  BY AppendIs
<1>4. Times(d, u) = Cardinality(I) /\ Times(e, u) = Cardinality(J)
  BY <1>1, <1>2 DEF Times
<1> HIDE DEF e
<1>5. IsFiniteSet(I) /\ Cardinality(I) \in Nat /\ n + 1 \notin I
  <2>1. IsFiniteSet(I)
    BY TimesAre
  <2>2. n + 1 \notin I
    OBVIOUS
  <2> HIDE DEF I
  <2> QED BY <2>1, <2>2, FS_CardinalityType
<1>6. CASE u = v
  <2>1. J = I \cup {n + 1}
    BY <1>2, <1>6
  <2>2. Cardinality(I \cup {n + 1}) = Cardinality(I) + 1
    BY <1>5, FS_AddElement
  <2> QED BY <1>4, <1>6, <2>1, <2>2 DEF e
<1>7. CASE u # v
  <2>1. J = I
    BY <1>2, <1>7
  <2>2. Cardinality(I) + 0 = Cardinality(I)
    BY <1>5
  <2> QED BY <1>4, <1>7, <2>1, <2>2 DEF e
<1> QED BY <1>6, <1>7

-----------------------------------------------------------------------------
(* Sifting. *)
Sifts(n) == [tree : Trees(n), at : 1 .. n]
rank(d, i) == Priority[d[i]]

(* No element comes before its parent. *)
IsHeap(d) == \A i \in 2 .. Len(d) : ~Shelf!Less(d[i], d[Shelf!Parent(i)])

LEMMA ParentIs ==
  ASSUME NEW i \in Nat, i >= 2
  PROVE  /\ Shelf!Parent(i) \in 1 .. i - 1
         /\ \A j \in Nat : Shelf!Parent(i) = j <=> (i = 2 * j \/ i = 2 * j + 1)
  BY DEF Shelf!Parent

LEMMA RankIs ==
  ASSUME NEW n \in Nat, NEW d \in Trees(n), NEW i \in 1 .. n, NEW j \in 1 .. n
  PROVE  rank(d, i) \in Int /\ (Shelf!Less(d[i], d[j]) <=> rank(d, i) < rank(d, j))
  BY TreeIs, ShelfValues DEF rank, Shelf!Less

(* While the element at s.at rises, it is the only one that may come before *)
(* its parent; while it sinks, the only one whose children may come before. *)
Rising(s, n) ==
    /\ \A i \in 2 .. n : i # s.at => rank(s.tree, Shelf!Parent(i)) <= rank(s.tree, i)
    /\ \A i \in 2 .. n : Shelf!Parent(i) = s.at /\ s.at >= 2
            => rank(s.tree, Shelf!Parent(s.at)) <= rank(s.tree, i)
Sinking(s, n) ==
    /\ \A i \in 2 .. n : Shelf!Parent(i) # s.at => rank(s.tree, Shelf!Parent(i)) <= rank(s.tree, i)
    /\ \A i \in 2 .. n : Shelf!Parent(i) = s.at /\ s.at >= 2
            => rank(s.tree, Shelf!Parent(s.at)) <= rank(s.tree, i)

LEMMA HeapIs ==
  ASSUME NEW n \in Nat, NEW d \in Trees(n)
  PROVE  IsHeap(d) <=> \A i \in 2 .. n : rank(d, Shelf!Parent(i)) <= rank(d, i)
<1>1. ASSUME NEW i \in 2 .. n
      PROVE  ~Shelf!Less(d[i], d[Shelf!Parent(i)]) <=> rank(d, Shelf!Parent(i)) <= rank(d, i)
  <2>1. Shelf!Parent(i) \in 1 .. n /\ i \in 1 .. n
    BY ParentIs
  <2>2. /\ rank(d, i) \in Int /\ rank(d, Shelf!Parent(i)) \in Int
        /\ Shelf!Less(d[i], d[Shelf!Parent(i)]) <=> rank(d, i) < rank(d, Shelf!Parent(i))
    BY <2>1, RankIs
  <2> QED BY <2>2
<1>2. Len(d) = n
  BY TreeIs
<1> QED
  BY <1>1, <1>2 DEF IsHeap

LEMMA RankOfSwap ==
  ASSUME NEW n \in Nat, NEW d \in Trees(n), NEW i \in 1 .. n, NEW j \in 1 .. n
  PROVE  /\ Shelf!Swap(d, i, j) \in Trees(n)
         /\ rank(Shelf!Swap(d, i, j), j) = rank(d, i)
         /\ rank(Shelf!Swap(d, i, j), i) = rank(d, j)
         /\ \A k \in 1 .. n : k # i /\ k # j => rank(Shelf!Swap(d, i, j), k) = rank(d, k)
<1>1. /\ Shelf!Swap(d, i, j) \in Trees(n)
      /\ \A k \in 1 .. n : Shelf!Swap(d, i, j)[k]
                = IF k = j THEN d[i] ELSE IF k = i THEN d[j] ELSE d[k]
  BY SwapIs
<1> DEFINE e == Shelf!Swap(d, i, j)
<1> HIDE DEF e
<1>2. e[j] = d[i] /\ e[i] = d[j] /\ \A k \in 1 .. n : k # i /\ k # j => e[k] = d[k]
  BY <1>1 DEF e
<1> QED
  BY <1>1, <1>2 DEF rank, e

(* A round of siftUp's loop. *)
LEMMA UpIs ==
  ASSUME NEW n \in Nat, NEW s \in Sifts(n), Rising(s, n)
  PROVE  /\ Shelf!Up(s) \in Sifts(n) /\ Rising(Shelf!Up(s), n)
         /\ \A v : Times(Shelf!Up(s).tree, v) = Times(s.tree, v)
         /\ Shelf!Up(s).at < s.at \/ (Shelf!Up(s) = s /\ IsHeap(s.tree))
<1> DEFINE d == s.tree
           a == s.at
           p == Shelf!Parent(a)
           e == Shelf!Swap(d, a, p)
<1>1. d \in Trees(n) /\ a \in 1 .. n /\ s = [tree |-> d, at |-> a]
  BY DEF Sifts
<1>2. \A i \in 2 .. n : /\ Shelf!Parent(i) \in 1 .. n /\ Shelf!Parent(i) < i
                        /\ i \in 1 .. n
  BY ParentIs
<1>3. \A i \in 1 .. n : rank(d, i) \in Int
  BY <1>1, RankIs
<1>4. /\ \A i \in 2 .. n : i # a => rank(d, Shelf!Parent(i)) <= rank(d, i)
      /\ \A i \in 2 .. n : Shelf!Parent(i) = a /\ a >= 2 => rank(d, p) <= rank(d, i)
  BY DEF Rising
<1>5. Shelf!Up(s) = IF a = 1 \/ ~Shelf!Less(d[a], d[p]) THEN s ELSE [tree |-> e, at |-> p]
  BY DEF Shelf!Up
<1> HIDE DEF d, a, p, e
<1>6. CASE a = 1 \/ ~Shelf!Less(d[a], d[p])
  <2>1. Shelf!Up(s) = s
    BY <1>5, <1>6
  <2>2. ASSUME NEW i \in 2 .. n PROVE rank(d, Shelf!Parent(i)) <= rank(d, i)
    <3>1. CASE i # a
      BY <1>4, <3>1
    <3>2. CASE i = a
      <4>1. a # 1 /\ p \in 1 .. n
        BY <1>2, <3>2 DEF p
      <4>2. ~(rank(d, a) < rank(d, p))
        BY <1>1, <1>6, <4>1, RankIs
      <4>3. rank(d, p) <= rank(d, a)
        BY <1>1, <1>3, <4>1, <4>2
      <4> QED BY <3>2, <4>3 DEF p
    <3> QED BY <3>1, <3>2
  <2>3. IsHeap(d)
    BY <1>1, <2>2, HeapIs
  <2> QED
    BY <2>1, <2>3 DEF d
<1>7. CASE ~(a = 1 \/ ~Shelf!Less(d[a], d[p]))
  <2>1. a \in 2 .. n
    BY <1>1, <1>7
  <2>2. p \in 1 .. n /\ p < a
    BY <1>2, <2>1 DEF p
  <2>3. rank(d, a) < rank(d, p)
    BY <1>1, <1>7, <2>2, RankIs
  <2>4. Shelf!Up(s) = [tree |-> e, at |-> p]
    BY <1>5, <1>7
  <2>5. /\ e \in Trees(n) /\ rank(e, p) = rank(d, a) /\ rank(e, a) = rank(d, p)
        /\ \A k \in 1 .. n : k # a /\ k # p => rank(e, k) = rank(d, k)
    BY <1>1, <2>2, RankOfSwap DEF e
  <2>6. ASSUME NEW i \in 2 .. n, i # p PROVE rank(e, Shelf!Parent(i)) <= rank(e, i)
    <3> DEFINE q == Shelf!Parent(i)
    <3>0. q \in 1 .. n /\ q < i /\ i \in 1 .. n
      BY <1>2
    <3>a. i # a => rank(d, q) <= rank(d, i)
      BY <1>4
    <3>b. q = a => rank(d, p) <= rank(d, i)
      BY <1>4, <2>1
    <3>c. i = a => q = p
      BY DEF p
    <3> SUFFICES rank(e, q) <= rank(e, i)
      OBVIOUS
    <3> HIDE DEF q
    <3>1. CASE i = a
      BY <1>1, <1>3, <2>2, <2>3, <2>5, <3>1, <3>c
    <3>2. CASE i # a /\ q = p
      <4>1. rank(d, p) <= rank(d, i) /\ rank(e, i) = rank(d, i) /\ rank(e, q) = rank(d, a)
        BY <2>5, <2>6, <3>0, <3>2, <3>a
      <4> QED BY <1>1, <1>3, <2>2, <2>3, <3>0, <4>1
    <3>3. CASE i # a /\ q = a
      <4>1. rank(d, p) <= rank(d, i) /\ rank(e, i) = rank(d, i) /\ rank(e, q) = rank(d, p)
        BY <2>5, <2>6, <3>0, <3>3, <3>b
      <4> QED BY <4>1
    <3>4. CASE i # a /\ q # p /\ q # a
      <4>1. rank(d, q) <= rank(d, i) /\ rank(e, i) = rank(d, i) /\ rank(e, q) = rank(d, q)
        BY <2>5, <2>6, <3>0, <3>4, <3>a
      <4> QED BY <4>1
    <3>5. i = a \/ (i # a /\ q = p) \/ (i # a /\ q = a) \/ (i # a /\ q # p /\ q # a)
      OBVIOUS
    <3> QED BY <3>1, <3>2, <3>3, <3>4, <3>5
  <2>7. ASSUME NEW i \in 2 .. n, Shelf!Parent(i) = p, p >= 2
        PROVE  rank(e, Shelf!Parent(p)) <= rank(e, i)
    <3> DEFINE q == Shelf!Parent(p)
    <3>0. p \in 2 .. n /\ p # a /\ i \in 1 .. n /\ p < i
      BY <1>2, <2>2, <2>7
    <3>1. q \in 1 .. n /\ q < p /\ rank(d, q) <= rank(d, p)
      BY <1>2, <1>4, <3>0
    <3> HIDE DEF q
    <3>2. rank(e, q) = rank(d, q)
      BY <2>2, <2>5, <3>1
    <3>3. CASE i = a
      BY <2>5, <3>1, <3>2, <3>3 DEF q
    <3>4. CASE i # a
      <4>1. rank(d, p) <= rank(d, i)
        BY <1>4, <2>7, <3>4
      <4>2. rank(e, i) = rank(d, i)
        BY <2>5, <3>0, <3>4
      <4>3. rank(d, q) <= rank(d, i)
        BY <1>3, <2>2, <3>0, <3>1, <4>1
      <4> QED BY <3>2, <4>2, <4>3 DEF q
    <3> QED BY <3>3, <3>4
  <2>8. Rising([tree |-> e, at |-> p], n)
    BY <2>6, <2>7 DEF Rising
  <2>9. \A v : Times(e, v) = Times(d, v)
    BY <1>1, <2>2, SwapKeeps DEF e
  <2>10. [tree |-> e, at |-> p] \in Sifts(n)
    BY <2>2, <2>5 DEF Sifts
  <2> QED
    BY <2>2, <2>4, <2>8, <2>9, <2>10 DEF d, a
<1> QED BY <1>6, <1>7

(* None of the node and its children comes before the smallest of them.    *)
LEMMA SmallestIs ==
  ASSUME NEW n \in Nat, NEW d \in Trees(n), NEW i \in 1 .. n
  PROVE  LET c == Shelf!Smallest(d, i)
         IN  /\ c \in 1 .. n /\ (c = i \/ (c > i /\ Shelf!Parent(c) = i))
             /\ c # i => rank(d, c) < rank(d, i)
             /\ \A j \in 2 .. n : Shelf!Parent(j) = i => rank(d, c) <= rank(d, j)
<1> DEFINE left == IF 2 * i <= n /\ Shelf!Less(d[2 * i], d[i]) THEN 2 * i ELSE i
           c == IF 2 * i + 1 <= n /\ Shelf!Less(d[2 * i + 1], d[left])
                THEN 2 * i + 1 ELSE left
<1>1. Shelf!Smallest(d, i) = c
  BY TreeIs DEF Shelf!Smallest
<1>2. \A j \in 1 .. n : rank(d, j) \in Int
  BY RankIs
<1>3. \A j \in 2 .. n : Shelf!Parent(j) = i => j = 2 * i \/ j = 2 * i + 1
  BY ParentIs
<1>4. /\ 2 * i <= n => 2 * i \in 2 .. n /\ Shelf!Parent(2 * i) = i
      /\ 2 * i + 1 <= n => 2 * i + 1 \in 2 .. n /\ Shelf!Parent(2 * i + 1) = i
  BY ParentIs
<1>5. /\ left \in 1 .. n /\ left \in {i, 2 * i}
      /\ left = 2 * i => 2 * i <= n /\ rank(d, left) < rank(d, i)
      /\ 2 * i <= n => rank(d, left) <= rank(d, 2 * i)
      /\ rank(d, left) <= rank(d, i)
  <2>1. CASE 2 * i <= n
    <3>1. 2 * i \in 1 .. n /\ 2 * i # i
      BY <2>1
    <3>2. Shelf!Less(d[2 * i], d[i]) <=> rank(d, 2 * i) < rank(d, i)
      BY <3>1, RankIs
    <3> QED BY <1>2, <2>1, <3>1, <3>2
  <2>2. CASE ~(2 * i <= n)
    BY <1>2, <2>2
  <2> QED BY <2>1, <2>2
<1> HIDE DEF left
<1>6. /\ c \in 1 .. n /\ c \in {i, 2 * i, 2 * i + 1}
      /\ c = 2 * i => 2 * i <= n
      /\ c = 2 * i + 1 => 2 * i + 1 <= n
      /\ c # i => rank(d, c) < rank(d, i)
      /\ 2 * i <= n => rank(d, c) <= rank(d, 2 * i)
      /\ 2 * i + 1 <= n => rank(d, c) <= rank(d, 2 * i + 1)
  <2>1. CASE 2 * i + 1 <= n
    <3>1. 2 * i + 1 \in 1 .. n /\ 2 * i + 1 # i /\ 2 * i + 1 # 2 * i /\ 2 * i <= n /\ 2 * i \in 1 .. n
      BY <2>1
    <3>2. Shelf!Less(d[2 * i + 1], d[left]) <=> rank(d, 2 * i + 1) < rank(d, left)
      BY <1>5, <3>1, RankIs
    <3>3. rank(d, left) \in Int /\ rank(d, i) \in Int /\ rank(d, 2 * i) \in Int /\ rank(d, 2 * i + 1) \in Int
      BY <1>2, <1>5, <3>1
    <3>4. CASE Shelf!Less(d[2 * i + 1], d[left])
      <4>1. c = 2 * i + 1
        BY <2>1, <3>4
      <4> HIDE DEF c
      <4> QED BY <1>5, <2>1, <3>1, <3>2, <3>3, <3>4, <4>1
    <3>5. CASE ~Shelf!Less(d[2 * i + 1], d[left])
      <4>1. c = left
        BY <3>5
      <4> HIDE DEF c
      <4> QED BY <1>5, <2>1, <3>1, <3>2, <3>3, <3>5, <4>1
    <3> QED BY <3>4, <3>5
  <2>2. CASE ~(2 * i + 1 <= n)
    <3>1. c = left
      BY <2>2
    <3> HIDE DEF c
    <3> QED BY <1>2, <1>5, <2>2, <3>1
  <2> QED BY <2>1, <2>2
<1> HIDE DEF c
<1>7. c = i \/ (c > i /\ Shelf!Parent(c) = i)
  BY <1>4, <1>6
<1>8. \A j \in 2 .. n : Shelf!Parent(j) = i => rank(d, c) <= rank(d, j)
  BY <1>3, <1>6
<1> QED
  BY <1>1, <1>6, <1>7, <1>8

(* A round of siftDown's loop. *)
LEMMA DownIs ==
  ASSUME NEW n \in Nat, NEW s \in Sifts(n), Sinking(s, n)
  PROVE  /\ Shelf!Down(s) \in Sifts(n) /\ Sinking(Shelf!Down(s), n)
         /\ \A v : Times(Shelf!Down(s).tree, v) = Times(s.tree, v)
         /\ Shelf!Down(s).at > s.at \/ (Shelf!Down(s) = s /\ IsHeap(s.tree))
<1> DEFINE d == s.tree
           a == s.at
           p == Shelf!Parent(a)
           c == Shelf!Smallest(d, a)
           e == Shelf!Swap(d, a, c)
<1>1. d \in Trees(n) /\ a \in 1 .. n /\ s = [tree |-> d, at |-> a]
  BY DEF Sifts
<1>2. \A i \in 2 .. n : /\ Shelf!Parent(i) \in 1 .. n /\ Shelf!Parent(i) < i
                        /\ i \in 1 .. n
  BY ParentIs
<1>3. \A i \in 1 .. n : rank(d, i) \in Int
  BY <1>1, RankIs
<1>4. /\ \A i \in 2 .. n : Shelf!Parent(i) # a => rank(d, Shelf!Parent(i)) <= rank(d, i)
      /\ \A i \in 2 .. n : Shelf!Parent(i) = a /\ a >= 2 => rank(d, p) <= rank(d, i)
  BY DEF Sinking
<1>5. Shelf!Down(s) = [tree |-> e, at |-> c]
  BY DEF Shelf!Down
<1>6. /\ c \in 1 .. n /\ (c = a \/ (c > a /\ Shelf!Parent(c) = a))
      /\ c # a => rank(d, c) < rank(d, a)
      /\ \A j \in 2 .. n : Shelf!Parent(j) = a => rank(d, c) <= rank(d, j)
  BY <1>1, SmallestIs
<1>7. /\ e \in Trees(n) /\ rank(e, c) = rank(d, a) /\ rank(e, a) = rank(d, c)
      /\ \A k \in 1 .. n : k # a /\ k # c => rank(e, k) = rank(d, k)
  BY <1>1, <1>6, RankOfSwap
<1>8. \A v : Times(e, v) = Times(d, v)
  BY <1>1, <1>6, SwapKeeps
<1>9. [tree |-> e, at |-> c] \in Sifts(n)
  BY <1>6, <1>7 DEF Sifts
<1>10. c = a => e = d
  <2>1. d \in Seq(Values) /\ DOMAIN d = 1 .. n
    BY <1>1, TreeIs
  <2> SUFFICES ASSUME c = a PROVE e = d
    OBVIOUS
  <2> HIDE DEF c, d, a
  <2>2. e = [d EXCEPT ![a] = d[a], ![a] = d[a]]
    BY DEF Shelf!Swap
  <2> QED BY <2>1, <2>2
<1> HIDE DEF d, a, p, e, c
<1>11. CASE c = a
  <2>1. Shelf!Down(s) = s
    BY <1>1, <1>5, <1>10, <1>11
  <2>2. \A i \in 2 .. n : rank(d, Shelf!Parent(i)) <= rank(d, i)
    BY <1>4, <1>6, <1>11
  <2>3. IsHeap(d)
    BY <1>1, <2>2, HeapIs
  <2> QED
    BY <2>1, <2>3 DEF d
<1>12. CASE c # a
  <2>1. c \in 2 .. n /\ c > a /\ Shelf!Parent(c) = a /\ rank(d, c) < rank(d, a)
    BY <1>1, <1>6, <1>12
  <2>2. ASSUME NEW i \in 2 .. n, Shelf!Parent(i) # c
        PROVE  rank(e, Shelf!Parent(i)) <= rank(e, i)
    <3> DEFINE q == Shelf!Parent(i)
    <3>0. q \in 1 .. n /\ q < i /\ i \in 1 .. n /\ q # c
      BY <1>2, <2>2
    <3>a. q # a => rank(d, q) <= rank(d, i)
      BY <1>4
    <3>b. q = a => rank(d, c) <= rank(d, i)
      BY <1>6
    <3>c. i = c => q = a
      BY <2>1
    <3>d. i = a => q = p /\ rank(d, p) <= rank(d, c)
      <4> SUFFICES ASSUME i = a PROVE q = p /\ rank(d, p) <= rank(d, c)
        OBVIOUS
      <4>1. a >= 2
        OBVIOUS
      <4> QED BY <1>4, <2>1, <4>1 DEF p
    <3> SUFFICES rank(e, q) <= rank(e, i)
      OBVIOUS
    <3> HIDE DEF q
    <3>1. CASE i = c
      <4>1. rank(e, q) = rank(d, c) /\ rank(e, i) = rank(d, a)
        BY <1>7, <3>1, <3>c
      <4> QED BY <1>1, <1>3, <1>6, <2>1, <4>1
    <3>2. CASE i # c /\ q = a
      <4>1. rank(e, q) = rank(d, c) /\ rank(e, i) = rank(d, i)
        BY <1>7, <3>0, <3>2
      <4> QED BY <3>2, <3>b, <4>1
    <3>3. CASE i = a
      <4>1. rank(e, i) = rank(d, c) /\ rank(e, q) = rank(d, q)
        BY <1>7, <3>0, <3>3
      <4> QED BY <3>3, <3>d, <4>1
    <3>4. CASE i # c /\ i # a /\ q # a
      <4>1. rank(e, i) = rank(d, i) /\ rank(e, q) = rank(d, q)
        BY <1>7, <3>0, <3>4
      <4> QED BY <3>4, <3>a, <4>1
    <3> QED BY <3>1, <3>2, <3>3, <3>4
  <2>3. ASSUME NEW i \in 2 .. n, Shelf!Parent(i) = c, c >= 2
        PROVE  rank(e, Shelf!Parent(c)) <= rank(e, i)
    <3>1. i \in 1 .. n /\ i > c /\ rank(d, c) <= rank(d, i)
      BY <1>2, <1>4, <1>12, <2>3
    <3>2. rank(e, i) = rank(d, i)
      BY <1>1, <1>6, <1>7, <2>1, <3>1
    <3> QED BY <1>7, <2>1, <3>1, <3>2
  <2>4. Sinking([tree |-> e, at |-> c], n)
    BY <2>2, <2>3 DEF Sinking
  <2> QED
    BY <1>5, <1>8, <1>9, <2>1, <2>4 DEF d, a
<1> QED BY <1>11, <1>12

-----------------------------------------------------------------------------
(* A loop of n rounds, each of which is the same function. *)
Rises(n) == {s \in Sifts(n) : Rising(s, n)}
Sinks(n) == {s \in Sifts(n) : Sinking(s, n)}
rises(n) == [k \in 1 .. n |-> [s \in Rises(n) |-> Shelf!Up(s)]]
sinks(n) == [k \in 1 .. n |-> [s \in Sinks(n) |-> Shelf!Down(s)]]

LEMMA RiseSteps ==
  ASSUME NEW n \in Nat
  PROVE  /\ KeepTo(Rises(n), rises(n), n)
         /\ \A k \in 1 .. n : \A r \in Rises(n) : rises(n)[k][r] = Shelf!Up(r)
<1>1. \A k \in 1 .. n : \A r \in Rises(n) : rises(n)[k][r] = Shelf!Up(r)
  BY DEF rises
<1>2. \A r \in Rises(n) : Shelf!Up(r) \in Rises(n)
  BY UpIs DEF Rises
<1> QED
  BY <1>1, <1>2 DEF KeepTo

LEMMA RiseFolds ==
  ASSUME NEW n \in Nat, NEW d \in Trees(n), NEW base \in Rises(n)
  PROVE  Shelf!FoldLeft(LAMBDA s, round : Shelf!Up(s), base, d)
            = FoldOf(base, rises(n), n)
<1> DEFINE S == DOMAIN d
           Fits(h) == h = [t \in SUBSET S |->
                            IF t = {} THEN base ELSE Shelf!Up(h[t \ {Max(t)}])]
           H == CHOOSE h : Fits(h)
           step == rises(n)
<1>1. /\ S = 1 .. n /\ KeepTo(Rises(n), step, n)
      /\ \A k \in 1 .. n : \A r \in Rises(n) : step[k][r] = Shelf!Up(r)
  BY RiseSteps, TreeIs
<1>2. Shelf!FoldLeft(LAMBDA s, round : Shelf!Up(s), base, d) = H[S]
  BY DEF Shelf!FoldLeft, Shelf!MapThenFoldSet, Shelf!Max, Max
<1> HIDE DEF step
<1>3. \E h : Fits(h)
  <2>1. PICK h : IsFoldOf(h, base, step, 1 .. n) /\ \A t \in SUBSET (1 .. n) : h[t] \in Rises(n)
    BY <1>1, FoldOfValues
  <2>2. ASSUME NEW t \in SUBSET S, t # {}
        PROVE  h[t] = Shelf!Up(h[t \ {Max(t)}])
    <3>1. Max(t) \in 1 .. n /\ t \in SUBSET (1 .. n) /\ t \ {Max(t)} \in SUBSET (1 .. n)
      BY <1>1, <2>2, LastPosition
    <3>2. h[t] = step[Max(t)][h[t \ {Max(t)}]] /\ h[t \ {Max(t)}] \in Rises(n)
      BY <2>1, <2>2, <3>1 DEF IsFoldOf
    <3> QED
      BY <1>1, <3>1, <3>2
  <2>3. h = [t \in SUBSET S |-> h[t]] /\ h[{}] = base
    BY <1>1, <2>1 DEF IsFoldOf
  <2> HIDE DEF S
  <2>4. Fits(h)
    BY <2>2, <2>3
  <2> QED
    BY <2>4
<1>4. Fits(H)
  <2> HIDE DEF Fits
  <2> QED
    BY <1>3, Zenon
<1>5. H[1 .. n] = FoldOf(base, step, n)
  <2> HIDE DEF H
  <2>1. H[{}] = base
    BY <1>4
  <2>2. ASSUME NEW t \in SUBSET (1 .. n), t # {}, H[t \ {Max(t)}] \in Rises(n)
        PROVE  H[t] = step[Max(t)][H[t \ {Max(t)}]]
    <3>1. Max(t) \in 1 .. n
      BY <1>1, <2>2, LastPosition
    <3>2. H[t] = Shelf!Up(H[t \ {Max(t)}])
      BY <1>1, <1>4, <2>2
    <3> QED
      BY <1>1, <2>2, <3>1, <3>2
  <2>3. RecursLike(H, Rises(n), base, step, n)
    BY <2>1, <2>2 DEF RecursLike
  <2> HIDE DEF Fits
  <2> QED
    BY <1>1, <2>3, FoldLike
<1> QED
  BY <1>1, <1>2, <1>5 DEF step

(* The loop ends within n rounds: it is left, or the element has moved on. *)
LEMMA UpEnds ==
  ASSUME NEW n \in Nat, NEW d \in Trees(n), NEW base \in Rises(n), base.at = n
  PROVE  LET e == Shelf!FoldLeft(LAMBDA s, round : Shelf!Up(s), base, d).tree
         IN  e \in Trees(n) /\ IsHeap(e) /\ \A v : Times(e, v) = Times(base.tree, v)
<1> DEFINE Stays(s) == Shelf!Up(s) = s /\ IsHeap(s.tree)
           after(k) == FoldOf(base, rises(n), k)
           A == {k \in 0 .. n : /\ after(k).at <= n - k \/ Stays(after(k))
                                /\ \A v : Times(after(k).tree, v) = Times(base.tree, v)}
<1>1. /\ KeepTo(Rises(n), rises(n), n)
      /\ \A k \in 1 .. n : \A r \in Rises(n) : rises(n)[k][r] = Shelf!Up(r)
  BY RiseSteps
<1>2. ASSUME NEW k \in 0 .. n PROVE after(k) \in Rises(n)
  <2>1. KeepTo(Rises(n), rises(n), k) /\ k \in Nat
    BY <1>1 DEF KeepTo
  <2> QED
    BY <2>1, FoldOfStaysIn
<1>3. 0 \in A
  <2>1. after(0) = base
    BY <1>1, FoldOfSteps
  <2>2. base.at \in 1 .. n
    BY DEF Rises, Sifts
  <2> HIDE DEF after
  <2> QED
    BY <2>1, <2>2
<1>4. ASSUME NEW k \in 1 .. n, k - 1 \in A PROVE k \in A
  <2> DEFINE p == after(k - 1)
  <2>1. after(k) = rises(n)[k][p]
    <3>1. k \in Nat /\ k # 0
      OBVIOUS
    <3> QED
      BY <3>1, FoldOfSteps
  <2>2. p \in Rises(n) /\ k - 1 \in 0 .. n
    BY <1>2
  <2>3. after(k) = Shelf!Up(p)
    BY <1>1, <2>1, <2>2
  <2>4. /\ p.at <= n - (k - 1) \/ Stays(p)
        /\ \A v : Times(p.tree, v) = Times(base.tree, v)
    BY <1>4
  <2>5. after(k) \in Rises(n) /\ after(k).at \in 1 .. n /\ p.at \in 1 .. n /\ k \in 0 .. n
    <3>1. k \in 0 .. n
      OBVIOUS
    <3> HIDE DEF after
    <3> QED BY <1>2, <2>2, <3>1 DEF Rises, Sifts
  <2> HIDE DEF after, p
  <2>6. /\ \A v : Times(after(k).tree, v) = Times(p.tree, v)
        /\ after(k).at < p.at \/ (after(k) = p /\ IsHeap(p.tree))
    BY <2>2, <2>3, UpIs DEF Rises
  <2>7. after(k).at <= n - k \/ Stays(after(k))
    <3>1. CASE Stays(p)
      <4>1. after(k) = p
        BY <2>3, <3>1
      <4> QED BY <3>1, <4>1
    <3>2. CASE ~Stays(p) /\ after(k) = p
      <4>1. p.at \in Int /\ after(k).at = p.at
        BY <2>5, <3>2
      <4>2. Shelf!Up(p) = p
        BY <2>3, <3>2
      <4> QED BY <2>6, <3>2, <4>1, <4>2
    <3>3. CASE ~Stays(p) /\ after(k) # p
      <4> HIDE DEF Stays
      <4> QED BY <2>4, <2>5, <2>6, <3>3
    <3> QED BY <3>1, <3>2, <3>3
  <2> QED
    BY <2>4, <2>5, <2>6, <2>7
<1>5. \A k \in 0 .. n : k \in A
  <2> HIDE DEF A
  <2> QED
    BY <1>3, <1>4, UpTo
<1>6. n \in 0 .. n
  OBVIOUS
<1>7. after(n) \in Sifts(n) /\ after(n).at \in 1 .. n /\ after(n).tree \in Trees(n)
  <2> HIDE DEF after
  <2> QED BY <1>2, <1>6 DEF Rises, Sifts
<1>8. Shelf!FoldLeft(LAMBDA s, round : Shelf!Up(s), base, d) = after(n)
  BY RiseFolds
<1> HIDE DEF after
<1>9. IsHeap(after(n).tree) /\ \A v : Times(after(n).tree, v) = Times(base.tree, v)
  BY <1>5, <1>6, <1>7
<1> HIDE DEF A
<1> QED
  BY <1>7, <1>8, <1>9, Zenon

LEMMA SinkSteps ==
  ASSUME NEW n \in Nat
  PROVE  /\ KeepTo(Sinks(n), sinks(n), n)
         /\ \A k \in 1 .. n : \A r \in Sinks(n) : sinks(n)[k][r] = Shelf!Down(r)
<1>1. \A k \in 1 .. n : \A r \in Sinks(n) : sinks(n)[k][r] = Shelf!Down(r)
  BY DEF sinks
<1>2. \A r \in Sinks(n) : Shelf!Down(r) \in Sinks(n)
  BY DownIs DEF Sinks
<1> QED
  BY <1>1, <1>2 DEF KeepTo

LEMMA SinkFolds ==
  ASSUME NEW n \in Nat, NEW d \in Trees(n), NEW base \in Sinks(n)
  PROVE  Shelf!FoldLeft(LAMBDA s, round : Shelf!Down(s), base, d)
            = FoldOf(base, sinks(n), n)
<1> DEFINE S == DOMAIN d
           Fits(h) == h = [t \in SUBSET S |->
                            IF t = {} THEN base ELSE Shelf!Down(h[t \ {Max(t)}])]
           H == CHOOSE h : Fits(h)
           step == sinks(n)
<1>1. /\ S = 1 .. n /\ KeepTo(Sinks(n), step, n)
      /\ \A k \in 1 .. n : \A r \in Sinks(n) : step[k][r] = Shelf!Down(r)
  BY SinkSteps, TreeIs
<1>2. Shelf!FoldLeft(LAMBDA s, round : Shelf!Down(s), base, d) = H[S]
  BY DEF Shelf!FoldLeft, Shelf!MapThenFoldSet, Shelf!Max, Max
<1> HIDE DEF step
<1>3. \E h : Fits(h)
  <2>1. PICK h : IsFoldOf(h, base, step, 1 .. n) /\ \A t \in SUBSET (1 .. n) : h[t] \in Sinks(n)
    BY <1>1, FoldOfValues
  <2>2. ASSUME NEW t \in SUBSET S, t # {}
        PROVE  h[t] = Shelf!Down(h[t \ {Max(t)}])
    <3>1. Max(t) \in 1 .. n /\ t \in SUBSET (1 .. n) /\ t \ {Max(t)} \in SUBSET (1 .. n)
      BY <1>1, <2>2, LastPosition
    <3>2. h[t] = step[Max(t)][h[t \ {Max(t)}]] /\ h[t \ {Max(t)}] \in Sinks(n)
      BY <2>1, <2>2, <3>1 DEF IsFoldOf
    <3> QED
      BY <1>1, <3>1, <3>2
  <2>3. h = [t \in SUBSET S |-> h[t]] /\ h[{}] = base
    BY <1>1, <2>1 DEF IsFoldOf
  <2> HIDE DEF S
  <2>4. Fits(h)
    BY <2>2, <2>3
  <2> QED
    BY <2>4
<1>4. Fits(H)
  <2> HIDE DEF Fits
  <2> QED
    BY <1>3, Zenon
<1>5. H[1 .. n] = FoldOf(base, step, n)
  <2> HIDE DEF H
  <2>1. H[{}] = base
    BY <1>4
  <2>2. ASSUME NEW t \in SUBSET (1 .. n), t # {}, H[t \ {Max(t)}] \in Sinks(n)
        PROVE  H[t] = step[Max(t)][H[t \ {Max(t)}]]
    <3>1. Max(t) \in 1 .. n
      BY <1>1, <2>2, LastPosition
    <3>2. H[t] = Shelf!Down(H[t \ {Max(t)}])
      BY <1>1, <1>4, <2>2
    <3> QED
      BY <1>1, <2>2, <3>1, <3>2
  <2>3. RecursLike(H, Sinks(n), base, step, n)
    BY <2>1, <2>2 DEF RecursLike
  <2> HIDE DEF Fits
  <2> QED
    BY <1>1, <2>3, FoldLike
<1> QED
  BY <1>1, <1>2, <1>5 DEF step

(* The loop ends within n rounds: it is left, or the element has moved on. *)
LEMMA DownEnds ==
  ASSUME NEW n \in Nat, NEW d \in Trees(n), NEW base \in Sinks(n)
  PROVE  LET e == Shelf!FoldLeft(LAMBDA s, round : Shelf!Down(s), base, d).tree
         IN  e \in Trees(n) /\ IsHeap(e) /\ \A v : Times(e, v) = Times(base.tree, v)
<1> DEFINE Stays(s) == Shelf!Down(s) = s /\ IsHeap(s.tree)
           after(k) == FoldOf(base, sinks(n), k)
           A == {k \in 0 .. n : /\ after(k).at >= 1 + k \/ Stays(after(k))
                                /\ \A v : Times(after(k).tree, v) = Times(base.tree, v)}
<1>1. /\ KeepTo(Sinks(n), sinks(n), n)
      /\ \A k \in 1 .. n : \A r \in Sinks(n) : sinks(n)[k][r] = Shelf!Down(r)
  BY SinkSteps
<1>2. ASSUME NEW k \in 0 .. n PROVE after(k) \in Sinks(n)
  <2>1. KeepTo(Sinks(n), sinks(n), k) /\ k \in Nat
    BY <1>1 DEF KeepTo
  <2> QED
    BY <2>1, FoldOfStaysIn
<1>3. 0 \in A
  <2>1. after(0) = base
    BY <1>1, FoldOfSteps
  <2>2. base.at \in 1 .. n
    BY DEF Sinks, Sifts
  <2> HIDE DEF after
  <2> QED
    BY <2>1, <2>2
<1>4. ASSUME NEW k \in 1 .. n, k - 1 \in A PROVE k \in A
  <2> DEFINE p == after(k - 1)
  <2>1. after(k) = sinks(n)[k][p]
    <3>1. k \in Nat /\ k # 0
      OBVIOUS
    <3> QED
      BY <3>1, FoldOfSteps
  <2>2. p \in Sinks(n) /\ k - 1 \in 0 .. n
    BY <1>2
  <2>3. after(k) = Shelf!Down(p)
    BY <1>1, <2>1, <2>2
  <2>4. /\ p.at >= 1 + (k - 1) \/ Stays(p)
        /\ \A v : Times(p.tree, v) = Times(base.tree, v)
    BY <1>4
  <2>5. after(k) \in Sinks(n) /\ after(k).at \in 1 .. n /\ p.at \in 1 .. n /\ k \in 0 .. n
    <3>1. k \in 0 .. n
      OBVIOUS
    <3> HIDE DEF after
    <3> QED BY <1>2, <2>2, <3>1 DEF Sinks, Sifts
  <2> HIDE DEF after, p
  <2>6. /\ \A v : Times(after(k).tree, v) = Times(p.tree, v)
        /\ after(k).at > p.at \/ (after(k) = p /\ IsHeap(p.tree))
    BY <2>2, <2>3, DownIs DEF Sinks
  <2>7. after(k).at >= 1 + k \/ Stays(after(k))
    <3>1. CASE Stays(p)
      <4>1. after(k) = p
        BY <2>3, <3>1
      <4> QED BY <3>1, <4>1
    <3>2. CASE ~Stays(p) /\ after(k) = p
      <4>1. p.at \in Int /\ after(k).at = p.at
        BY <2>5, <3>2
      <4>2. Shelf!Down(p) = p
        BY <2>3, <3>2
      <4> QED BY <2>6, <3>2, <4>1, <4>2
    <3>3. CASE ~Stays(p) /\ after(k) # p
      <4> HIDE DEF Stays
      <4> QED BY <2>4, <2>5, <2>6, <3>3
    <3> QED BY <3>1, <3>2, <3>3
  <2> QED
    BY <2>4, <2>5, <2>6, <2>7
<1>5. \A k \in 0 .. n : k \in A
  <2> HIDE DEF A
  <2> QED
    BY <1>3, <1>4, UpTo
<1>6. n \in 0 .. n
  OBVIOUS
<1>7. after(n) \in Sifts(n) /\ after(n).at \in 1 .. n /\ after(n).tree \in Trees(n)
  <2> HIDE DEF after
  <2> QED BY <1>2, <1>6 DEF Sinks, Sifts
<1>8. Shelf!FoldLeft(LAMBDA s, round : Shelf!Down(s), base, d) = after(n)
  BY SinkFolds
<1> HIDE DEF after
<1>9. IsHeap(after(n).tree) /\ \A v : Times(after(n).tree, v) = Times(base.tree, v)
  BY <1>5, <1>6, <1>7
<1> HIDE DEF A
<1> QED
  BY <1>7, <1>8, <1>9, Zenon

-----------------------------------------------------------------------------
(* The heap's operations. *)
HeapSound == data \in Seq(Values) /\ IsHeap(data)

(* The elements, as callers see them. *)
BagNow == [v \in Shelf!Range(data) |-> Shelf!Cardinality({i \in DOMAIN data : data[i] = v})]

LEMMA BagNowIs ==
  BagNow = BagOf(data) /\ BagNow' = BagOf(data')
<1>1. BagNow = BagOf(data)
  BY SameCardinality, Zenon DEF BagNow, BagOf, Times
<1>2. BagNow' = [v \in Shelf!Range(data') |->
                    Shelf!Cardinality({i \in DOMAIN data' : data'[i] = v})]
  BY DEF BagNow, Shelf!Range
<1>3. BagNow' = BagOf(data')
  BY <1>2, SameCardinality, Zenon DEF BagOf, Times
<1> QED BY <1>1, <1>3

(* e has what d has, and v once more. *)
OneMore(e, d, v) == \A u : Times(e, u) = Times(d, u) + (IF u = v THEN 1 ELSE 0)

LEMMA OneOf == ASSUME NEW v PROVE Shelf!C!SetToBag({v}) = [x \in {v} |-> 1]
  BY DEF Shelf!C!SetToBag

LEMMA BagGrows ==
  ASSUME NEW n \in Nat, NEW d \in Trees(n), NEW m \in Nat, NEW e \in Trees(m), NEW v,
         OneMore(e, d, v)
  PROVE  BagOf(e) = Shelf!C!(+)(BagOf(d), Shelf!C!SetToBag({v}))
<1>1. /\ DOMAIN BagOf(d) = Shelf!Range(d) /\ DOMAIN BagOf(e) = Shelf!Range(e)
      /\ BagOf(e) = [u \in Shelf!Range(e) |-> Times(e, u)]
  BY DEF BagOf
<1>2. \A u : /\ Times(d, u) \in Nat /\ (Times(d, u) > 0 <=> u \in Shelf!Range(d))
             /\ Times(e, u) \in Nat /\ (Times(e, u) > 0 <=> u \in Shelf!Range(e))
             /\ Times(d, u) = IF u \in DOMAIN BagOf(d) THEN BagOf(d)[u] ELSE 0
  BY TimesAre, BagOfIs
<1>3. Shelf!Range(e) = Shelf!Range(d) \cup {v}
  <2>1. ASSUME NEW u PROVE u \in Shelf!Range(e) <=> u \in Shelf!Range(d) \/ u = v
    <3>1. Times(d, u) \in Nat /\ (Times(d, u) > 0 <=> u \in Shelf!Range(d))
      BY <1>2
    <3>2. Times(e, u) > 0 <=> u \in Shelf!Range(e)
      BY <1>2
    <3>3. Times(e, u) = Times(d, u) + (IF u = v THEN 1 ELSE 0)
      BY DEF OneMore
    <3> QED BY <3>1, <3>2, <3>3
  <2> QED BY <2>1
<1> DEFINE one == Shelf!C!SetToBag({v})
<1>4. DOMAIN one = {v} /\ \A u : (IF u \in DOMAIN one THEN one[u] ELSE 0) = (IF u = v THEN 1 ELSE 0)
  <2>1. one = [x \in {v} |-> 1]
    BY OneOf
  <2> HIDE DEF one
  <2> QED BY <2>1
<1> HIDE DEF one
<1>5. Shelf!C!(+)(BagOf(d), one)
        = [u \in Shelf!Range(d) \cup {v} |->
              (IF u \in DOMAIN BagOf(d) THEN BagOf(d)[u] ELSE 0)
                + (IF u \in DOMAIN one THEN one[u] ELSE 0)]
  BY <1>1, <1>4, Zenon DEF Shelf!C!(+)
<1>6. \A u : Times(e, u) = (IF u \in DOMAIN BagOf(d) THEN BagOf(d)[u] ELSE 0)
                              + (IF u \in DOMAIN one THEN one[u] ELSE 0)
  <2> TAKE u
  <2>1. Times(e, u) = Times(d, u) + (IF u = v THEN 1 ELSE 0)
    BY DEF OneMore
  <2>2. Times(d, u) = IF u \in DOMAIN BagOf(d) THEN BagOf(d)[u] ELSE 0
    BY <1>2
  <2>3. (IF u \in DOMAIN one THEN one[u] ELSE 0) = (IF u = v THEN 1 ELSE 0)
    BY <1>4
  <2> QED BY <2>1, <2>2, <2>3, Zenon
<1>7. BagOf(e) = Shelf!C!(+)(BagOf(d), one)
  BY <1>1, <1>3, <1>5, <1>6, Zenon
<1> QED BY <1>7 DEF one

LEMMA InsertImplements ==
  ASSUME HeapSound, NEW v \in Values, Shelf!Insert(v)
  PROVE  HeapSound' /\ Shelf!C!Insert(v)
<1> DEFINE n == Len(data)
           a == Append(data, v)
           base == [tree |-> a, at |-> n + 1]
<1>1. /\ kind = "heap" /\ kind' = kind /\ size' = size /\ ring' = ring /\ index' = index
      /\ ll' = ll /\ item' = item /\ metrics' = metrics /\ answer' = answer
  BY DEF Shelf!Insert, Shelf!cache
<1>2. data' = Shelf!SiftUp(a, n + 1)
  BY DEF Shelf!Insert
<1>3. n \in Nat /\ data \in Trees(n) /\ IsHeap(data)
  BY DEF HeapSound, Trees
<1> HIDE DEF n
<1>4. /\ n + 1 \in Nat /\ a \in Trees(n + 1) /\ \A i \in 1 .. n : a[i] = data[i]
      /\ \A u : Times(a, u) = Times(data, u) + (IF u = v THEN 1 ELSE 0)
  <2>1. n + 1 \in Nat
    BY <1>3
  <2>2. a \in Trees(n + 1) /\ \A i \in 1 .. n : a[i] = data[i]
    BY <1>3, AppendIs
  <2>3. \A u : Times(a, u) = Times(data, u) + (IF u = v THEN 1 ELSE 0)
    <3> TAKE u
    <3> QED BY <1>3, AppendAdds
  <2> QED BY <2>1, <2>2, <2>3
<1> HIDE DEF a
<1>5. base \in Rises(n + 1)
  <2>1. base \in Sifts(n + 1)
    BY <1>3, <1>4 DEF Sifts
  <2>2. \A i \in 2 .. n : rank(data, Shelf!Parent(i)) <= rank(data, i)
    BY <1>3, HeapIs
  <2>3. \A i \in 2 .. n + 1 : Shelf!Parent(i) \in 1 .. n /\ Shelf!Parent(i) < i
    BY <1>3, ParentIs
  <2>4. \A i \in 1 .. n : rank(a, i) = rank(data, i)
    BY <1>4 DEF rank
  <2>5. ASSUME NEW i \in 2 .. n + 1, i # n + 1 PROVE rank(a, Shelf!Parent(i)) <= rank(a, i)
    <3>1. i \in 2 .. n /\ i \in 1 .. n
      BY <1>3, <2>5
    <3> QED BY <2>2, <2>3, <2>4, <3>1
  <2>6. \A i \in 2 .. n + 1 : Shelf!Parent(i) # n + 1
    BY <1>3, <2>3
  <2>7. Rising(base, n + 1)
    BY <2>5, <2>6 DEF Rising
  <2> QED BY <2>1, <2>7 DEF Rises
<1>6. /\ data' \in Trees(n + 1) /\ IsHeap(data')
      /\ \A u : Times(data', u) = Times(a, u)
  <2>1. base.at = n + 1 /\ base.tree = a
    OBVIOUS
  <2>2. data' = Shelf!FoldLeft(LAMBDA s, round : Shelf!Up(s), base, a).tree
    BY <1>2 DEF Shelf!SiftUp
  <2> HIDE DEF base
  <2>3. LET e == Shelf!FoldLeft(LAMBDA s, round : Shelf!Up(s), base, a).tree
        IN  e \in Trees(n + 1) /\ IsHeap(e) /\ \A u : Times(e, u) = Times(a, u)
    <3>1. LET e == Shelf!FoldLeft(LAMBDA s, round : Shelf!Up(s), base, a).tree
          IN  e \in Trees(n + 1) /\ IsHeap(e) /\ \A u : Times(e, u) = Times(base.tree, u)
      BY <1>4, <1>5, <2>1, UpEnds
    <3> QED BY <2>1, <3>1
  <2> QED BY <2>2, <2>3, Zenon
<1>7. HeapSound'
  <2>1. IsHeap(data)' = IsHeap(data')
    BY DEF IsHeap, Shelf!Less, Shelf!Parent
  <2> QED BY <1>6, <2>1 DEF HeapSound, Trees
<1>8. BagNow' = Shelf!C!(+)(BagNow, Shelf!C!SetToBag({v}))
  <2>1. OneMore(data', data, v)
    BY <1>4, <1>6, Zenon DEF OneMore
  <2>2. BagOf(data') = Shelf!C!(+)(BagOf(data), Shelf!C!SetToBag({v}))
    BY <1>3, <1>4, <1>6, <2>1, BagGrows, Zenon
  <2> QED BY <2>2, BagNowIs, Zenon
<1>9. Shelf!C!Insert(v)
  BY <1>1, <1>8, Zenon DEF Shelf!C!Insert, BagNow, Shelf!InOrder
<1> QED BY <1>7, <1>9

(* Nothing comes before the root. *)
LEMMA RootIsLeast ==
  ASSUME NEW n \in Nat \ {0}, NEW d \in Trees(n), IsHeap(d)
  PROVE  \A i \in 1 .. n : rank(d, 1) <= rank(d, i)
<1> DEFINE A == {k \in 0 .. n : \A i \in 1 .. k : rank(d, 1) <= rank(d, i)}
<1>1. \A i \in 1 .. n : rank(d, i) \in Int
  BY RankIs
<1>2. \A i \in 2 .. n : rank(d, Shelf!Parent(i)) <= rank(d, i)
  BY HeapIs
<1>3. 0 \in A
  OBVIOUS
<1>4. ASSUME NEW k \in 1 .. n, k - 1 \in A PROVE k \in A
  <2>1. \A i \in 1 .. k - 1 : rank(d, 1) <= rank(d, i)
    BY <1>4
  <2>2. rank(d, 1) <= rank(d, k)
    <3>1. CASE k = 1
      BY <1>1, <3>1
    <3>2. CASE k # 1
      <4>1. k \in 2 .. n /\ k >= 2 /\ k \in Nat
        BY <3>2
      <4>2. Shelf!Parent(k) \in 1 .. k - 1
        BY <4>1, ParentIs
      <4>3. rank(d, 1) <= rank(d, Shelf!Parent(k)) /\ rank(d, Shelf!Parent(k)) <= rank(d, k)
        BY <1>2, <2>1, <4>1, <4>2
      <4>4. 1 \in 1 .. n /\ Shelf!Parent(k) \in 1 .. n
        BY <4>1, <4>2
      <4> QED BY <1>1, <4>3, <4>4
    <3> QED BY <3>1, <3>2
  <2>3. \A i \in 1 .. k : i \in 1 .. k - 1 \/ i = k
    OBVIOUS
  <2>4. k \in 0 .. n
    OBVIOUS
  <2> QED BY <2>1, <2>2, <2>3, <2>4
<1>5. \A k \in 0 .. n : k \in A
  <2> HIDE DEF A
  <2> QED BY <1>3, <1>4, UpTo
<1>6. n \in 0 .. n
  OBVIOUS
<1> QED BY <1>5, <1>6

(* The last element in the place of the first, which is gone. *)
Replaced(d) == [i \in 1 .. Len(d) - 1 |-> IF i = 1 THEN d[Len(d)] ELSE d[i]]

LEMMA ReplacedIs ==
  ASSUME NEW n \in Nat \ {0}, NEW d \in Trees(n)
  PROVE  /\ Replaced(d) \in Trees(n - 1)
         /\ \A i \in 2 .. n - 1 : Replaced(d)[i] = d[i]
         /\ OneMore(d, Replaced(d), d[1])
<1> DEFINE r == Replaced(d)
           e == Shelf!Swap(d, 1, n)
<1>1. /\ d \in Seq(Values) /\ Len(d) = n /\ \A i \in 1 .. n : d[i] \in Values
      /\ d[1] \in Values /\ 1 \in 1 .. n /\ n \in 1 .. n
  BY TreeIs
<1>2. r = [i \in 1 .. n - 1 |-> IF i = 1 THEN d[n] ELSE d[i]]
  BY <1>1 DEF Replaced
<1>3. r \in Seq(Values) /\ Len(r) = n - 1
  BY <1>1, <1>2
<1>4. r \in Trees(n - 1) /\ n - 1 \in Nat /\ (n - 1) + 1 = n
  BY <1>3 DEF Trees
<1>5. \A i \in 1 .. n - 1 : r[i] = IF i = 1 THEN d[n] ELSE d[i]
  BY <1>2
<1> HIDE DEF r
<1>6. /\ Append(r, d[1]) \in Trees(n) /\ DOMAIN Append(r, d[1]) = 1 .. n
      /\ Append(r, d[1])[n] = d[1] /\ \A i \in 1 .. n - 1 : Append(r, d[1])[i] = r[i]
  <2> DEFINE m == n - 1
  <2>1. m \in Nat /\ m + 1 = n /\ r \in Trees(m)
    BY <1>4
  <2> HIDE DEF m
  <2>2. /\ Append(r, d[1]) \in Trees(m + 1) /\ DOMAIN Append(r, d[1]) = 1 .. m + 1
        /\ Append(r, d[1])[m + 1] = d[1] /\ \A i \in 1 .. m : Append(r, d[1])[i] = r[i]
    <3> DEFINE x == d[1]
    <3>1. x \in Values
      BY <1>1
    <3> HIDE DEF x
    <3>2. /\ Append(r, x) \in Trees(m + 1) /\ DOMAIN Append(r, x) = 1 .. m + 1
          /\ Append(r, x)[m + 1] = x /\ \A i \in 1 .. m : Append(r, x)[i] = r[i]
      <4>1. m \in Nat
        BY <2>1
      <4>2. r \in Trees(m)
        BY <2>1
      <4>3. Append(r, x) \in Trees(m + 1)
        BY <3>1, <4>1, <4>2, AppendIs
      <4>4. DOMAIN Append(r, x) = 1 .. m + 1
        BY <3>1, <4>1, <4>2, AppendIs
      <4>5. Append(r, x)[m + 1] = x
        BY <3>1, <4>1, <4>2, AppendIs
      <4>6. \A i \in 1 .. m : Append(r, x)[i] = r[i]
        BY <3>1, <4>1, <4>2, AppendIs
      <4> QED BY <4>3, <4>4, <4>5, <4>6
    <3> QED BY <3>2 DEF x
  <2>3. /\ Append(r, d[1]) \in Trees(n) /\ DOMAIN Append(r, d[1]) = 1 .. n
        /\ Append(r, d[1])[n] = d[1] /\ \A i \in 1 .. m : Append(r, d[1])[i] = r[i]
    BY <2>1, <2>2
  <2> QED BY <2>3 DEF m
<1>7. /\ e \in Trees(n) /\ DOMAIN e = 1 .. n
      /\ \A i \in 1 .. n : e[i] = IF i = n THEN d[1] ELSE IF i = 1 THEN d[n] ELSE d[i]
  <2>1. e \in Trees(n) /\ \A i \in 1 .. n : e[i] = IF i = n THEN d[1] ELSE IF i = 1 THEN d[n] ELSE d[i]
    BY <1>1, SwapIs
  <2> HIDE DEF e
  <2>2. DOMAIN e = 1 .. n
    BY <2>1, TreeIs
  <2> QED BY <2>1, <2>2
<1>8. Append(r, d[1]) = e
  <2> DEFINE a == Append(r, d[1])
  <2>1. a \in Seq(Values) /\ e \in Seq(Values) /\ Len(a) = n /\ Len(e) = n
    BY <1>6, <1>7 DEF Trees
  <2>2. ASSUME NEW i \in 1 .. n PROVE a[i] = e[i]
    <3>1. i = n \/ i \in 1 .. n - 1
      OBVIOUS
    <3> HIDE DEF e, a
    <3> QED BY <1>5, <1>6, <1>7, <3>1 DEF a
  <2> HIDE DEF a, e
  <2> QED BY <2>1, <2>2 DEF a
<1>9. ASSUME NEW u PROVE Times(d, u) = Times(r, u) + (IF u = d[1] THEN 1 ELSE 0)
  <2>1. Times(e, u) = Times(d, u)
    BY <1>1, SwapKeeps
  <2>2. Times(Append(r, d[1]), u) = Times(r, u) + (IF u = d[1] THEN 1 ELSE 0)
    BY <1>1, <1>4, AppendAdds
  <2> HIDE DEF e
  <2> QED BY <1>8, <2>1, <2>2
<1>10. \A i \in 2 .. n - 1 : r[i] = d[i]
  BY <1>5
<1>11. OneMore(d, r, d[1])
  BY <1>9 DEF OneMore
<1> QED BY <1>4, <1>10, <1>11 DEF r

LEMMA BagShrinks ==
  ASSUME NEW n \in Nat, NEW d \in Trees(n), NEW m \in Nat, NEW e \in Trees(m), NEW v,
         OneMore(d, e, v)
  PROVE  BagOf(e) = Shelf!C!(-)(BagOf(d), Shelf!C!SetToBag({v}))
<1> DEFINE one == Shelf!C!SetToBag({v})
           less == [u \in DOMAIN BagOf(d) |-> IF u \in DOMAIN one THEN BagOf(d)[u] - one[u]
                                              ELSE BagOf(d)[u]]
<1>1. /\ DOMAIN BagOf(d) = Shelf!Range(d) /\ DOMAIN BagOf(e) = Shelf!Range(e)
      /\ BagOf(e) = [u \in Shelf!Range(e) |-> Times(e, u)]
      /\ \A u \in Shelf!Range(d) : BagOf(d)[u] = Times(d, u)
  BY DEF BagOf
<1>2. \A u : /\ Times(d, u) \in Nat /\ (Times(d, u) > 0 <=> u \in Shelf!Range(d))
             /\ Times(e, u) \in Nat /\ (Times(e, u) > 0 <=> u \in Shelf!Range(e))
  BY TimesAre
<1>3. DOMAIN one = {v} /\ one[v] = 1
  <2>1. one = [x \in {v} |-> 1]
    BY OneOf
  <2> HIDE DEF one
  <2> QED BY <2>1
<1>4. Shelf!C!(-)(BagOf(d), one) = [u \in {x \in DOMAIN less : less[x] > 0} |-> less[u]]
  <2> HIDE DEF one
  <2> QED BY Zenon DEF Shelf!C!(-)
<1> HIDE DEF one
<1>5. ASSUME NEW u \in Shelf!Range(d) PROVE less[u] = Times(e, u)
  <2>1. /\ Times(d, u) = Times(e, u) + (IF u = v THEN 1 ELSE 0)
        /\ Times(d, u) \in Nat /\ Times(e, u) \in Nat
    BY <1>2 DEF OneMore
  <2>2. less[u] = IF u = v THEN Times(d, u) - 1 ELSE Times(d, u)
    BY <1>1, <1>3
  <2> QED BY <2>1, <2>2
<1>6. DOMAIN less = Shelf!Range(d)
  BY <1>1
<1> HIDE DEF less
<1>7. {x \in DOMAIN less : less[x] > 0} = Shelf!Range(e)
  <2>1. ASSUME NEW x, x \in Shelf!Range(e) PROVE x \in Shelf!Range(d)
    <3>1. /\ Times(d, x) = Times(e, x) + (IF x = v THEN 1 ELSE 0)
          /\ Times(d, x) \in Nat /\ (Times(d, x) > 0 <=> x \in Shelf!Range(d))
          /\ Times(e, x) \in Nat /\ (Times(e, x) > 0 <=> x \in Shelf!Range(e))
      BY <1>2 DEF OneMore
    <3> QED BY <2>1, <3>1
  <2>2. \A x \in Shelf!Range(d) : less[x] > 0 <=> x \in Shelf!Range(e)
    BY <1>2, <1>5
  <2> QED BY <1>6, <2>1, <2>2
<1>8. \A u \in Shelf!Range(e) : less[u] = Times(e, u)
  BY <1>5, <1>6, <1>7
<1>9. BagOf(e) = Shelf!C!(-)(BagOf(d), one)
  BY <1>1, <1>4, <1>7, <1>8, Zenon
<1> QED BY <1>9 DEF one

LEMMA TakeOutImplements ==
  ASSUME HeapSound, Shelf!TakeOut
  PROVE  HeapSound' /\ Shelf!C!TakeOut
<1> DEFINE n == Len(data)
           r == Replaced(data)
           base == [tree |-> r, at |-> 1]
<1>1. /\ kind = "heap" /\ kind' = kind /\ size' = size /\ ring' = ring /\ index' = index
      /\ ll' = ll /\ item' = item /\ metrics' = metrics
      /\ data = <<>> => answer' = <<>> /\ data' = data
      /\ data # <<>> =>
            /\ answer' = <<Head(data)>>
            /\ Len(data) = 1 => data' = <<>>
            /\ Len(data) # 1 =>
                  data' = Shelf!SiftDown([Shelf!Front(data) EXCEPT ![1] = Shelf!Last(data)], 1)
  BY DEF Shelf!TakeOut, Shelf!cache, Shelf!Nothing
<1>2. n \in Nat /\ data \in Trees(n) /\ IsHeap(data) /\ data \in Seq(Values) /\ Len(data) = n
  BY DEF HeapSound, Trees
<1>3. IsHeap(data)' = IsHeap(data')
  BY DEF IsHeap, Shelf!Less, Shelf!Parent
<1>4. CASE data = <<>>
  <2>1. HeapSound'
    BY <1>1, <1>3, <1>4 DEF HeapSound
  <2>2. BagNow = Shelf!C!EmptyBag
    <3>1. Shelf!Range(<<>>) = {}
      BY DEF Shelf!Range
    <3>2. BagNow = [v \in {} |-> Times(<<>>, v)]
      BY <1>4, <3>1, BagNowIs DEF BagOf
    <3>3. Shelf!C!EmptyBag = [x \in {} |-> 1]
      BY DEF Shelf!C!EmptyBag, Shelf!C!SetToBag
    <3>4. [v \in {} |-> Times(<<>>, v)] = [x \in {} |-> 1]
      OBVIOUS
    <3> QED BY <3>2, <3>3, <3>4
  <2>3. BagNow' = BagNow
    BY <1>1, <1>4, BagNowIs
  <2>4. answer' = <<>>
    BY <1>1, <1>4
  <2>5. Shelf!C!TakeOut
    BY <1>1, <2>2, <2>3, <2>4, Zenon DEF Shelf!C!TakeOut, Shelf!C!Nothing, BagNow, Shelf!InOrder
  <2> QED BY <2>1, <2>5
<1>5. CASE data # <<>>
  <2>1. n \in Nat \ {0} /\ n - 1 \in Nat /\ 1 \in 1 .. n /\ data[1] \in Values /\ Head(data) = data[1]
    BY <1>2, <1>5
  <2>2. /\ r \in Trees(n - 1) /\ \A i \in 2 .. n - 1 : r[i] = data[i]
        /\ OneMore(data, r, data[1])
    BY <1>2, <2>1, ReplacedIs
  <2>3. \A i \in 1 .. n : rank(data, 1) <= rank(data, i)
    BY <1>2, <2>1, RootIsLeast
  <2>4. Len(r) = n - 1 /\ r = [i \in 1 .. n - 1 |-> IF i = 1 THEN data[n] ELSE data[i]]
    BY <2>2 DEF Replaced, Trees
  <2> HIDE DEF r
  <2>5. /\ data' \in Trees(n - 1) /\ IsHeap(data')
        /\ \A u : Times(data', u) = Times(r, u)
    <3>1. CASE n = 1
      <4>1. data' = <<>>
        BY <1>1, <1>5, <3>1
      <4>2. r = <<>>
        <5>1. r \in Seq(Values) /\ Len(r) = 0
          BY <2>2, <2>4, <3>1 DEF Trees
        <5> QED BY <5>1
      <4>3. IsHeap(<<>>)
        BY DEF IsHeap
      <4> QED BY <2>2, <4>1, <4>2, <4>3
    <3>2. CASE n # 1
      <4>1. [Shelf!Front(data) EXCEPT ![1] = Shelf!Last(data)] = r
        <5> DEFINE f == SubSeq(data, 1, n - 1)
        <5>1. f = [i \in 1 .. n - 1 |-> data[i]]
          BY <1>2, <2>1
        <5>2. [f EXCEPT ![1] = data[n]] = [i \in 1 .. n - 1 |-> IF i = 1 THEN data[n] ELSE data[i]]
          <6> HIDE DEF f
          <6> QED BY <2>1, <5>1
        <5>3. Shelf!Front(data) = f /\ Shelf!Last(data) = data[n]
          BY DEF Shelf!Front, Shelf!Last
        <5> HIDE DEF f
        <5> QED BY <2>4, <5>2, <5>3
      <4>2. base \in Sinks(n - 1)
        <5>1. base \in Sifts(n - 1)
          <6>1. 1 \in 1 .. n - 1
            <7>1. n \in Nat /\ n # 0 /\ n # 1
              BY <2>1, <3>2
            <7> HIDE DEF n
            <7> QED BY <7>1
          <6>2. r \in Trees(n - 1)
            BY <2>2
          <6> QED BY <6>1, <6>2, Zenon DEF Sifts
        <5>2. \A i \in 2 .. n : rank(data, Shelf!Parent(i)) <= rank(data, i)
          BY <1>2, HeapIs
        <5>3. \A i \in 2 .. n - 1 : Shelf!Parent(i) \in 1 .. n - 1
          BY <2>1, ParentIs
        <5>4. \A i \in 2 .. n - 1 : rank(r, i) = rank(data, i)
          BY <2>2 DEF rank
        <5>5. ASSUME NEW i \in 2 .. n - 1, Shelf!Parent(i) # 1
              PROVE  rank(r, Shelf!Parent(i)) <= rank(r, i)
          <6>1. Shelf!Parent(i) \in 2 .. n - 1 /\ i \in 2 .. n
            BY <2>1, <5>3, <5>5
          <6> QED BY <5>2, <5>4, <6>1
        <5>6. Sinking(base, n - 1)
          BY <5>5 DEF Sinking
        <5> QED BY <5>1, <5>6 DEF Sinks
      <4>3. base.tree = r
        OBVIOUS
      <4>4. data' = Shelf!FoldLeft(LAMBDA s, round : Shelf!Down(s), base, r).tree
        BY <1>1, <1>5, <3>2, <4>1 DEF Shelf!SiftDown
      <4> HIDE DEF base
      <4>5. LET e == Shelf!FoldLeft(LAMBDA s, round : Shelf!Down(s), base, r).tree
            IN  e \in Trees(n - 1) /\ IsHeap(e) /\ \A u : Times(e, u) = Times(r, u)
        <5>1. LET e == Shelf!FoldLeft(LAMBDA s, round : Shelf!Down(s), base, r).tree
              IN  e \in Trees(n - 1) /\ IsHeap(e) /\ \A u : Times(e, u) = Times(base.tree, u)
          BY <2>1, <2>2, <4>2, DownEnds
        <5> QED BY <4>3, <5>1
      <4> QED BY <4>4, <4>5, Zenon
    <3> QED BY <3>1, <3>2
  <2>6. HeapSound'
    BY <1>3, <2>5 DEF HeapSound, Trees
  <2>7. /\ BagNow' = Shelf!C!(-)(BagNow, Shelf!C!SetToBag({data[1]}))
        /\ DOMAIN BagNow = Shelf!Range(data)
    <3>1. OneMore(data, data', data[1])
      BY <2>2, <2>5 DEF OneMore
    <3>2. BagOf(data') = Shelf!C!(-)(BagOf(data), Shelf!C!SetToBag({data[1]}))
      <4>1. n \in Nat /\ data \in Trees(n)
        BY <1>2
      <4>2. n - 1 \in Nat
        BY <2>1
      <4>3. data' \in Trees(n - 1)
        BY <2>5
      <4> DEFINE m == n - 1
      <4> HIDE DEF n, m
      <4>4. m \in Nat
        BY <4>2 DEF m
      <4>5. data' \in Trees(m)
        BY <4>3 DEF m
      <4> QED BY <3>1, <4>1, <4>4, <4>5, BagShrinks
    <3>3. DOMAIN BagOf(data) = Shelf!Range(data)
      BY DEF BagOf
    <3> QED BY <3>2, <3>3, BagNowIs, Zenon
  <2>8. data[1] \in Shelf!Range(data) /\ \A u \in Shelf!Range(data) : Priority[data[1]] <= Priority[u]
    BY <1>2, <2>1, <2>3, TreeIs DEF Shelf!Range, rank
  <2>9. answer' = <<data[1]>>
    BY <1>1, <1>5, <2>1
  <2>10. Shelf!C!TakeOut
    <3>1. /\ data[1] \in Shelf!C!BagToSet(BagNow)
          /\ \A u \in Shelf!C!BagToSet(BagNow) : Priority[data[1]] <= Priority[u]
      BY <2>7, <2>8 DEF Shelf!C!BagToSet
    <3> QED
      BY <1>1, <2>7, <2>9, <3>1, Zenon DEF Shelf!C!TakeOut, BagNow, Shelf!InOrder
  <2> QED BY <2>6, <2>10
<1> QED BY <1>4, <1>5

-----------------------------------------------------------------------------
(* The containers together. *)
ShelfSound == RingsSound /\ LruSound /\ HeapSound

LEMMA RingsStay ==
  ASSUME RingsSound, UNCHANGED <<kind, size, ring, index>>
  PROVE  RingsSound'
<1>1. /\ kind' = kind /\ size' = size /\ ring' = ring /\ index' = index
      /\ Shelf!InOrder(ring)' = Shelf!InOrder(ring)
  BY InOrderNext
<1>2. /\ Shelf!Range(Shelf!InOrder(ring))' = Shelf!Range(Shelf!InOrder(ring))
      /\ NoTwice(Shelf!InOrder(ring))' = NoTwice(Shelf!InOrder(ring))
  BY <1>1, Zenon DEF Shelf!Range, NoTwice
<1> QED
  BY <1>1, <1>2, RingTypeNext DEF RingsSound

LEMMA LruStays ==
  ASSUME LruSound, UNCHANGED <<size, ll, item>>
  PROVE  LruSound'
  BY SameSoundness DEF LruSound

LEMMA HeapStays ==
  ASSUME HeapSound, UNCHANGED data
  PROVE  HeapSound'
  BY DEF HeapSound, IsHeap, Shelf!Less, Shelf!Parent

LEMMA ShelfInit ==
  ASSUME Shelf!Init
  PROVE  ShelfSound /\ Shelf!C!Init
<1>1. /\ kind \in Kinds /\ size \in {IF n < 1 THEN 1 ELSE n : n \in Sizes}
      /\ ring = EmptyRing /\ index = {} /\ ll = <<>> /\ item = <<>>
      /\ metrics = [hits |-> 0, misses |-> 0, evictions |-> 0]
      /\ data = <<>> /\ answer = <<>>
  BY DEF Shelf!Init, EmptyRing, Kinds, Shelf!Nothing
<1>2. size \in Nat \ {0}
  <2>1. Sizes \subseteq Int
    BY ShelfAssumption DEF Shelf!ContainersConstants
  <2> QED BY <1>1, <2>1
<1>3. Sized
  BY <1>2 DEF Sized
<1>4. /\ IsRing(EmptyRing, RingElements) /\ Shelf!InOrder(ring) = <<>>
  BY <1>1, <1>3, EmptyRingIs, RingElementsAreThings
<1>5. Shelf!Range(<<>>) = {}
  BY DEF Shelf!Range
<1>6. RingsSound
  BY <1>1, <1>3, <1>4, <1>5 DEF RingsSound, NoTwice
<1>7. LruSound
  <2>1. item \in [{} -> Values]
    BY <1>1
  <2> QED BY <1>1, <1>2, <1>5, <2>1 DEF LruSound, NoTwice
<1>8. HeapSound
  BY <1>1 DEF HeapSound, IsHeap
<1>9. RecencyNow = <<>>
  BY <1>1 DEF RecencyNow
<1>10. BagNow = Shelf!C!EmptyBag
  <2>1. BagNow = [v \in {} |-> Times(<<>>, v)]
    BY <1>1, <1>5, BagNowIs DEF BagOf
  <2>2. Shelf!C!EmptyBag = [x \in {} |-> 1]
    BY DEF Shelf!C!EmptyBag, Shelf!C!SetToBag
  <2>3. [v \in {} |-> Times(<<>>, v)] = [x \in {} |-> 1]
    OBVIOUS
  <2> QED BY <2>1, <2>2, <2>3
<1>11. Shelf!C!Init
  BY <1>1, <1>2, <1>4, <1>9, <1>10, Zenon
     DEF Shelf!C!Init, Shelf!C!Nothing, RecencyNow, BagNow, Kinds
<1> QED
  BY <1>6, <1>7, <1>8, <1>11 DEF ShelfSound

(* Every call keeps the representation sound and is a call of Collections. *)
LEMMA ShelfNext ==
  ASSUME ShelfSound, Shelf!Next
  PROVE  ShelfSound' /\ Shelf!C!Next
<1>0. RingsSound /\ LruSound /\ HeapSound
  BY DEF ShelfSound
<1>1. ASSUME NEW v \in Values, Shelf!Push(v) PROVE ShelfSound' /\ Shelf!C!Push(v)
  <2>1. UNCHANGED <<size, ll, item>> /\ UNCHANGED data
    BY <1>1 DEF Shelf!Push, Shelf!cache
  <2> QED BY <1>0, <1>1, <2>1, PushImplements, LruStays, HeapStays DEF ShelfSound
<1>2. ASSUME Shelf!Pop PROVE ShelfSound' /\ Shelf!C!Pop
  <2>1. UNCHANGED <<size, ll, item>> /\ UNCHANGED data
    BY <1>2 DEF Shelf!Pop, Shelf!cache
  <2> QED BY <1>0, <1>2, <2>1, PopImplements, LruStays, HeapStays DEF ShelfSound
<1>3. ASSUME Shelf!Map PROVE ShelfSound' /\ Shelf!C!Map
  <2>1. UNCHANGED <<size, ll, item>> /\ UNCHANGED data
    BY <1>3 DEF Shelf!Map, Shelf!cache
  <2> QED BY <1>0, <1>3, <2>1, MapImplements, LruStays, HeapStays DEF ShelfSound
<1>4. ASSUME NEW k \in Keys, Shelf!Seen(k) PROVE ShelfSound' /\ Shelf!C!Seen(k)
  <2>1. UNCHANGED <<size, ll, item>> /\ UNCHANGED data
    BY <1>4 DEF Shelf!Seen, Shelf!cache
  <2> QED BY <1>0, <1>4, <2>1, SeenImplements, LruStays, HeapStays DEF ShelfSound
<1>5. ASSUME NEW k \in Keys, Shelf!Get(k) PROVE ShelfSound' /\ Shelf!C!Get(k)
  <2>1. UNCHANGED <<kind, size, ring, index>> /\ UNCHANGED data
    BY <1>5 DEF Shelf!Get
  <2> QED BY <1>0, <1>5, <2>1, GetImplements, RingsStay, HeapStays DEF ShelfSound
<1>6. ASSUME NEW k \in Keys, NEW v \in Values, Shelf!Replace(k, v)
      PROVE  ShelfSound' /\ Shelf!C!Put(k, v)
  <2>1. UNCHANGED <<kind, size, ring, index>> /\ UNCHANGED data
    BY <1>6 DEF Shelf!Replace
  <2> QED BY <1>0, <1>6, <2>1, ReplaceImplements, RingsStay, HeapStays DEF ShelfSound
<1>7. ASSUME NEW k \in Keys, NEW v \in Values, Shelf!Put(k, v)
      PROVE  ShelfSound' /\ Shelf!C!Put(k, v)
  <2>1. UNCHANGED <<kind, size, ring, index>> /\ UNCHANGED data
    BY <1>7 DEF Shelf!Put
  <2> QED BY <1>0, <1>7, <2>1, PutImplements, RingsStay, HeapStays DEF ShelfSound
<1>8. ASSUME NEW k \in Keys, Shelf!Delete(k) PROVE ShelfSound' /\ Shelf!C!Delete(k)
  <2>1. UNCHANGED <<kind, size, ring, index>> /\ UNCHANGED data
    BY <1>8 DEF Shelf!Delete
  <2> QED BY <1>0, <1>8, <2>1, DeleteImplements, RingsStay, HeapStays DEF ShelfSound
<1>9. ASSUME NEW v \in Values, Shelf!Insert(v) PROVE ShelfSound' /\ Shelf!C!Insert(v)
  <2>1. UNCHANGED <<kind, size, ring, index>> /\ UNCHANGED <<size, ll, item>>
    BY <1>9 DEF Shelf!Insert, Shelf!cache
  <2> QED BY <1>0, <1>9, <2>1, InsertImplements, RingsStay, LruStays DEF ShelfSound
<1>10. ASSUME Shelf!TakeOut PROVE ShelfSound' /\ Shelf!C!TakeOut
  <2>1. UNCHANGED <<kind, size, ring, index>> /\ UNCHANGED <<size, ll, item>>
    BY <1>10 DEF Shelf!TakeOut, Shelf!cache
  <2> QED BY <1>0, <1>10, <2>1, TakeOutImplements, RingsStay, LruStays DEF ShelfSound
<1> QED
  BY <1>1, <1>2, <1>3, <1>4, <1>5, <1>6, <1>7, <1>8, <1>9, <1>10, Zenon
     DEF Shelf!Next, Shelf!C!Next

LEMMA ShelfStutters ==
  ASSUME UNCHANGED Shelf!vars
  PROVE  UNCHANGED Shelf!C!vars /\ (ShelfSound => ShelfSound')
<1>1. /\ kind' = kind /\ size' = size /\ ring' = ring /\ index' = index /\ ll' = ll
      /\ item' = item /\ metrics' = metrics /\ data' = data /\ answer' = answer
  BY DEF Shelf!vars, Shelf!cache
<1>2. ShelfSound => ShelfSound'
  BY <1>1, RingsStay, LruStays, HeapStays DEF ShelfSound
<1>3. RecencyNow' = RecencyNow /\ BagNow' = BagNow /\ Shelf!InOrder(ring)' = Shelf!InOrder(ring)
  BY <1>1, SameSoundness, BagNowIs, InOrderNext
<1>4. /\ (IF kind = "ring" THEN Shelf!InOrder(ring) ELSE <<>>)'
            = IF kind = "ring" THEN Shelf!InOrder(ring) ELSE <<>>
      /\ (IF kind = "recent" THEN Shelf!InOrder(ring) ELSE <<>>)'
            = IF kind = "recent" THEN Shelf!InOrder(ring) ELSE <<>>
  BY <1>1, <1>3
<1>5. UNCHANGED Shelf!C!vars
  BY <1>1, <1>3, <1>4, Zenon DEF Shelf!C!vars, Shelf!C!held, RecencyNow, BagNow
<1> QED BY <1>2, <1>5

LEMMA ShelfTyped == ShelfSound => Shelf!TypeOK
<1> SUFFICES ASSUME ShelfSound PROVE Shelf!TypeOK
  OBVIOUS
<1>0. RingsSound /\ LruSound /\ HeapSound
  BY DEF ShelfSound
<1>1. /\ ring.head \in Shelf!Slots /\ ring.count \in 0 .. size
      /\ DOMAIN ring.items = Shelf!Slots
  <2>1. ring \in RingType(RingElements)
    BY <1>0 DEF RingsSound, IsRing
  <2> QED BY <2>1 DEF RingType
<1>2. Shelf!Cardinality({i \in Shelf!Slots : ring.items[i] # Shelf!Zero}) = ring.count
  <2>1. Cardinality({i \in Shelf!Slots : ring.items[i] # 0}) = ring.count
    BY <1>0, RingHolds DEF RingsSound
  <2> QED BY <2>1, SameCardinality, Zenon DEF Shelf!Zero
<1>3. kind = "recent" => index = Shelf!Range(Shelf!InOrder(ring))
  BY <1>0 DEF RingsSound
<1>4. DOMAIN item = Shelf!Range(ll) /\ Shelf!IsInjective(ll) /\ Len(ll) <= size
  <2>1. DOMAIN ll = 1 .. Len(ll)
    BY <1>0 DEF LruSound
  <2> QED BY <1>0, <2>1 DEF LruSound, NoTwice, Shelf!IsInjective
<1>5. \A i \in 2 .. Len(data) : ~Shelf!Less(data[i], data[Shelf!Parent(i)])
  BY <1>0 DEF HeapSound, IsHeap
<1> QED
  BY <1>1, <1>2, <1>3, <1>4, <1>5 DEF Shelf!TypeOK

LEMMA BooksAreShelf == BooksSpec => Shelf!Spec
<1>1. BooksInit => Shelf!Init
  BY DEF BooksInit
<1>2. [BooksNext]_all => [Shelf!Next]_(Shelf!vars)
  BY DEF BooksNext, OfBank, OfLedger, OfShelf, all, containerVars, Shelf!vars, Shelf!cache
<1> QED BY <1>1, <1>2, PTL DEF BooksSpec, Shelf!Spec

LEMMA ShelfAlwaysSound ==
  Shelf!Spec => []ShelfSound
<1>1. Shelf!Init => ShelfSound
  BY ShelfInit
<1>2. ShelfSound /\ [Shelf!Next]_(Shelf!vars) => ShelfSound'
  BY ShelfNext, ShelfStutters
<1> QED BY <1>1, <1>2, PTL DEF Shelf!Spec

(* Every call of a container does and returns what Collections promises:   *)
(* for every capacity, any elements and any priorities, rings across the   *)
(* seam of their array (ring.go lines 28-29), RecentKeys' map and ring     *)
(* (lines 91-95), the cache's map and list, and a heap of any length.      *)
THEOREM ContainersImplementCollections == BooksSpec => ImplementsCollections
<1>1. Shelf!Init => Shelf!C!Init
  BY ShelfInit
<1>2. ShelfSound /\ [Shelf!Next]_(Shelf!vars) => [Shelf!C!Next]_(Shelf!C!vars)
  BY ShelfNext, ShelfStutters
<1>3. Shelf!Spec => Shelf!C!Spec
  BY <1>1, <1>2, ShelfAlwaysSound, PTL DEF Shelf!Spec, Shelf!C!Spec
<1> QED
  BY <1>3, BooksAreShelf DEF ImplementsCollections, Shelf!ImplementsCollections

LEMMA BooksAreBank == BooksSpec => Spec
<1>1. BooksInit => Init
  BY DEF BooksInit
<1>2. [BooksNext]_all => [Next]_vars
  BY DEF BooksNext, OfBank, OfLedger, OfShelf, all
<1> QED BY <1>1, <1>2, PTL DEF BooksSpec, Spec

(* The bank's tables, the journal and the containers keep the types of     *)
(* their modules; of the containers these are the agreements between their *)
(* parts: a ring has no element outside its live part, the map of          *)
(* RecentKeys and that of the cache know what is in ring and list, and     *)
(* checkInvariant finds no child before its parent.                        *)
THEOREM TypesCorrect == BooksSpec => []TypesOK
<1>1. BooksSpec => []Shelf!TypeOK
  BY BooksAreShelf, ShelfAlwaysSound, ShelfTyped, PTL
<1>2. BooksSpec => []TypeOK
  BY BooksAreBank, TypeCorrect, PTL
<1>3. TypeOK /\ Journal!TypeOK /\ Shelf!TypeOK => TypesOK
  BY DEF TypesOK
<1> QED BY <1>1, <1>2, <1>3, JournalTypeCorrect, PTL
=============================================================================
