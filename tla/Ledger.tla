------------------------------- MODULE Ledger -------------------------------
(***************************************************************************)
(* The double-entry ledger of 25-fintech-with-go/examples/ledger: money in *)
(* minor units (money.go) and the journal (ledger.go).                     *)
(*                                                                         *)
(* Slices are modelled as Go has them, by reference: an entry holds the    *)
(* address of its lines, and whoever has an address can write through it.  *)
(* References and times of entries are left out but for the empty          *)
(* reference, which Post refuses.  int64 has Width bits.                   *)
(***************************************************************************)
EXTENDS Integers, Sequences, SequencesExt

CONSTANTS
    Callers,      \* goroutines that use the journal
    Accounts,     \* names of accounts; NoAccount is the empty one
    Currencies,   \* three-letter codes; NoCurrency is that of the zero Money
    Width,        \* bits of the amount
    Slips,        \* the lines callers put together for Post
    Amounts,      \* amounts for PostBalance and for writing into a slice
    MaxPosts,     \* bound: calls of Post
    MaxWrites     \* bound: writes by callers into slices they hold

NoAccount == ""
NoCurrency == ""

-----------------------------------------------------------------------------
(* money.go *)

Half == 2 ^ (Width - 1)
Int64 == -Half .. Half - 1
Wrap(n) == ((n + Half) % (2 * Half)) - Half

Money == [amount : Int64, currency : Currencies \cup {NoCurrency}]
Line == [account : Accounts \cup {NoAccount}, amount : Money]

LedgerConstants ==
    /\ IsFiniteSet(Accounts) /\ NoAccount \notin Accounts
    /\ NoCurrency \notin Currencies
    /\ Width \in Nat \ {0}
    /\ Slips \subseteq Seq(Line)
    /\ Amounts \subseteq Int64
    /\ MaxPosts \in Nat
    /\ MaxWrites \in Nat

Zero(currency) == [amount |-> 0, currency |-> currency]

(* An error in place of a Money. *)
Failed(e) == [err |-> e]
IsError(m) == "err" \in DOMAIN m

(* len(currency) == 3 *)
Valid(m) == m.currency # NoCurrency

(* Mutation: the currencies are not compared. *)
AddAny(m, o) ==
    IF ~Valid(m) \/ ~Valid(o) THEN Failed("ErrInvalidAmount")
    ELSE [m EXCEPT !.amount = Wrap(@ + o.amount)]

Add(m, o) ==
    CASE ~Valid(m) \/ ~Valid(o) -> Failed("ErrInvalidAmount")
      [] Valid(m) /\ Valid(o) /\ m.currency # o.currency -> Failed("ErrCurrencyMismatch")
      [] OTHER -> [m EXCEPT !.amount = Wrap(@ + o.amount)]

(* The least int64 is its own negation. *)
Negate(m) == [m EXCEPT !.amount = Wrap(-@)]

(* Sums stop at the first error. *)
Plus(sum, m) == IF IsError(sum) THEN sum ELSE Add(sum, m)

-----------------------------------------------------------------------------
VARIABLES
    heap,       \* address -> lines of the slice there
    entries,    \* Journal.entries: [id, lines: an address]
    nextID,     \* Journal.nextID
    posting,    \* caller -> the slice its Post has validated, or NotPosting
    own,        \* caller -> slices it made or got from Post
    listed,     \* slices Entries has handed out
    result,     \* caller -> what its last Post returned
    posts,      \* calls of Post so far
    writes,     \* writes by callers so far
    rewritten   \* history: a slice Entries handed out was written to

journal == <<entries, nextID>>
vars == <<heap, journal, posting, own, listed, result, posts, writes, rewritten>>

NotPosting == 0

Init ==
    /\ heap = <<>>
    /\ entries = <<>>
    /\ nextID = 0
    /\ posting = [c \in Callers |-> NotPosting]
    /\ own = [c \in Callers |-> {}]
    /\ listed = {}
    /\ result = [c \in Callers |-> "nothing"]
    /\ posts = 0
    /\ writes = 0
    /\ rewritten = FALSE

-----------------------------------------------------------------------------
(* Post's loop over the lines: an empty account ends it, and so does Add. *)
AddLine(sum, line) ==
    IF line.account = NoAccount /\ ~IsError(sum) THEN Failed("error")
    ELSE Plus(sum, line.amount)

(* What Post finds before it takes the lock: "ok" or the error. *)
Verdict(named, lines) ==
    IF ~named THEN "ErrInvalidAmount"
    ELSE IF Len(lines) < 2 THEN "ErrUnbalanced"
    ELSE IF ~Valid(lines[1].amount) THEN "ErrInvalidAmount"
    ELSE LET total == FoldLeft(AddLine, Zero(lines[1].amount.currency), lines)
         IN  IF IsError(total) THEN total.err
             ELSE IF total.amount # 0 THEN "ErrUnbalanced" ELSE "ok"

(* Post up to the lock, on a slice the caller just made. *)
Post(c, named, lines) ==
    /\ posting[c] = NotPosting
    /\ posts < MaxPosts
    /\ posts' = posts + 1
    /\ heap' = Append(heap, lines)
    /\ own' = [own EXCEPT ![c] = @ \cup {Len(heap')}]
    /\ \/ /\ Verdict(named, lines) = "ok"
          /\ posting' = [posting EXCEPT ![c] = Len(heap')]
          /\ UNCHANGED result
       \/ /\ Verdict(named, lines) # "ok"
          /\ result' = [result EXCEPT ![c] = Verdict(named, lines)]
          /\ UNCHANGED posting
    /\ UNCHANGED <<journal, listed, writes, rewritten>>

(* amount into one account, its negation into the other *)
PostBalance(c, from, to, m) ==
    Post(c, TRUE, <<[account |-> from, amount |-> m],
                    [account |-> to, amount |-> Negate(m)]>>)

ReversalEntry(lines) ==
    [i \in DOMAIN lines |-> [lines[i] EXCEPT !.amount = Negate(@)]]

(* Slices a caller has a reference to. *)
Reach(c) == own[c] \cup listed

(* Post(ReversalEntry(e)) for an entry whose lines the caller holds. *)
PostReversal(c) ==
    \E a \in Reach(c) : Post(c, TRUE, ReversalEntry(heap[a]))

(* Mutation: the ID is taken before it is counted up. *)
IDBefore(n) == n

(* j.nextID++ *)
IDAfter(n) == n + 1

(* Mutation: the journal keeps the caller's slice. *)
KeepArgument(argument, copy) == argument

(* append([]Line(nil), lines...): the journal's own copy *)
JournalSlice(argument, copy) == copy

(* The locked part of Post: one copy for the journal, one for the caller. *)
PostAppends(c) ==
    LET lines == heap[posting[c]]
        copy == Len(heap) + 1
        returned == Len(heap) + 2
    IN
    /\ posting[c] # NotPosting
    /\ heap' = heap \o <<lines, lines>>
    /\ nextID' = nextID + 1
    /\ entries' = Append(entries, [id |-> IDAfter(nextID),
                                   lines |-> JournalSlice(posting[c], copy)])
    /\ own' = [own EXCEPT ![c] = @ \cup {returned}]
    /\ posting' = [posting EXCEPT ![c] = NotPosting]
    /\ result' = [result EXCEPT ![c] = "posted"]
    /\ UNCHANGED <<listed, posts, writes, rewritten>>

(* Entries copies the entries but not their lines. *)
Entries(c) ==
    /\ posting[c] = NotPosting
    /\ listed' = listed \cup {entries[i].lines : i \in DOMAIN entries}
    /\ listed' # listed
    /\ UNCHANGED <<heap, journal, posting, own, result, posts, writes, rewritten>>

(* A caller outside the journal changes a line of a slice it holds. *)
Write(c, a, m) ==
    /\ posting[c] = NotPosting
    /\ writes < MaxWrites
    /\ writes' = writes + 1
    /\ heap' = [heap EXCEPT ![a][1].amount = m]
    /\ rewritten' = (rewritten \/ a \in listed)
    /\ UNCHANGED <<journal, posting, own, listed, result, posts>>

(* Everybody is done. *)
Terminated ==
    /\ posts = MaxPosts
    /\ \A c \in Callers : posting[c] = NotPosting
    /\ UNCHANGED vars

Next ==
    \/ Terminated
    \/ \E c \in Callers :
        \/ \E named \in BOOLEAN, lines \in Slips : Post(c, named, lines)
        \/ \E from, to \in Accounts, n \in Amounts, currency \in Currencies :
            PostBalance(c, from, to, [amount |-> n, currency |-> currency])
        \/ PostReversal(c)
        \/ PostAppends(c)
        \/ Entries(c)
        \/ \E a \in Reach(c), n \in Amounts, currency \in Currencies :
            Write(c, a, [amount |-> n, currency |-> currency])

Spec == Init /\ [][Next]_vars

-----------------------------------------------------------------------------
(* What the journal's queries answer. *)

(* Every line of the journal, in entry order. *)
JournalLines == FoldLeft(LAMBDA lines, e : lines \o heap[e.lines], <<>>, entries)

ToTotal(currency, total, line) ==
    IF line.amount.currency = currency THEN Plus(total, line.amount) ELSE total

Total(currency) ==
    FoldLeft(LAMBDA total, line : ToTotal(currency, total, line), Zero(currency), JournalLines)

Unknown == Failed("ErrUnknownAccount")

(* The first line's amount, then the others added. *)
ToBalance(account, balance, line) ==
    IF line.account # account THEN balance
    ELSE IF balance = Unknown THEN line.amount
    ELSE Plus(balance, line.amount)

Balance(account) ==
    FoldLeft(LAMBDA balance, line : ToBalance(account, balance, line), Unknown, JournalLines)

-----------------------------------------------------------------------------
(* Type correctness.  IDs are the positions in the journal, and no two     *)
(* entries share their lines.                                              *)
TypeOK ==
    /\ \A a \in DOMAIN heap : heap[a] \in Seq(Line)
    /\ nextID = Len(entries)
    /\ \A i \in DOMAIN entries : entries[i].id = i /\ entries[i].lines \in DOMAIN heap
    /\ \A i, j \in DOMAIN entries : entries[i].lines = entries[j].lines => i = j
    /\ posting \in [Callers -> {NotPosting} \cup DOMAIN heap]
    /\ \A c \in Callers : Reach(c) \subseteq DOMAIN heap
    /\ posts \in 0 .. MaxPosts
    /\ writes \in 0 .. MaxWrites
    /\ rewritten \in BOOLEAN

(* What an account with this balance has in a currency. *)
Share(balance, currency) ==
    IF ~IsError(balance) /\ balance.currency = currency THEN balance.amount ELSE 0

(* Total's comment, "the sum over all accounts of all currencies must be   *)
(* zero": in every currency the lines sum to zero, and if no account mixes *)
(* currencies the derived balances of its accounts do too.  It holds also  *)
(* for sums that wrap around, and after reversals; callers' writes into    *)
(* what Entries returned are the exception.                                *)
BooksBalance ==
    ~rewritten =>
        \A currency \in Currencies :
            /\ Total(currency) = Zero(currency)
            /\ \/ \E a \in Accounts : Balance(a) = Failed("ErrCurrencyMismatch")
               \/ Wrap(SumFunction([a \in Accounts |-> Share(Balance(a), currency)])) = 0

(* What Post's two copies achieve (lines 84-96): the journal never loses   *)
(* or replaces an entry, and no write to a slice handed to Post or         *)
(* returned by it shows up in the journal.  The slices that Entries hands  *)
(* out are the question of EntriesImmutable.                               *)
HistoryKept ==
    [][/\ IsPrefix(entries, entries')
       /\ \A i \in DOMAIN entries :
            entries[i].lines \notin listed =>
                heap'[entries[i].lines] = heap[entries[i].lines]]_vars

(* "Entries are immutable once posted (defensive copies, no mutators)"     *)
(* (line 38), whatever callers do with the slices they were given.         *)
EntriesImmutable ==
    [][\A i \in DOMAIN entries :
        /\ entries'[i] = entries[i]
        /\ heap'[entries[i].lines] = heap[entries[i].lines]]_vars
=============================================================================
