-------------------------------- MODULE Books --------------------------------
(***************************************************************************)
(* What keeps books and collections without a server, side by side: a      *)
(* behaviour is one of the bank store, of the ledger or of a container,    *)
(* chosen at the start.  They do not call each other, and the others stay  *)
(* in an initial state.                                                    *)
(***************************************************************************)
EXTENDS PostgresBank

CONSTANTS
    Callers, Names, Currencies, Width, Slips, Postings, MaxPosts, MaxWrites,
    Values, Keys, Image, Priority, Sizes, MaxHeap, MaxCounted

VARIABLES
    subject,    \* "bank", "ledger" or "container"
    heap, entries, nextID, posting, own, listed, outcome, posts, writes, rewritten,
    kind, size, ring, index, ll, item, metrics, data, answer

Journal == INSTANCE Ledger WITH
    Accounts <- Names, Amounts <- Postings, result <- outcome
Shelf == INSTANCE Containers WITH returned <- answer

ASSUME LedgerAssumption == Journal!LedgerConstants
ASSUME ShelfAssumption == Shelf!ContainersConstants

ledgerVars == <<heap, entries, nextID, posting, own, listed, outcome, posts, writes,
                rewritten>>
containerVars == <<kind, size, ring, index, ll, item, metrics, data, answer>>
all == <<subject, vars, ledgerVars, containerVars>>

BooksInit ==
    /\ Init /\ Journal!Init /\ Shelf!Init
    /\ subject \in {"bank", "ledger", "container"}
    /\ subject # "container" => kind = "heap" /\ size = 1

OfBank(A) == subject = "bank" /\ A /\ UNCHANGED <<subject, ledgerVars, containerVars>>
OfLedger(A) == subject = "ledger" /\ A /\ UNCHANGED <<subject, vars, containerVars>>
OfShelf(A) == subject = "container" /\ A /\ UNCHANGED <<subject, vars, ledgerVars>>

BooksNext == OfBank(Next) \/ OfLedger(Journal!Next) \/ OfShelf(Shelf!Next)

BooksSpec == BooksInit /\ [][BooksNext]_all

-----------------------------------------------------------------------------
(* The type invariants of the three modules. *)
TypesOK == TypeOK /\ Journal!TypeOK /\ Shelf!TypeOK

(* BooksBalance, HistoryKept and EntriesImmutable of the ledger, and        *)
(* ImplementsCollections of the containers.                                 *)
BooksBalance == Journal!BooksBalance
HistoryKept == Journal!HistoryKept
EntriesImmutable == Journal!EntriesImmutable
ImplementsCollections == Shelf!ImplementsCollections
=============================================================================
