------------------------------- MODULE Stores -------------------------------
(***************************************************************************)
(* What guards shared data, side by side: a behaviour is one of the lease  *)
(* with its fenced storage (chapter 16), or one of Books, chosen at the    *)
(* start.  They do not call each other, and the other one stays in an      *)
(* initial state.                                                          *)
(***************************************************************************)
EXTENDS Lease, Books

VARIABLE guarded    \* "lease" or "books"

storesVars == <<guarded, leaseVars, all>>

(* Books is one and the same shelf while it is not run. *)
StoresInit ==
    /\ LeaseInit /\ BooksInit
    /\ guarded \in {"lease", "books"}
    /\ guarded = "lease" => subject = "bank"

OfLease(A) == guarded = "lease" /\ A /\ UNCHANGED <<guarded, all>>
OfBooks(A) == guarded = "books" /\ A /\ UNCHANGED <<guarded, leaseVars>>

StoresNext == OfLease(LeaseNext) \/ OfBooks(BooksNext)

StoresSpec == StoresInit /\ [][StoresNext]_storesVars

-----------------------------------------------------------------------------
(* The type invariants of Lease and of Books. *)
StoresTypesOK == LeaseTypeOK /\ TypesOK
=============================================================================
