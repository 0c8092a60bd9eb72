---------------------------- MODULE LeaderTerms ----------------------------
(***************************************************************************)
(* What a lease with fencing tokens promises, without clocks, counters or  *)
(* watermarks: terms are granted one at a time, each with a token above    *)
(* every earlier one, and a resource takes writes in the order of terms.   *)
(* Lease implements this specification (PROPERTY ImplementsTerms).         *)
(***************************************************************************)
EXTENDS Integers, Sequences

CONSTANTS Holders, Resources

VARIABLES
    leaders,   \* who is inside the lease now
    terms,     \* the tokens granted so far
    log        \* per resource, the tokens of the writes that took effect

termVars == <<leaders, terms, log>>

TermInit ==
    /\ leaders = {}
    /\ terms = {}
    /\ log = [r \in Resources |-> <<>>]

(* A new term starts only when nobody is inside the lease, and outranks    *)
(* every earlier term.  It may be over before its holder hears of it.      *)
Elect(h) ==
    /\ leaders = {}
    /\ leaders' \in {{h}, {}}
    /\ \E new \in terms' :
        /\ new.Holder = h
        /\ \A t \in terms : t.Number < new.Number
        /\ terms' = terms \cup {new}
    /\ UNCHANGED log

(* The term ends; it never comes back. *)
Depose ==
    /\ leaders' = {}
    /\ UNCHANGED <<terms, log>>

(* A write of term t lands only after writes of earlier terms. *)
Land(r, t) ==
    /\ \A i \in 1 .. Len(log[r]) : log[r][i].Number < t.Number
    /\ log' = [log EXCEPT ![r] = Append(@, t)]
    /\ UNCHANGED <<leaders, terms>>

TermNext ==
    \/ \E h \in Holders : Elect(h)
    \/ Depose
    \/ \E r \in Resources, t \in terms : Land(r, t)

TermSpec == TermInit /\ [][TermNext]_termVars
=============================================================================
