------------------------------- MODULE Lease -------------------------------
(***************************************************************************)
(* The lease coordinator and the fenced storage of                         *)
(* 16-distributed-systems/examples/lease/lease.go.                         *)
(*                                                                         *)
(* Coordinator: every method runs under c.mu, so Acquire and Renew are one *)
(* step each.  Fenced: Write runs under f.mu.  Between two calls a client  *)
(* may be paused for any time: a Token is a value, and every token ever    *)
(* granted may be presented to the storage at any later moment, by a live  *)
(* leader or by a zombie.                                                  *)
(***************************************************************************)
EXTENDS Integers, Sequences

CONSTANTS
    Holders,      \* the names clients acquire the lease under
    Resources,    \* the keys of Fenced.newest
    TTL,          \* ttlMs: how long a lease lasts without renewal
    MaxTime,      \* bound: the last reading of the injected clock
    MaxToken,     \* bound: Acquire grants no more tokens than this
    MaxPresented  \* bound: presentations of a token to one resource

ASSUME LeaseConstants ==
    /\ TTL \in Nat
    /\ MaxTime \in Nat
    /\ MaxToken \in Nat
    /\ MaxPresented \in Nat

VARIABLES
    time,     \* the injected clock, milliseconds
    next,     \* Coordinator.next: the last token number handed out
    active,   \* Coordinator.active: holder -> expiry, Absent when no entry
    tokens,   \* Coordinator.tokens: holder -> token number, Absent when no entry
    newest,   \* Fenced.newest: resource -> newest accepted token (0 when no entry)
    granted,  \* history: the Token values Acquire returned
    applied,  \* history: per resource, the token of every apply() that ran, in order
    fenced    \* history: per resource, the token of every write refused with ErrFencedOut

coordinator == <<next, active, tokens>>
storage == <<newest, applied, fenced>>
leaseVars == <<time, next, active, tokens, newest, granted, applied, fenced>>

Absent == -1

Token == [Number : Nat \ {0}, Holder : Holders]

-----------------------------------------------------------------------------
(* NewCoordinator and NewFenced. *)
LeaseInit ==
    /\ time = 0
    /\ next = 0
    /\ active = [h \in Holders |-> Absent]
    /\ tokens = [h \in Holders |-> Absent]
    /\ newest = [r \in Resources |-> 0]
    /\ granted = {}
    /\ applied = [r \in Resources |-> <<>>]
    /\ fenced = [r \in Resources |-> <<>>]

(* `expiry <= now`, the same test in Acquire and in Renew. *)
Expired(h) == active[h] <= time

(* The holders whose entry is in the active map and still valid. *)
Valid == {h \in Holders : active[h] # Absent /\ ~Expired(h)}

(* The two maps after Acquire's eviction loop. *)
Evicted(map) == [h \in Holders |-> IF h \in Valid THEN map[h] ELSE Absent]

(* Mutation: the check for a valid holder is missing. *)
BlockedNever == FALSE

(* `len(c.active) > 0` after the eviction loop. *)
Blocked == Valid # {}

(* Acquire: evict every expired entry, then fail if an entry is left ...   *)
AcquireFails(h) ==
    /\ Blocked
    /\ active' = Evicted(active)
    /\ tokens' = Evicted(tokens)
    /\ UNCHANGED <<time, next, granted, storage>>

(* ... otherwise grant the lease with the next token number.               *)
AcquireGrants(h) ==
    /\ ~Blocked
    /\ next < MaxToken
    /\ next' = next + 1
    /\ active' = [Evicted(active) EXCEPT ![h] = time + TTL]
    /\ tokens' = [Evicted(tokens) EXCEPT ![h] = next']
    /\ granted' = granted \cup {[Number |-> next', Holder |-> h]}
    /\ UNCHANGED <<time, storage>>

(* Mutation: presence in the map is taken for a valid lease. *)
MayRenewIfPresent(h) == active[h] # Absent

(* The negation of `!ok || expiry <= c.now()`. *)
MayRenew(h) == h \in Valid

(* Mutation: the token entry outlives the lease entry. *)
RenewFailsKeepsToken(h) ==
    /\ ~MayRenew(h)
    /\ active' = [active EXCEPT ![h] = Absent]
    /\ UNCHANGED <<time, next, tokens, granted, storage>>

(* Renew of a missing or expired lease drops the entry and returns false.  *)
RenewFails(h) ==
    /\ ~MayRenew(h)
    /\ active' = [active EXCEPT ![h] = Absent]
    /\ tokens' = [tokens EXCEPT ![h] = Absent]
    /\ UNCHANGED <<time, next, granted, storage>>

(* Mutation: a renewal burns a token number without recording it. *)
CounterBumped == next + 1

(* Renew hands out no token. *)
CounterAfterRenew == next

(* Renew of a valid lease.  It reads the clock twice, once for the check   *)
(* and once for the new expiry: the clock may move in between, under c.mu. *)
RenewExtends(h) ==
    /\ MayRenew(h)
    /\ next' = CounterAfterRenew
    /\ \E second \in time .. MaxTime :
        /\ time' = second
        /\ active' = [active EXCEPT ![h] = second + TTL]
    /\ UNCHANGED <<tokens, granted, storage>>

(* Mutation: the token the storage has seen is accepted again. *)
RefusesOlder(r, t) == t.Number < newest[r]

(* Fenced.Write's test. *)
Refuses(r, t) == t.Number <= newest[r]

Presented(r) == Len(applied[r]) + Len(fenced[r])

(* Write: a refused token changes nothing and returns ErrFencedOut ...     *)
WriteRefused(r, t) ==
    /\ Presented(r) < MaxPresented
    /\ Refuses(r, t)
    /\ fenced' = [fenced EXCEPT ![r] = Append(@, t)]
    /\ UNCHANGED <<time, coordinator, granted, newest, applied>>

(* ... an accepted one runs apply() and raises the watermark.              *)
WriteAccepted(r, t) ==
    /\ Presented(r) < MaxPresented
    /\ ~Refuses(r, t)
    /\ applied' = [applied EXCEPT ![r] = Append(@, t)]
    /\ newest' = [newest EXCEPT ![r] = t.Number]
    /\ UNCHANGED <<time, coordinator, granted, fenced>>

(* The injected clock moves on. *)
Tick ==
    /\ time < MaxTime
    /\ time' = time + 1
    /\ UNCHANGED <<coordinator, granted, storage>>

LeaseNext ==
    \/ Tick
    \/ \E h \in Holders :
        AcquireFails(h) \/ AcquireGrants(h) \/ RenewFails(h) \/ RenewExtends(h)
    \/ \E r \in Resources, t \in granted :
        WriteRefused(r, t) \/ WriteAccepted(r, t)

LeaseSpec == LeaseInit /\ [][LeaseNext]_leaseVars

-----------------------------------------------------------------------------
(* Type correctness, with the two maps of the coordinator always keyed by  *)
(* the same holders.                                                       *)
LeaseTypeOK ==
    /\ time \in Nat
    /\ next \in Nat
    /\ active \in [Holders -> Nat \cup {Absent}]
    /\ tokens \in [Holders -> Nat \cup {Absent}]
    /\ newest \in [Resources -> Nat]
    /\ granted \subseteq Token
    /\ applied \in [Resources -> Seq(Token)]
    /\ fenced \in [Resources -> Seq(Token)]
    /\ \A h \in Holders : active[h] = Absent <=> tokens[h] = Absent

(* Mutual exclusion of the lease: two clients are never both inside an     *)
(* unexpired lease, whatever the order of Acquire, Renew and clock         *)
(* readings (Acquire, lines 50-58).                                        *)
SingleHolder == \A h, k \in Valid : h = k

(* Whoever is inside the lease carries the newest token in existence, so   *)
(* the storage can never hold a watermark that fences the rightful leader  *)
(* off on behalf of somebody else (Acquire lines 59-61, Renew line 76,     *)
(* which extends without a new token).                                     *)
HolderHasNewestToken ==
    \A h \in Valid :
        /\ tokens[h] = next
        /\ \A r \in Resources :
            /\ newest[r] <= tokens[h]
            /\ newest[r] = tokens[h] =>
                applied[r][Len(applied[r])].Holder = h

(* Fencing: on one resource the writes that took effect carry strictly     *)
(* increasing tokens, so that no zombie's write lands after a write of a   *)
(* later leader, however long it was delayed (Fenced.Write).               *)
FencedOrder ==
    \A r \in Resources :
        \A i, j \in 1 .. Len(applied[r]) :
            i < j => applied[r][i].Number < applied[r][j].Number

(* ErrFencedOut never comes out of the blue: on the same resource a write  *)
(* with that token or a later one has taken effect.  Resources fence       *)
(* independently, and a leader that wrote nothing is not turned away.      *)
RefusalIsJustified ==
    \A r \in Resources :
        \A i \in 1 .. Len(fenced[r]) :
            \E j \in 1 .. Len(applied[r]) :
                fenced[r][i].Number <= applied[r][j].Number

(* The lease and the fence together implement leadership in terms: a term  *)
(* starts only when the previous one is over, with a token above all       *)
(* earlier ones, a lapsed term never resumes ("a zombie that let its lease *)
(* expire cannot renew", lines 65-66), and resources take writes in the    *)
(* order of terms.                                                         *)
Terms == INSTANCE LeaderTerms
            WITH leaders <- Valid, terms <- granted, log <- applied
ImplementsTerms == Terms!TermSpec
=============================================================================
