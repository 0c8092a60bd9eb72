------------------------------ MODULE Limiter ------------------------------
(***************************************************************************)
(* The two-layer rate limiter of 21-security/examples/secure/secure.go:    *)
(* Allow, called by any number of goroutines, and Sweep, called by one.    *)
(*                                                                         *)
(* A keyedLimiter is a box: Allow keeps a pointer to it over several       *)
(* steps, during which Sweep may take it out of the map.  A box nobody     *)
(* points to is back in the state newKeyedLimiter makes.                   *)
(*                                                                         *)
(* The unit of time is what one token takes to refill.  Allow reads the    *)
(* clock three times and uses each reading later, without a lock: time     *)
(* passes between its steps, and a reading may be as old as the step       *)
(* before it.                                                              *)
(***************************************************************************)
EXTENDS Integers, FiniteSets, FiniteSetsExt

CONSTANTS
    Tasks,         \* the goroutines that call Allow
    Ids,           \* the identities
    Boxes,         \* numbered keyedLimiters: enough for the map and the calls
    GlobalBurst,   \* depth of the global bucket
    Burst,         \* depth of an identity's bucket
    TTL,           \* eviction window, 0 for none
    Workloads,     \* bound: which identities each goroutine is asked for
    Lag            \* bound: how long a call may be preempted between two steps

(* Eviction is harmless only if a bucket refills within TTL, late marks    *)
(* and late readings included; NewLimiter does not ask for it.             *)
LimiterConstants ==
    /\ IsFiniteSet(Tasks) /\ IsFiniteSet(Ids) /\ 0 \notin Ids
    /\ IsFiniteSet(Boxes) /\ Boxes \subseteq Nat \ {0}
    /\ Cardinality(Boxes) >= Cardinality(Ids) + Cardinality(Tasks)
    /\ Workloads \subseteq [Tasks -> SUBSET Ids]
    /\ GlobalBurst \in Nat \ {0} /\ Burst \in Nat \ {0}
    /\ TTL \in Nat /\ Lag \in Nat /\ (TTL = 0 \/ TTL >= Burst + 2 * Lag)

VARIABLES
    global,     \* the global bucket
    keys,       \* the map: identity -> its box, or None
    bucket,     \* box -> its bucket
    age,        \* box -> time since mark, at most TTL + 1; Unmarked while last is 0
    serves,     \* task -> the identities it is asked for, one of Workloads
    at,         \* task -> where its Allow is, see Stations
    id,         \* task -> the identity it asks for
    box,        \* task -> the box LoadOrStore returned
    lag,        \* task -> time since the last step of its Allow
    todo,       \* keys Sweep's Range has still to visit
    before,     \* boxes whose last is before the cutoff of the current sweep
    victim,     \* the key whose box Sweep found before the cutoff, or None
    ideal,      \* history: identity -> a bucket that is never evicted
    disturbed   \* history: the identities whose box went while in use

calls == <<serves, at, id, box, lag>>
sweep == <<todo, before, victim>>
history == <<ideal, disturbed>>
vars == <<global, keys, bucket, age, calls, sweep, history>>

None == 0
Unmarked == TTL + 1

(* idle: not in Allow; load, mark, spend: before LoadOrStore, before mark, *)
(* before the identity's AllowN.                                           *)
Stations == {"idle", "load", "mark", "spend"}

-----------------------------------------------------------------------------
(* A rate.Limiter: the tokens at its last grant and the time since the     *)
(* reading that grant was made with.                                       *)
Full(depth) == [tokens |-> depth, since |-> 0]

(* What the bucket holds for a reading l old; a reading before the last    *)
(* grant's finds what that grant left.                                     *)
At(k, l, depth) ==
    LET refilled == k.tokens + (IF k.since > l THEN k.since - l ELSE 0)
    IN  IF refilled < depth THEN refilled ELSE depth

(* AllowN grants a token; the bucket's clock goes to the reading, which    *)
(* may be back.  A refusal changes nothing.                                *)
Taken(k, l, depth) == [tokens |-> At(k, l, depth) - 1, since |-> l]

(* Time passes.  Full for the oldest reading is full for ever.             *)
Older(k, depth) ==
    IF k.tokens = depth \/ k.tokens + k.since + 1 >= depth + Lag
    THEN Full(depth) ELSE [k EXCEPT !.since = @ + 1]

-----------------------------------------------------------------------------
(* NewLimiter; the buckets start full. *)
Init ==
    /\ global = Full(GlobalBurst)
    /\ keys = [i \in Ids |-> None]
    /\ bucket = [b \in Boxes |-> Full(Burst)]
    /\ age = [b \in Boxes |-> Unmarked]
    /\ serves \in Workloads
    /\ at = [t \in Tasks |-> "idle"]
    /\ id = [t \in Tasks |-> None]
    /\ box = [t \in Tasks |-> None]
    /\ lag = [t \in Tasks |-> 0]
    /\ todo = {}
    /\ before = {}
    /\ victim = None
    /\ ideal = [i \in Ids |-> Full(Burst)]
    /\ disturbed = {}

(* A step of t's Allow, and the readings a step may use: taken since the   *)
(* step before it.                                                         *)
Reach(t, station) ==
    /\ at' = [at EXCEPT ![t] = station]
    /\ lag' = [lag EXCEPT ![t] = 0]
Readings(t) == IF at[t] = "idle" THEN 0 .. Lag ELSE 0 .. lag[t]

Sweeping == todo # {} \/ victim # None

(* Who points to box b: the map or a call. *)
InMap(b) == \E i \in Ids : keys[i] = b
HeldBy(b) == {t \in Tasks : box[t] = b}
Unused == {b \in Boxes : ~InMap(b) /\ HeldBy(b) = {}}

(* The global bucket has a token and gives it away.  Without one Allow     *)
(* returns false and changes nothing.                                      *)
PassGlobal(t, i) ==
    /\ at[t] = "idle" /\ i \in serves[t]
    /\ \E l \in Readings(t) :
        /\ At(global, l, GlobalBurst) > 0
        /\ global' = Taken(global, l, GlobalBurst)
    /\ id' = [id EXCEPT ![t] = i]
    /\ Reach(t, "load")
    /\ UNCHANGED <<keys, bucket, age, serves, box, sweep, history>>

(* LoadOrStore: the identity's box, or a new one whose last is zero, which *)
(* is before any cutoff.                                                   *)
LoadOrStore(t) ==
    /\ at[t] = "load"
    /\ LET i == id[t]
           b == IF keys[i] = None THEN Min(Unused) ELSE keys[i]
       IN /\ keys' = [keys EXCEPT ![i] = b]
          /\ box' = [box EXCEPT ![t] = b]
          /\ before' = IF keys[i] = None /\ Sweeping THEN before \cup {b} ELSE before
    /\ Reach(t, "mark")
    /\ UNCHANGED <<global, bucket, age, serves, id, todo, victim, history>>

(* Mutation: mark stores the time only once, when the box is new. *)
FirstMark(b, l) == IF age[b] = Unmarked /\ l <= TTL THEN l ELSE age[b]

(* `k.last.Store(now)`, also over a later mark of another call. *)
MarkedAge(b, l) == IF l <= TTL THEN l ELSE Unmarked

(* kl.mark(l.now()): the mark is after any cutoff, see LimiterConstants. *)
Mark(t) ==
    /\ at[t] = "mark"
    /\ \E l \in Readings(t) : age' = [age EXCEPT ![box[t]] = MarkedAge(box[t], l)]
    /\ before' = before \ {box[t]}
    /\ Reach(t, "spend")
    /\ UNCHANGED <<global, keys, bucket, serves, id, box, todo, victim, history>>

(* A box nobody points to any more is as good as new. *)
Renew(f, b, gone, new) == IF gone THEN [f EXCEPT ![b] = new] ELSE f

(* The identity's AllowN takes a token or fails; Allow returns. *)
Spend(t) ==
    /\ at[t] = "spend"
    /\ LET b == box[t]
           i == id[t]
           gone == ~InMap(b) /\ HeldBy(b) = {t}
       IN /\ \E l \in Readings(t) :
              LET ok == At(bucket[b], l, Burst) > 0
                  spent == IF ok THEN [bucket EXCEPT ![b] = Taken(@, l, Burst)] ELSE bucket
              IN  /\ bucket' = Renew(spent, b, gone, Full(Burst))
                  /\ ideal' = IF ok /\ i \notin disturbed
                              THEN [ideal EXCEPT ![i] = Taken(@, l, Burst)] ELSE ideal
          /\ age' = Renew(age, b, gone, Unmarked)
    /\ id' = [id EXCEPT ![t] = None]
    /\ box' = [box EXCEPT ![t] = None]
    /\ Reach(t, "idle")
    /\ UNCHANGED <<global, keys, serves, sweep, disturbed>>

(* `kl.seenNano() < cutoff.UnixNano()` at the time the cutoff is computed. *)
Stale(b) == age[b] > TTL

(* Sweep computes its cutoff and starts the Range.  Keys stored while it   *)
(* runs may or may not be visited.                                         *)
StartSweep ==
    /\ TTL > 0
    /\ ~Sweeping
    /\ \E new \in SUBSET {i \in Ids : keys[i] = None} :
        todo' = new \cup {i \in Ids : keys[i] # None}
    /\ before' = IF todo' = {} THEN {} ELSE {b \in Boxes : InMap(b) /\ Stale(b)}
    /\ UNCHANGED <<global, keys, bucket, age, calls, victim, history>>

(* Mutation: the Range stops at the first key that is still fresh. *)
StopAtFresh(i) == {}

(* `return true` *)
RestOfRange(i) == todo \ {i}

(* Range visits a key and reads its seenNano ... *)
Visit(i) ==
    /\ victim = None
    /\ i \in todo
    /\ IF keys[i] # None /\ keys[i] \in before
       THEN victim' = i /\ todo' = todo \ {i}
       ELSE victim' = None /\ todo' = RestOfRange(i)
    /\ before' = IF todo' = {} /\ victim' = None THEN {} ELSE before
    /\ UNCHANGED <<global, keys, bucket, age, calls, history>>

(* The bucket that is never evicted, for calls that begin now. *)
Rested(k) == IF At(k, 0, Burst) = Burst THEN Full(Burst) ELSE k

(* ... and deletes what it read, whatever was stored in last since:        *)
(* CompareAndDelete compares the pointer, and only Sweep removes keys.     *)
Evict ==
    /\ victim # None
    /\ LET b == keys[victim]
           gone == HeldBy(b) = {}
           idle == gone /\ b \in before
       IN /\ bucket' = Renew(bucket, b, gone, Full(Burst))
          /\ age' = Renew(age, b, gone, Unmarked)
          /\ ideal' = [ideal EXCEPT ![victim] = IF idle THEN Rested(@) ELSE Full(Burst)]
          /\ disturbed' = IF idle THEN disturbed ELSE disturbed \cup {victim}
    /\ keys' = [keys EXCEPT ![victim] = None]
    /\ victim' = None
    /\ before' = IF todo = {} THEN {} ELSE before \ {keys[victim]}
    /\ UNCHANGED <<global, calls, todo>>

(* A token's worth of time passes, in every call under way too.            *)
Tick ==
    /\ \A t \in Tasks : at[t] # "idle" => lag[t] < Lag
    /\ lag' = [t \in Tasks |-> IF at[t] = "idle" THEN 0 ELSE lag[t] + 1]
    /\ global' = Older(global, GlobalBurst)
    /\ bucket' = [b \in Boxes |-> Older(bucket[b], Burst)]
    /\ age' = [b \in Boxes |-> IF age[b] <= TTL THEN age[b] + 1 ELSE Unmarked]
    /\ ideal' = [i \in Ids |-> Older(ideal[i], Burst)]
    /\ UNCHANGED <<keys, serves, at, id, box, sweep, disturbed>>

Allow(t) == LoadOrStore(t) \/ Mark(t) \/ Spend(t)
Sweep == StartSweep \/ Evict \/ \E i \in Ids : Visit(i)

Next ==
    \/ \E t \in Tasks : Allow(t) \/ \E i \in Ids : PassGlobal(t, i)
    \/ Sweep \/ Tick

Spec == Init /\ [][Next]_vars

-----------------------------------------------------------------------------
(* Type correctness; a task holds a box from LoadOrStore to its last       *)
(* AllowN, no two keys share a box, and unused boxes are new.              *)
Buckets(least, depth) == [tokens : least .. depth, since : 0 .. depth + Lag]

TypeOK ==
    /\ global \in Buckets(0, GlobalBurst)
    /\ keys \in [Ids -> Boxes \cup {None}]
    /\ bucket \in [Boxes -> Buckets(0, Burst)]
    /\ age \in [Boxes -> 0 .. Unmarked]
    /\ serves \in Workloads
    /\ at \in [Tasks -> Stations]
    /\ id \in [Tasks -> Ids \cup {None}]
    /\ box \in [Tasks -> Boxes \cup {None}]
    /\ lag \in [Tasks -> 0 .. Lag]
    /\ todo \subseteq Ids /\ before \subseteq Boxes /\ victim \in Ids \cup {None}
    /\ ideal \in [Ids -> Buckets(-1, Burst)] /\ disturbed \subseteq Ids
    /\ \A t \in Tasks : box[t] # None <=> at[t] \in {"mark", "spend"}
    /\ \A i, j \in Ids : i # j /\ keys[i] # None => keys[i] # keys[j]
    /\ \A b \in Unused : bucket[b] = Full(Burst) /\ age[b] = Unmarked

(* Eviction gives nobody tokens: an identity never gets a token that the   *)
(* bucket which gave it all the earlier ones, and lives for ever, would    *)
(* refuse.  Nothing is claimed of an identity whose box Sweep removed      *)
(* while it was in use, see NotEvictedInUse.                               *)
NoExtraBurst == \A i \in Ids : ideal[i].tokens >= 0

(* "identities that stop calling do not leak memory" (line 108): the box   *)
(* of an identity nobody asks for any more leaves the map for good.        *)
IdleIsForgotten ==
    \A i \in Ids :
        <>[](\A t \in Tasks : id[t] # i) => <>[](keys[i] = None)

(* "Eviction sweeps must not remove a limiter between its check and use"   *)
(* (04-limits-and-hardening.md lines 173-174): the box an Allow got from   *)
(* LoadOrStore stays in the map until its AllowN.  The code does not keep  *)
(* to it: a new box has last = 0 until it is marked (lines 140-142), and a *)
(* mark after seenNano was read goes unnoticed (lines 156-157).            *)
NotEvictedInUse ==
    \A t \in Tasks : at[t] \in {"mark", "spend"} => keys[id[t]] = box[t]
=============================================================================
