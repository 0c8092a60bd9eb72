---------------------------- MODULE GatesProofs ----------------------------
(***************************************************************************)
(* Proofs about the two gates a call passes.                               *)
(*                                                                         *)
(* Resilience: for every number of callers, every threshold, cooldown,     *)
(* bulkhead and retry policy, the bulkhead leaks no slot, a trip of the    *)
(* breaker holds for its whole cooldown, and a raised probe flag always    *)
(* has a call that will take it down.                                      *)
(*                                                                         *)
(* Limiter: for any number of goroutines and identities, every depth of    *)
(* the buckets, every preemption between the steps of an Allow and every   *)
(* TTL an idle bucket refills within, late marks and readings included,    *)
(* eviction gives nobody tokens.                                           *)
(***************************************************************************)
EXTENDS Gates, Sums

(* The calls inside the dependency; each holds a slot of the bulkhead. *)
Inside == {c \in Callers : pc[c] = "call"}

(* While the breaker is open the time since the trip and the time left of  *)
(* the cooldown add up; otherwise the cooldown is over.                    *)
CooldownRuns ==
    sinceTrip = IF openFor > 0 THEN Cooldown - openFor ELSE Cooldown

(* The inductive strengthening of the invariants. *)
IInv ==
    /\ CallersTypeOK
    /\ IsFiniteSet(Inside)
    /\ CooldownRuns
    /\ FlagHasReporter

-----------------------------------------------------------------------------
(* `base << attempt` is a number, whatever the attempt. *)
LEMMA PowerIsNatural == \A n \in Nat : 2^n \in Nat
<1> TAKE n \in Nat
<1>1. IsFiniteSet(1 .. n) /\ Cardinality(1 .. n) = n
  BY FS_Interval
<1>2. IsFiniteSet(SUBSET (1 .. n)) /\ Cardinality(SUBSET (1 .. n)) = 2^n
  BY <1>1, FS_SUBSET
<1> QED BY <1>2, FS_CardinalityType

(* The backoff of a caller. *)
LEMMA BackoffIsNatural ==
    ASSUME CallersTypeOK, NEW c \in Callers
    PROVE  /\ Backoff(c) \in Nat
           /\ \A jitter \in 0 .. (Backoff(c) \div 2) - 1 : Backoff(c) + jitter \in Nat
<1>1. tries[c] \in Nat
  BY ResilienceConstants DEF CallersTypeOK
<1>2. 2^tries[c] \in Nat
  BY <1>1, PowerIsNatural
<1>3. Backoff(c) \in Nat
  BY <1>2, ResilienceConstants DEF Backoff
<1> QED BY <1>3

(* Nobody has called, the breaker is closed, the bulkhead empty. *)
LEMMA InitIInv == CallersInit => IInv
<1> SUFFICES ASSUME CallersInit PROVE IInv
  OBVIOUS
<1>1. Inside = {}
  BY DEF CallersInit, Inside
<1>2. IsFiniteSet(Inside) /\ Cardinality(Inside) = 0
  BY <1>1, FS_EmptySet
<1>3. CallersTypeOK
  <2>1. /\ failures \in 0 .. Threshold /\ openFor \in {Closed, Past} \cup 0 .. Cooldown
        /\ halfOpen \in BOOLEAN /\ slots \in 0 .. MaxInFlight
        /\ sinceTrip \in 0 .. Cooldown
    <3>1. Threshold \in Nat /\ Cooldown \in Nat /\ MaxInFlight \in Nat
      BY ResilienceConstants
    <3>2. halfOpen \in BOOLEAN
      BY DEF CallersInit
    <3>3. openFor \in {Closed, Past} \cup 0 .. Cooldown
      BY DEF CallersInit
    <3>4. failures \in 0 .. Threshold /\ slots \in 0 .. MaxInFlight
      BY <3>1 DEF CallersInit
    <3>5. sinceTrip \in 0 .. Cooldown
      BY <3>1 DEF CallersInit
    <3> QED BY <3>2, <3>3, <3>4, <3>5
  <2>2. /\ pc \in [Callers -> Places] /\ tries \in [Callers -> 0 .. MaxTries - 1]
        /\ result \in [Callers -> Results]
    BY ResilienceConstants DEF CallersInit, Places, Results
  <2>3. /\ budget \in [Callers -> Nat \cup {NoDeadline}] /\ wait \in [Callers -> Nat]
        /\ probing \subseteq Callers
    BY DEF CallersInit
  <2>4. slots = Cardinality({c \in Callers : pc[c] = "call"})
    BY <1>2 DEF CallersInit, Inside
  <2> QED BY <2>1, <2>2, <2>3, <2>4 DEF CallersTypeOK
<1>4. CooldownRuns /\ FlagHasReporter
  BY DEF CallersInit, CooldownRuns, FlagHasReporter, Closed
<1> QED BY <1>2, <1>3, <1>4 DEF IInv

(* No step of a caller or of the clock leaves the inductive invariant. *)
LEMMA NextIInv == IInv /\ [CallersNext]_callerVars => IInv'
<1> SUFFICES ASSUME IInv, [CallersNext]_callerVars PROVE IInv'
  OBVIOUS
<1> USE DEF IInv
<1> USE ResilienceConstants
<1>0. /\ CallersTypeOK
      /\ IsFiniteSet(Inside) /\ slots = Cardinality(Inside) /\ slots \in 0 .. MaxInFlight
  BY DEF CallersTypeOK, Inside
<1>1. CASE Tick
  <2>1. CallersTypeOK'
    BY <1>0, <1>1 DEF Tick, CallersTypeOK, Down, Closed, Past, NoDeadline
  <2>2. Inside' = Inside
    BY <1>1 DEF Tick, Inside
  <2>3. CooldownRuns'
    BY <1>0, <1>1 DEF Tick, CallersTypeOK, CooldownRuns, Closed, Past
  <2>4. FlagHasReporter'
    BY <1>1 DEF Tick, FlagHasReporter, Out, Closed, Past
  <2> QED BY <1>0, <2>1, <2>2, <2>3, <2>4
<1>2. ASSUME NEW c \in Callers, Begin(c)
      PROVE  IInv'
  <2>1. Inside' = Inside
    BY <1>0, <1>2 DEF Begin, CallersTypeOK, CallerTo, Inside
  <2>2. CallersTypeOK'
    BY <1>0, <1>2, <2>1 DEF Begin, breaker, CallersTypeOK, CallerTo, Inside, Places
  <2>3. CooldownRuns' /\ FlagHasReporter'
    BY <1>2 DEF Begin, breaker, CallerTo, CallersTypeOK, CooldownRuns, FlagHasReporter, Out
  <2> QED BY <1>0, <2>1, <2>2, <2>3
<1>3. ASSUME NEW c \in Callers, Admit(c)
      PROVE  IInv'
  <2>1. Inside' = Inside
    BY <1>0, <1>3 DEF Admit, CallersTypeOK, CallerTo, Inside
  <2>2. CallersTypeOK'
    BY <1>0, <1>3, <2>1 DEF Admit, CallersTypeOK, CallerTo, Inside, Places
  <2>3. CooldownRuns' /\ FlagHasReporter'
    BY <1>3 DEF Admit, CallerTo, CallersTypeOK, CooldownRuns, FlagHasReporter, Out
  <2> QED BY <1>0, <2>1, <2>2, <2>3
<1>4. ASSUME NEW c \in Callers, FastFail(c)
      PROVE  IInv'
  <2>1. Inside' = Inside
    BY <1>0, <1>4 DEF FastFail, CallersTypeOK, CallerTo, Inside
  <2>2. CallersTypeOK'
    BY <1>0, <1>4, <2>1
       DEF FastFail, breaker, CallersTypeOK, CallerTo, Yields, Inside, Places, Results
  <2>3. CooldownRuns' /\ FlagHasReporter'
    BY <1>4 DEF FastFail, breaker, CallerTo, CallersTypeOK, CooldownRuns, FlagHasReporter, Out
  <2> QED BY <1>0, <2>1, <2>2, <2>3
<1>5. ASSUME NEW c \in Callers, Enter(c)
      PROVE  IInv'
  <2>1. Inside' = Inside \cup {c} /\ c \notin Inside
    BY <1>0, <1>5 DEF Enter, CallersTypeOK, CallerTo, Inside
  <2>2. IsFiniteSet(Inside') /\ Cardinality(Inside') = slots + 1
    BY <1>0, <2>1, FS_AddElement
  <2>3. CallersTypeOK'
    BY <1>0, <1>5, <2>2 DEF Enter, breaker, CallersTypeOK, CallerTo, Inside, Places
  <2>4. CooldownRuns' /\ FlagHasReporter'
    BY <1>5 DEF Enter, breaker, CallerTo, CallersTypeOK, CooldownRuns, FlagHasReporter, Out
  <2> QED BY <2>2, <2>3, <2>4
<1>6. ASSUME NEW c \in Callers, EnterExpired(c)
      PROVE  IInv'
  <2>1. Inside' = Inside
    BY <1>0, <1>6 DEF EnterExpired, CallersTypeOK, CallerTo, Inside
  <2>2. CallersTypeOK'
    BY <1>0, <1>6, <2>1
       DEF EnterExpired, breaker, CallersTypeOK, CallerTo, Yields, Inside, Places, Results
  <2>3. CooldownRuns' /\ FlagHasReporter'
    BY <1>6
       DEF EnterExpired, breaker, CallerTo, CallersTypeOK, CooldownRuns, FlagHasReporter, Out
  <2> QED BY <1>0, <2>1, <2>2, <2>3
<1>7. ASSUME NEW c \in Callers, Saturated(c)
      PROVE  IInv'
  <2>1. Inside' = Inside
    BY <1>0, <1>7 DEF Saturated, CallersTypeOK, CallerTo, Inside
  <2>2. CallersTypeOK'
    BY <1>0, <1>7, <2>1
       DEF Saturated, breaker, CallersTypeOK, CallerTo, Yields, Inside, Places, Results
  <2>3. \E d \in Callers : pc[d] = "call"
    <3>1. Cardinality(Inside) # 0
      BY <1>0, <1>7 DEF Saturated
    <3> QED BY <1>0, <3>1, FS_EmptySet DEF Inside
  <2>4. CooldownRuns' /\ FlagHasReporter'
    BY <1>7, <2>3
       DEF Saturated, breaker, CallerTo, CallersTypeOK, CooldownRuns, FlagHasReporter, Out
  <2> QED BY <1>0, <2>1, <2>2, <2>4
<1>8. ASSUME NEW c \in Callers, Finish(c)
      PROVE  IInv'
  <2>1. Inside' = Inside \ {c} /\ c \in Inside
    BY <1>0, <1>8 DEF Finish, CallersTypeOK, CallerTo, Inside
  <2>2. /\ IsFiniteSet(Inside') /\ Cardinality(Inside') = slots - 1
        /\ slots' = slots - 1
    BY <1>0, <1>8, <2>1, FS_RemoveElement DEF Finish, SlotsAfter
  <2>3. slots' \in 0 .. MaxInFlight
    BY <1>0, <2>2, FS_CardinalityType
  <2>4. CallersTypeOK'
    BY <1>0, <1>8, <2>2, <2>3
       DEF Finish, breaker, CallersTypeOK, CallerTo, Yields, Inside, Places, Results
  <2>5. CooldownRuns' /\ FlagHasReporter'
    BY <1>8 DEF Finish, breaker, CallerTo, CallersTypeOK, CooldownRuns, FlagHasReporter, Out
  <2> QED BY <2>2, <2>4, <2>5
<1>9. ASSUME NEW c \in Callers, Record(c)
      PROVE  IInv'
  <2>1. Inside' = Inside
    BY <1>0, <1>9 DEF Record, CallersTypeOK, CallerTo, Inside
  <2>2. /\ failures' \in 0 .. Threshold
        /\ openFor' \in {Closed, Past} \cup 0 .. Cooldown
        /\ halfOpen' = FALSE
        /\ sinceTrip' \in 0 .. Cooldown
        /\ CooldownRuns'
    <3>1. CASE ResolveProbe(result[c] = "nil")
      BY <1>0, <3>1
         DEF ResolveProbe, FlagAfter, Trip, CallersTypeOK, CooldownRuns, FlagHasReporter,
             Closed, Past
    <3>2. CASE CountOutcome(result[c] = "nil")
      BY <1>0, <3>2 DEF CountOutcome, Trip, CallersTypeOK, CooldownRuns, Closed, Past
    <3> QED BY <1>9, <3>1, <3>2 DEF Record
  <2>3. CallersTypeOK'
    BY <1>0, <1>9, <2>1, <2>2 DEF Record, CallersTypeOK, CallerTo, Inside, Places
  <2>4. FlagHasReporter'
    BY <2>2 DEF FlagHasReporter
  <2> QED BY <1>0, <2>1, <2>2, <2>3, <2>4
<1>10. ASSUME NEW c \in Callers, pc[c] \in {"decide", "backoff"}, Leave(c),
              UNCHANGED <<breaker, slots, probing>>
       PROVE  IInv'
  <2>1. Inside' = Inside
    BY <1>0, <1>10 DEF Leave, CallersTypeOK, CallerTo, Inside
  <2>2. tries' \in [Callers -> 0 .. MaxTries - 1]
    BY <1>0, <1>10 DEF Leave, CallersTypeOK
  <2>3. /\ budget' \in [Callers -> Nat \cup {NoDeadline}] /\ wait' \in [Callers -> Nat]
        /\ pc' \in [Callers -> Places] /\ result' \in [Callers -> Results]
    BY <1>0, <1>10 DEF Leave, CallerTo, Yields, CallersTypeOK, Places, Results
  <2>4. CallersTypeOK'
    BY <1>0, <1>10, <2>1, <2>2, <2>3 DEF breaker, CallersTypeOK, Inside
  <2>5. CooldownRuns' /\ FlagHasReporter'
    BY <1>10 DEF Leave, breaker, CallerTo, CallersTypeOK, CooldownRuns, FlagHasReporter, Out
  <2> QED BY <1>0, <2>1, <2>4, <2>5
<1>11. ASSUME NEW c \in Callers, Sleep(c)
       PROVE  IInv'
  <2>1. Inside' = Inside
    BY <1>0, <1>11 DEF Sleep, CallersTypeOK, CallerTo, Inside
  <2>2. wait' \in [Callers -> Nat]
    BY <1>0, <1>11, BackoffIsNatural DEF Sleep, CallersTypeOK
  <2>3. CallersTypeOK'
    BY <1>0, <1>11, <2>1, <2>2 DEF Sleep, breaker, CallersTypeOK, CallerTo, Inside, Places
  <2>4. CooldownRuns' /\ FlagHasReporter'
    BY <1>11 DEF Sleep, breaker, CallerTo, CallersTypeOK, CooldownRuns, FlagHasReporter, Out
  <2> QED BY <1>0, <2>1, <2>3, <2>4
<1>12. ASSUME NEW c \in Callers, Wake(c), AttemptsLeft(c)
       PROVE  IInv'
  <2>1. Inside' = Inside
    BY <1>0, <1>12 DEF Wake, CallersTypeOK, CallerTo, Inside
  <2>2. tries' \in [Callers -> 0 .. MaxTries - 1]
    BY <1>0, <1>12 DEF Wake, AttemptsLeft, CallersTypeOK
  <2>3. /\ pc' \in [Callers -> Places] /\ result' \in [Callers -> Results]
        /\ UNCHANGED <<budget, wait, breaker, slots, probing>>
    BY <1>0, <1>12 DEF Wake, CallerTo, Yields, CallersTypeOK, Places, Results
  <2>4. CallersTypeOK'
    BY <1>0, <2>1, <2>2, <2>3 DEF breaker, CallersTypeOK, Inside
  <2>5. CooldownRuns' /\ FlagHasReporter'
    BY <1>12 DEF Wake, breaker, CallerTo, CallersTypeOK, CooldownRuns, FlagHasReporter, Out
  <2> QED BY <1>0, <2>1, <2>4, <2>5
<1>13. CASE UNCHANGED callerVars
  <2>1. Inside' = Inside
    BY <1>13 DEF callerVars, Inside
  <2> QED
    BY <1>0, <1>13, <2>1 DEF callerVars, CallersTypeOK, CooldownRuns, FlagHasReporter, Out
<1>14. ASSUME NEW c \in Callers, ReturnNow(c) \/ GiveUp(c) \/ Wake(c)
       PROVE  IInv'
  BY <1>10, <1>12, <1>14 DEF ReturnNow, GiveUp, Wake
<1> QED
  BY <1>1, <1>2, <1>3, <1>4, <1>5, <1>6, <1>7, <1>8, <1>9, <1>11, <1>13, <1>14
     DEF CallersNext, CallerStep

(* The inductive invariant holds in every reachable state. *)
LEMMA AlwaysIInv == CallersSpec => []IInv
BY InitIInv, NextIInv, PTL DEF CallersSpec

(* Types, and the bulkhead counts exactly the calls inside the dependency: *)
(* no slot leaks or is given back twice (Bulkhead.Do).                     *)
THEOREM TypeCorrect == CallersSpec => []CallersTypeOK
<1>1. IInv => CallersTypeOK
  BY DEF IInv
<1> QED BY <1>1, AlwaysIInv, PTL

(* While the flag makes Allow fail some admitted call is going to report   *)
(* (Allow line 87, Record lines 111-118).                                  *)
THEOREM ProbesAreReported == CallersSpec => []FlagHasReporter
<1>1. IInv => FlagHasReporter
  BY DEF IInv
<1> QED BY <1>1, AlwaysIInv, PTL

(* Whoever is admitted is admitted after the cooldown of the last trip     *)
(* (Allow lines 83-85).                                                    *)
THEOREM TripsHold == CallersSpec => CooldownHonoured
<1>1. IInv /\ [CallersNext]_callerVars =>
        [\A c \in Callers : pc[c] = "allow" /\ pc'[c] = "enter" => sinceTrip >= Cooldown]_callerVars
  <2> SUFFICES ASSUME IInv, CallersNext, NEW d \in Callers, pc[d] = "allow", pc'[d] = "enter"
               PROVE  sinceTrip >= Cooldown
    OBVIOUS
  <2>1. pc \in [Callers -> Places]
    BY DEF IInv, CallersTypeOK
  <2>2. ~Tick
    BY DEF Tick
  <2>3. PICK c \in Callers : Begin(c) \/ CallerStep(c)
    BY <2>2 DEF CallersNext
  <2>4. c = d /\ Admit(d)
    BY <2>1, <2>3
       DEF Begin, CallerStep, Admit, FastFail, Enter, EnterExpired, Saturated, Finish,
           Record, ReturnNow, Sleep, Wake, GiveUp, Leave, CallerTo
  <2> QED
    BY <2>4, ResilienceConstants DEF Admit, StillOpen, IInv, CallersTypeOK, CooldownRuns, Closed, Past
<1> QED BY <1>1, AlwaysIInv, PTL DEF CallersSpec, CooldownHonoured
-----------------------------------------------------------------------------
(* The rate limiter. *)
(* One bucket holds no more than another, whatever the reading. *)
Below(j, k) ==
    \/ k.tokens = Burst
    \/ j.tokens <= k.tokens /\ j.tokens + j.since <= k.tokens + k.since

(* A bucket has filled up since a mark of age n, but for the time the mark *)
(* and the grants made around it may be late.                              *)
Refilled(n, k) == L!At(k, 0, Burst) = Burst \/ n - 2 * Lag <= L!At(k, 0, Burst)

(* A call asks for an identity from its start to its end, a mark is not    *)
(* older than a call can be, and no other identity's box is in use.        *)
Asking ==
    /\ \A t \in Tasks : id[t] # L!None <=> at[t] # "idle"
    /\ \A t \in Tasks : at[t] = "spend" => age[box[t]] <= Lag + lag[t]
    /\ \A t \in Tasks, j \in Ids : box[t] # L!None /\ keys[j] = box[t] => j = id[t]

(* What a sweep takes for idle has not been marked for longer than the     *)
(* TTL, and only Sweep removes keys.                                       *)
Suspects ==
    /\ TTL = 0 => todo = {} /\ victim = L!None
    /\ \A b \in before : age[b] = L!Unmarked
    /\ victim # L!None => keys[victim] # L!None

(* An identity whose box was never taken away while in use: its bucket     *)
(* holds no more than one that lives for ever, which has filled up since   *)
(* the box was marked, and its calls hold the box in the map.              *)
Intact(i) ==
    /\ keys[i] = L!None => ideal[i].tokens = Burst
    /\ keys[i] # L!None => /\ Below(bucket[keys[i]], ideal[i])
                           /\ Refilled(age[keys[i]], ideal[i])
    /\ \A t \in Tasks : id[t] = i /\ box[t] # L!None => box[t] = keys[i]

(* The inductive strengthening of NoExtraBurst. *)
LimiterIInv ==
    /\ L!TypeOK
    /\ Asking
    /\ Suspects
    /\ \A i \in Ids : ideal[i] \in L!Buckets(0, Burst)
    /\ \A i \in Ids : i \notin disturbed => Intact(i)

-----------------------------------------------------------------------------
(* The buckets (rate.Limiter). *)
LEMMA FullBucket ==
  ASSUME NEW depth \in Nat, Lag \in Nat
  PROVE  /\ L!Full(depth) \in L!Buckets(0, depth)
         /\ L!Full(depth).tokens = depth
BY DEF L!Full, L!Buckets

LEMMA WiderBuckets ==
  ASSUME NEW depth \in Nat, Lag \in Nat, NEW k \in L!Buckets(0, depth)
  PROVE  k \in L!Buckets(-1, depth)
BY DEF L!Buckets

LEMMA AtBounds ==
  ASSUME NEW depth \in Nat, Lag \in Nat, NEW k \in L!Buckets(0, depth), NEW l \in Nat
  PROVE  /\ L!At(k, l, depth) \in 0 .. depth
         /\ k.tokens = depth => L!At(k, l, depth) = depth
BY DEF L!Buckets, L!At

(* A grant leaves a bucket. *)
LEMMA TakenIsBucket ==
  ASSUME NEW depth \in Nat, Lag \in Nat, NEW k \in L!Buckets(0, depth), NEW l \in 0 .. Lag,
         L!At(k, l, depth) > 0
  PROVE  L!Taken(k, l, depth) \in L!Buckets(0, depth)
<1>1. L!At(k, l, depth) \in 0 .. depth
  BY AtBounds
<1> QED BY <1>1 DEF L!Buckets, L!Taken

(* Time leaves a bucket; only a full one goes back to since = 0. *)
LEMMA OlderIsBucket ==
  ASSUME NEW depth \in Nat, Lag \in Nat, NEW k \in L!Buckets(0, depth)
  PROVE  /\ L!Older(k, depth) \in L!Buckets(0, depth)
         /\ k.tokens = depth => L!Older(k, depth) = L!Full(depth)
<1>1. /\ k = [tokens |-> k.tokens, since |-> k.since]
      /\ k.tokens \in 0 .. depth /\ k.since \in 0 .. depth + Lag
  BY DEF L!Buckets
<1>2. CASE k.tokens = depth \/ k.tokens + k.since + 1 >= depth + Lag
  BY <1>2, FullBucket DEF L!Older
<1>3. CASE ~(k.tokens = depth \/ k.tokens + k.since + 1 >= depth + Lag)
  <2>1. L!Older(k, depth) = [tokens |-> k.tokens, since |-> k.since + 1]
    BY <1>1, <1>3 DEF L!Older
  <2> QED BY <1>1, <1>3, <2>1 DEF L!Buckets
<1> QED BY <1>2, <1>3

(* If the smaller bucket grants, so does the larger, and stays the larger. *)
LEMMA BelowTaken ==
  ASSUME Burst \in Nat, Lag \in Nat, NEW j \in L!Buckets(0, Burst), NEW k \in L!Buckets(0, Burst),
         NEW l \in 0 .. Lag, Below(j, k), L!At(j, l, Burst) > 0
  PROVE  L!At(k, l, Burst) > 0 /\ Below(L!Taken(j, l, Burst), L!Taken(k, l, Burst))
<1>1. /\ L!At(j, l, Burst) \in 0 .. Burst /\ L!At(k, l, Burst) \in 0 .. Burst
      /\ L!At(j, l, Burst) <= L!At(k, l, Burst)
  BY DEF L!At, Below, L!Buckets
<1> QED BY <1>1 DEF L!Taken, Below

(* Both grow alike. *)
LEMMA BelowOlder ==
  ASSUME Burst \in Nat, Lag \in Nat, NEW j \in L!Buckets(0, Burst), NEW k \in L!Buckets(0, Burst),
         Below(j, k)
  PROVE  Below(L!Older(j, Burst), L!Older(k, Burst))
<1>1. CASE k.tokens = Burst \/ k.tokens + k.since + 1 >= Burst + Lag
  BY <1>1 DEF L!Older, L!Full, Below
<1>2. CASE ~(k.tokens = Burst \/ k.tokens + k.since + 1 >= Burst + Lag)
  <2>1. /\ j.tokens \in Nat /\ j.since \in Nat /\ k.tokens \in Nat /\ k.since \in Nat
        /\ j.tokens <= Burst /\ k.tokens <= Burst
    BY DEF L!Buckets
  <2>2. j.tokens <= k.tokens /\ j.tokens + j.since <= k.tokens + k.since /\ j.tokens # Burst
    BY <1>2, <2>1 DEF Below
  <2>3. /\ L!Older(j, Burst) = [j EXCEPT !.since = @ + 1]
        /\ L!Older(k, Burst) = [k EXCEPT !.since = @ + 1]
    BY <1>2, <2>1, <2>2 DEF L!Older
  <2>4. /\ L!Older(j, Burst).tokens = j.tokens /\ L!Older(j, Burst).since = j.since + 1
        /\ L!Older(k, Burst).tokens = k.tokens /\ L!Older(k, Burst).since = k.since + 1
    BY <2>3 DEF L!Buckets
  <2> QED BY <2>1, <2>2, <2>4 DEF Below
<1> QED BY <1>1, <1>2

(* A full bucket has filled up since any mark, and so has every bucket     *)
(* since a mark as late as marks are.                                      *)
LEMMA RefilledAtOnce ==
  ASSUME Burst \in Nat, Lag \in Nat, NEW k \in L!Buckets(0, Burst), NEW n \in Nat,
         k.tokens = Burst \/ n <= 2 * Lag
  PROVE  Refilled(n, k)
<1>1. L!At(k, 0, Burst) \in 0 .. Burst /\ (k.tokens = Burst => L!At(k, 0, Burst) = Burst)
  BY AtBounds
<1> QED BY <1>1 DEF Refilled

(* Time fills a bucket as it ages a mark. *)
LEMMA RefilledOlder ==
  ASSUME Burst \in Nat, Lag \in Nat, NEW k \in L!Buckets(0, Burst), NEW n \in Nat, NEW m \in Nat,
         m <= n + 1, Refilled(n, k)
  PROVE  Refilled(m, L!Older(k, Burst))
<1>1. /\ k.tokens \in 0 .. Burst /\ k.since \in Nat
  BY DEF L!Buckets
<1>2. CASE k.tokens = Burst \/ k.tokens + k.since + 1 >= Burst + Lag
  <2>1. L!Older(k, Burst) = L!Full(Burst)
    BY <1>2 DEF L!Older
  <2> QED BY <2>1, FullBucket, RefilledAtOnce
<1>3. CASE ~(k.tokens = Burst \/ k.tokens + k.since + 1 >= Burst + Lag)
  <2>1. L!Older(k, Burst).tokens = k.tokens /\ L!Older(k, Burst).since = k.since + 1
    BY <1>3 DEF L!Older, L!Buckets
  <2>2. /\ L!At(k, 0, Burst) = IF k.tokens + k.since < Burst THEN k.tokens + k.since ELSE Burst
        /\ L!At(L!Older(k, Burst), 0, Burst)
            = IF k.tokens + k.since + 1 < Burst THEN k.tokens + k.since + 1 ELSE Burst
    BY <1>1, <2>1 DEF L!At
  <2> QED BY <1>1, <2>2 DEF Refilled
<1> QED BY <1>2, <1>3

-----------------------------------------------------------------------------
(* newKeyedLimiter always finds a box: the map and the other calls do not  *)
(* use them all.                                                           *)
LEMMA BoxIsFound ==
  ASSUME L!LimiterConstants, LimiterIInv, NEW t \in Tasks, at[t] = "load"
  PROVE  L!Min(L!Unused) \in L!Unused
<1> DEFINE others == Tasks \ {t}
           mapped == {keys[i] : i \in Ids}
           taken == {box[s] : s \in others}
<1>1. /\ IsFiniteSet(Tasks) /\ IsFiniteSet(Ids) /\ IsFiniteSet(Boxes)
      /\ Boxes \subseteq Nat \ {0} /\ Cardinality(Boxes) >= Cardinality(Ids) + Cardinality(Tasks)
  BY DEF L!LimiterConstants, L!IsFiniteSet, IsFiniteSet, L!Cardinality, Cardinality
<1>2. /\ IsFiniteSet(others) /\ Cardinality(others) = Cardinality(Tasks) - 1
      /\ Cardinality(Tasks) \in Nat /\ Cardinality(Ids) \in Nat /\ Cardinality(Boxes) \in Nat
  BY <1>1, FS_RemoveElement, FS_CardinalityType
<1>3. IsFiniteSet(mapped) /\ Cardinality(mapped) <= Cardinality(Ids)
  <2> DEFINE f == [i \in Ids |-> keys[i]]
  <2>1. f \in Surjection(Ids, mapped)
    BY DEF Surjection
  <2> HIDE DEF f, mapped
  <2> QED
    BY <1>1, <2>1, FS_Surjection
<1>4. IsFiniteSet(taken) /\ Cardinality(taken) <= Cardinality(others)
  <2> DEFINE f == [s \in others |-> box[s]]
  <2>1. f \in Surjection(others, taken)
    BY DEF Surjection
  <2> HIDE DEF f, taken, others
  <2> QED
    BY <1>2, <2>1, FS_Surjection
<1>5. /\ IsFiniteSet(mapped \cup taken)
      /\ Cardinality(mapped \cup taken) <= Cardinality(mapped) + Cardinality(taken)
  <2> HIDE DEF mapped, taken
  <2>1. /\ IsFiniteSet(mapped \cup taken) /\ IsFiniteSet(mapped \cap taken)
        /\ Cardinality(mapped \cup taken)
            = Cardinality(mapped) + Cardinality(taken) - Cardinality(mapped \cap taken)
    BY <1>3, <1>4, FS_Union, FS_Intersection
  <2>2. /\ Cardinality(mapped \cap taken) \in Nat /\ Cardinality(mapped) \in Nat
        /\ Cardinality(taken) \in Nat
    BY <1>3, <1>4, <2>1, FS_CardinalityType
  <2> QED
    BY <2>1, <2>2
<1>6. L!Unused # {}
  <2> SUFFICES ASSUME L!Unused = {} PROVE FALSE
    OBVIOUS
  <2>1. box[t] = L!None
    BY DEF LimiterIInv, L!TypeOK
  <2>2. Boxes \subseteq mapped \cup taken
    BY <1>1, <2>1 DEF L!Unused, L!InMap, L!HeldBy, L!None
  <2>3. Cardinality(Boxes) <= Cardinality(mapped \cup taken)
    BY <1>5, <2>2, FS_Subset
  <2>4. /\ Cardinality(mapped \cup taken) \in Nat /\ Cardinality(mapped) \in Nat
        /\ Cardinality(taken) \in Nat
    BY <1>3, <1>4, <1>5, FS_CardinalityType
  <2> HIDE DEF mapped, taken, others
  <2> QED
    BY <1>1, <1>2, <1>3, <1>4, <1>5, <2>3, <2>4
<1>7. L!Unused \subseteq Boxes
  BY DEF L!Unused
<1>8. IsFiniteSet(L!Unused) /\ L!Unused \subseteq Nat
  BY <1>1, <1>7, FS_Subset
<1> QED
  BY <1>6, <1>8, HasLeast DEF Min, L!Min

(* NewLimiter: full buckets, an empty map. *)
LEMMA LimiterInit == L!LimiterConstants /\ L!Init => LimiterIInv
<1> SUFFICES ASSUME L!LimiterConstants, L!Init PROVE LimiterIInv
  OBVIOUS
<1>1. /\ Burst \in Nat /\ Burst > 0 /\ GlobalBurst \in Nat /\ TTL \in Nat /\ Lag \in Nat
  BY DEF L!LimiterConstants
<1>2. /\ L!Full(GlobalBurst) \in L!Buckets(0, GlobalBurst)
      /\ L!Full(Burst) \in L!Buckets(0, Burst) /\ L!Full(Burst) \in L!Buckets(-1, Burst)
      /\ L!Full(Burst).tokens = Burst
  BY <1>1, FullBucket, WiderBuckets
<1>3. L!TypeOK
  <2>1. L!Unmarked \in 0 .. L!Unmarked /\ 0 \in 0 .. Lag
    BY <1>1 DEF L!Unmarked
  <2>2. /\ keys \in [Ids -> Boxes \cup {L!None}]
        /\ bucket \in [Boxes -> L!Buckets(0, Burst)]
        /\ age \in [Boxes -> 0 .. L!Unmarked]
        /\ at \in [Tasks -> L!Stations]
        /\ id \in [Tasks -> Ids \cup {L!None}]
        /\ box \in [Tasks -> Boxes \cup {L!None}]
        /\ lag \in [Tasks -> 0 .. Lag]
        /\ ideal \in [Ids -> L!Buckets(-1, Burst)]
    BY <1>2, <2>1 DEF L!Init, L!Stations
  <2> QED
    BY <1>2, <2>2 DEF L!Init, L!TypeOK, L!Unused
<1>4. Asking /\ Suspects
  BY DEF L!Init, Asking, Suspects, L!None
<1>5. \A i \in Ids : ideal[i] \in L!Buckets(0, Burst) /\ Intact(i)
  BY <1>2 DEF L!Init, Intact, L!None
<1> QED
  BY <1>3, <1>4, <1>5 DEF LimiterIInv

-----------------------------------------------------------------------------
(* Every step of Allow, of Sweep and of the clock keeps the invariant. *)
LEMMA LimiterNext == ASSUME L!LimiterConstants, LimiterIInv, [L!Next]_(L!vars) PROVE LimiterIInv'
<1>0. /\ Burst \in Nat /\ Burst > 0 /\ GlobalBurst \in Nat /\ Lag \in Nat
      /\ TTL \in Nat /\ (TTL = 0 \/ TTL >= Burst + 2 * Lag)
      /\ 0 \notin Ids /\ Boxes \subseteq Nat \ {0}
  BY DEF L!LimiterConstants
<1>. /\ L!TypeOK /\ Asking /\ Suspects
     /\ \A i \in Ids : ideal[i] \in L!Buckets(0, Burst)
     /\ \A i \in Ids : i \notin disturbed => Intact(i)
  BY DEF LimiterIInv
<1>9. /\ \A c \in Boxes : age[c] \in Nat /\ age[c] <= TTL + 1
      /\ \A t \in Tasks : lag[t] \in Nat /\ lag[t] <= Lag
      /\ \A t \in Tasks : L!Readings(t) \subseteq 0 .. Lag
  <2>1. age \in [Boxes -> 0 .. L!Unmarked] /\ lag \in [Tasks -> 0 .. Lag]
    BY DEF L!TypeOK
  <2>2. /\ \A c \in Boxes : age[c] \in 0 .. TTL + 1
        /\ \A t \in Tasks : lag[t] \in 0 .. Lag
    BY <2>1 DEF L!Unmarked
  <2> QED BY <1>0, <2>2 DEF L!Readings
<1>1. ASSUME NEW t \in Tasks, NEW i \in Ids, L!PassGlobal(t, i)
      PROVE  LimiterIInv'
  <2>1. /\ at[t] = "idle" /\ id' = [id EXCEPT ![t] = i]
        /\ at' = [at EXCEPT ![t] = "load"] /\ lag' = [lag EXCEPT ![t] = 0]
        /\ UNCHANGED <<keys, bucket, age, serves, box, todo, before, victim, ideal, disturbed>>
    BY <1>1 DEF L!PassGlobal, L!Reach, L!sweep, L!history
  <2>2. global' \in L!Buckets(0, GlobalBurst)
    <3>1. PICK l \in 0 .. Lag : /\ L!At(global, l, GlobalBurst) > 0
                                /\ global' = L!Taken(global, l, GlobalBurst)
      BY <1>1 DEF L!PassGlobal, L!Readings
    <3> QED BY <1>0, <3>1, TakenIsBucket DEF L!TypeOK
  <2>3. L!Unused' = L!Unused
    BY <2>1 DEF L!Unused, L!InMap, L!HeldBy
  <2>4. L!TypeOK'
    <3>1. /\ at' \in [Tasks -> L!Stations] /\ lag' \in [Tasks -> 0 .. Lag]
          /\ id' \in [Tasks -> Ids \cup {L!None}]
      BY <1>0, <2>1 DEF L!TypeOK, L!Stations
    <3>2. \A s \in Tasks : box'[s] # L!None <=> at'[s] \in {"mark", "spend"}
      BY <2>1 DEF L!TypeOK
    <3> QED BY <2>1, <2>2, <2>3, <3>1, <3>2 DEF L!TypeOK, L!Unmarked, L!Buckets
  <2>5. Asking'
    BY <1>0, <2>1 DEF L!TypeOK, Asking, L!None
  <2>6. Suspects'
    BY <2>1 DEF Suspects, L!Unmarked
  <2>7. ASSUME NEW j \in Ids, j \notin disturbed' PROVE Intact(j)'
    BY <2>1, <2>7 DEF Intact, L!TypeOK
  <2> QED
    BY <2>1, <2>4, <2>5, <2>6, <2>7 DEF LimiterIInv, L!Buckets
<1>2. ASSUME NEW t \in Tasks, L!LoadOrStore(t)
      PROVE  LimiterIInv'
  <2> DEFINE i == id[t]
             b == IF keys[i] = L!None THEN L!Min(L!Unused) ELSE keys[i]
  <2>1. i \in Ids
    BY <1>2 DEF L!LoadOrStore, L!TypeOK, Asking
  <2>2. L!Min(L!Unused) \in L!Unused /\ L!Unused \subseteq Boxes
    BY <1>2, BoxIsFound DEF L!LoadOrStore, L!Unused
  <2>3. /\ keys' = [keys EXCEPT ![i] = b] /\ box' = [box EXCEPT ![t] = b]
        /\ b \in Boxes /\ b # L!None
        /\ keys[i] = L!None => b \in L!Unused
        /\ keys[i] # L!None => b = keys[i]
    BY <1>0, <1>2, <2>1, <2>2 DEF L!LoadOrStore, L!TypeOK, L!None
  <2>4. /\ at' = [at EXCEPT ![t] = "mark"] /\ lag' = [lag EXCEPT ![t] = 0]
        /\ UNCHANGED <<global, bucket, age, serves, id, todo, victim, ideal, disturbed>>
        /\ before' \subseteq before \cup {b}
        /\ keys[i] # L!None => before' = before
    BY <1>2 DEF L!LoadOrStore, L!Reach, L!history
  <2> HIDE DEF b
  <2>5. L!Unused' \subseteq L!Unused
    <3>1. ASSUME NEW c \in Boxes, c \notin L!Unused PROVE c \notin L!Unused'
      <4>1. box[t] = L!None
        BY <1>2 DEF L!LoadOrStore, L!TypeOK
      <4>2. ASSUME NEW j \in Ids, keys[j] = c PROVE keys'[j] = c
        BY <1>0, <2>1, <2>3, <4>2 DEF L!TypeOK, L!None
      <4>3. ASSUME NEW s \in Tasks, box[s] = c PROVE box'[s] = c
        BY <1>0, <2>3, <4>1, <4>3 DEF L!TypeOK, L!None
      <4> QED
        BY <3>1, <4>2, <4>3 DEF L!Unused, L!InMap, L!HeldBy
    <3> QED BY <3>1 DEF L!Unused
  <2>6. \A j, k \in Ids : j # k /\ keys'[j] # L!None => keys'[j] # keys'[k]
    BY <2>1, <2>2, <2>3 DEF L!TypeOK, L!Unused, L!InMap
  <2>7. L!TypeOK'
    <3>1. \A c \in L!Unused' : bucket'[c] = L!Full(Burst) /\ age'[c] = L!Unmarked'
      BY <2>4, <2>5 DEF L!TypeOK, L!Unmarked
    <3>2. \A s \in Tasks : box'[s] # L!None <=> at'[s] \in {"mark", "spend"}
      BY <1>2, <2>3, <2>4 DEF L!TypeOK, L!LoadOrStore, L!None
    <3>3. /\ keys' \in [Ids -> Boxes \cup {L!None}] /\ box' \in [Tasks -> Boxes \cup {L!None}]
          /\ at' \in [Tasks -> L!Stations] /\ lag' \in [Tasks -> 0 .. Lag]
          /\ before' \subseteq Boxes
      BY <1>0, <2>1, <2>3, <2>4 DEF L!TypeOK, L!Stations
    <3> QED
      BY <2>4, <2>6, <3>1, <3>2, <3>3 DEF L!TypeOK, L!Unmarked, L!Full, L!Buckets
  <2>8. Asking'
    <3>1. /\ \A s \in Tasks : id'[s] # L!None <=> at'[s] # "idle"
          /\ \A s \in Tasks : at'[s] = "spend" => age'[box'[s]] <= Lag + lag'[s]
      BY <1>2, <2>1, <2>3, <2>4 DEF Asking, L!TypeOK, L!LoadOrStore
    <3>2. ASSUME NEW s \in Tasks, NEW j \in Ids, box'[s] # L!None, keys'[j] = box'[s]
          PROVE  j = id'[s]
      <4>1. CASE s = t
        BY <2>1, <2>3, <2>4, <2>6, <3>2, <4>1 DEF L!TypeOK
      <4>2. CASE s # t
        <5>1. box'[s] = box[s]
          BY <2>3, <4>2 DEF L!TypeOK
        <5>2. CASE j = i /\ keys[i] = L!None
          <6>1. box[s] \in L!Unused /\ keys'[i] = b
            BY <2>1, <2>3, <3>2, <5>1, <5>2 DEF L!TypeOK
          <6> QED BY <6>1 DEF L!Unused, L!HeldBy
        <5>3. CASE ~(j = i /\ keys[i] = L!None)
          <6>1. keys'[j] = keys[j]
            BY <2>1, <2>3, <5>3 DEF L!TypeOK
          <6> QED BY <2>4, <3>2, <5>1, <6>1 DEF Asking
        <5> QED BY <5>2, <5>3
      <4> QED BY <4>1, <4>2
    <3> QED BY <3>1, <3>2 DEF Asking
  <2>9. Suspects'
    <3>1. keys[i] = L!None => age[b] = L!Unmarked
      BY <2>3 DEF L!TypeOK
    <3>2. victim # L!None => keys'[victim] # L!None
      BY <2>1, <2>3, <2>4 DEF Suspects, L!TypeOK
    <3> QED
      BY <2>4, <3>1, <3>2 DEF Suspects, L!Unmarked
  <2>10. ASSUME NEW j \in Ids, j \notin disturbed'
         PROVE  Intact(j)'
    <3>1. Intact(j)
      BY <2>4, <2>10
    <3>2. CASE j # i
      <4>1. keys'[j] = keys[j] /\ \A s \in Tasks : id[s] = j => box'[s] = box[s]
        BY <2>1, <2>3, <3>2 DEF L!TypeOK
      <4> QED
        BY <2>4, <3>1, <4>1 DEF Intact, Below, Refilled, L!At
    <3>3. CASE j = i /\ keys[i] # L!None
      <4>1. keys'[j] = keys[j] /\ \A s \in Tasks : box'[s] = IF s = t THEN keys[j] ELSE box[s]
        BY <2>1, <2>3, <3>3 DEF L!TypeOK
      <4> QED
        BY <2>4, <3>1, <4>1 DEF Intact, Below, Refilled, L!At
    <3>4. CASE j = i /\ keys[i] = L!None
      <4>1. /\ ideal[i] \in L!Buckets(0, Burst) /\ ideal[i].tokens = Burst
            /\ age[b] \in Nat
        BY <1>0, <2>1, <2>3, <3>1, <3>4 DEF Intact, L!TypeOK, L!Unmarked
      <4>2. Below(bucket[b], ideal[i]) /\ Refilled(age[b], ideal[i])
        BY <1>0, <4>1, RefilledAtOnce DEF Below
      <4>3. \A s \in Tasks : id[s] = i => box[s] = L!None
        BY <3>1, <3>4 DEF Intact
      <4>4. keys'[j] = b /\ \A s \in Tasks : box'[s] = IF s = t THEN b ELSE box[s]
        BY <2>1, <2>3, <3>4 DEF L!TypeOK
      <4> QED
        BY <2>3, <2>4, <3>4, <4>2, <4>3, <4>4 DEF Intact, Below, Refilled, L!At, L!None
    <3> QED
      BY <3>2, <3>3, <3>4
  <2> QED
    BY <2>4, <2>7, <2>8, <2>9, <2>10 DEF LimiterIInv, L!Buckets
<1>3. ASSUME NEW t \in Tasks, L!Mark(t)
      PROVE  LimiterIInv'
  <2>1. /\ box[t] \in Boxes /\ box[t] # L!None /\ id[t] \in Ids
    BY <1>0, <1>3 DEF L!Mark, L!TypeOK, L!None, Asking
  <2>2. PICK l \in 0 .. Lag : age' = [age EXCEPT ![box[t]] = L!MarkedAge(box[t], l)]
    BY <1>3, <1>9 DEF L!Mark
  <2>3. /\ before' = before \ {box[t]}
        /\ at' = [at EXCEPT ![t] = "spend"] /\ lag' = [lag EXCEPT ![t] = 0]
        /\ UNCHANGED <<global, keys, bucket, serves, id, box, todo, victim, ideal, disturbed>>
    BY <1>3 DEF L!Mark, L!Reach, L!history
  <2>4. L!Unused' = L!Unused /\ box[t] \notin L!Unused
    BY <2>1, <2>3 DEF L!Unused, L!InMap, L!HeldBy
  <2> DEFINE mark == L!MarkedAge(box[t], l)
  <2>5. mark \in 0 .. L!Unmarked /\ mark <= Lag
    BY <1>0 DEF L!MarkedAge, L!Unmarked
  <2> HIDE DEF mark
  <2>6. \A c \in Boxes : age'[c] = IF c = box[t] THEN mark ELSE age[c]
    BY <2>2 DEF mark, L!TypeOK
  <2>7. L!TypeOK'
    <3>1. \A c \in L!Unused' : bucket'[c] = L!Full(Burst) /\ age'[c] = L!Unmarked'
      BY <2>3, <2>4, <2>6 DEF L!TypeOK, L!Unmarked, L!Unused
    <3>2. age' \in [Boxes -> 0 .. L!Unmarked]
      BY <2>2, <2>5 DEF L!TypeOK, mark
    <3>3. at' \in [Tasks -> L!Stations] /\ lag' \in [Tasks -> 0 .. Lag]
      BY <1>0, <2>3 DEF L!TypeOK, L!Stations
    <3>4. \A s \in Tasks : box'[s] # L!None <=> at'[s] \in {"mark", "spend"}
      BY <2>1, <2>3, <1>3 DEF L!TypeOK, L!Mark
    <3> QED
      BY <2>3, <3>1, <3>2, <3>3, <3>4 DEF L!TypeOK, L!Unmarked, L!Full, L!Buckets
  <2>8. Asking'
    <3>1. \A s \in Tasks : id'[s] # L!None <=> at'[s] # "idle"
      BY <1>3, <2>1, <2>3 DEF Asking, L!TypeOK, L!Mark
    <3>2. ASSUME NEW s \in Tasks, at'[s] = "spend" PROVE age'[box'[s]] <= Lag + lag'[s]
      <4>1. /\ box'[s] \in Boxes /\ lag'[s] \in 0 .. Lag
            /\ s # t => at[s] = "spend" /\ lag'[s] = lag[s]
            /\ box'[s] = box[s]
        BY <1>0, <2>1, <2>3, <2>7, <3>2 DEF L!TypeOK, L!None
      <4>2. CASE box[s] = box[t]
        BY <1>0, <2>1, <2>5, <2>6, <4>1, <4>2 DEF L!Unmarked
      <4>3. CASE box[s] # box[t]
        BY <2>6, <4>1, <4>3 DEF Asking
      <4> QED BY <4>2, <4>3
    <3> QED BY <2>3, <3>1, <3>2 DEF Asking
  <2>9. Suspects'
    <3>1. \A c \in before' : c \in Boxes /\ c # box[t] /\ age[c] = L!Unmarked
      BY <2>3 DEF Suspects, L!TypeOK
    <3> QED BY <2>3, <2>6, <3>1 DEF Suspects, L!Unmarked
  <2>10. ASSUME NEW j \in Ids, j \notin disturbed'
        PROVE  Intact(j)'
    <3>1. Intact(j)
      BY <2>3, <2>10
    <3>2. keys[j] # L!None => Refilled(age'[keys[j]], ideal[j])
      <4>1. ASSUME keys[j] # L!None, keys[j] = box[t] PROVE Refilled(mark, ideal[j])
        BY <1>0, <2>5, RefilledAtOnce DEF L!Unmarked
      <4>2. keys[j] # L!None => keys[j] \in Boxes
        BY DEF L!TypeOK
      <4> QED BY <2>1, <2>6, <3>1, <4>1, <4>2 DEF Intact
    <3> QED
      BY <2>3, <3>1, <3>2 DEF Intact, Below, Refilled, L!At
  <2> QED
    BY <2>3, <2>7, <2>8, <2>9, <2>10 DEF LimiterIInv, L!Buckets
<1>4. ASSUME NEW t \in Tasks, L!Spend(t)
      PROVE  LimiterIInv'
  <2> DEFINE b == box[t]
             i == id[t]
             gone == ~L!InMap(b) /\ L!HeldBy(b) = {t}
  <2>1. b \in Boxes /\ b # L!None /\ i \in Ids /\ at[t] = "spend" /\ age[b] <= 2 * Lag
    <3>1. b \in Boxes /\ b # L!None /\ i \in Ids /\ at[t] = "spend"
      BY <1>0, <1>4 DEF L!Spend, L!TypeOK, L!None, Asking
    <3>2. age[b] <= Lag + lag[t]
      BY <3>1 DEF Asking
    <3>3. age[b] \in Nat /\ lag[t] \in Nat /\ lag[t] <= Lag
      BY <1>9, <3>1
    <3>4. \A n, k \in Nat : n <= Lag + k /\ k <= Lag => n <= 2 * Lag
      BY <1>0
    <3> HIDE DEF b
    <3> QED BY <3>1, <3>2, <3>3, <3>4
  <2>2. /\ id' = [id EXCEPT ![t] = L!None] /\ box' = [box EXCEPT ![t] = L!None]
        /\ at' = [at EXCEPT ![t] = "idle"] /\ lag' = [lag EXCEPT ![t] = 0]
        /\ UNCHANGED <<global, keys, serves, todo, before, victim, disturbed>>
        /\ age' = IF gone THEN [age EXCEPT ![b] = L!Unmarked] ELSE age
    BY <1>4 DEF L!Spend, L!Reach, L!sweep, L!Renew
  <2> DEFINE Spent(l) == IF L!At(bucket[b], l, Burst) > 0
                         THEN [bucket EXCEPT ![b] = L!Taken(@, l, Burst)] ELSE bucket
  <2>3. PICK l \in 0 .. Lag :
          /\ bucket' = IF gone THEN [Spent(l) EXCEPT ![b] = L!Full(Burst)] ELSE Spent(l)
          /\ ideal' = IF L!At(bucket[b], l, Burst) > 0 /\ i \notin disturbed
                      THEN [ideal EXCEPT ![i] = L!Taken(@, l, Burst)] ELSE ideal
    BY <1>4, <1>9 DEF L!Spend, L!Renew
  <2>4. bucket[b] \in L!Buckets(0, Burst) /\ ideal[i] \in L!Buckets(0, Burst)
    BY <2>1 DEF L!TypeOK
  <2> DEFINE granted == L!At(bucket[b], l, Burst) > 0
             left == L!Taken(bucket[b], l, Burst)
  <2>5. granted => left \in L!Buckets(0, Burst)
    BY <1>0, <2>4, TakenIsBucket
  <2> HIDE DEF gone
  <2>6. /\ bucket' \in [Boxes -> L!Buckets(0, Burst)] /\ age' \in [Boxes -> 0 .. L!Unmarked]
        /\ \A c \in Boxes : c # b => bucket'[c] = bucket[c] /\ age'[c] = age[c]
        /\ gone => bucket'[b] = L!Full(Burst) /\ age'[b] = L!Unmarked
        /\ ~gone => age'[b] = age[b] /\ bucket'[b] = IF granted THEN left ELSE bucket[b]
    <3>1. /\ Spent(l) \in [Boxes -> L!Buckets(0, Burst)]
          /\ Spent(l)[b] = IF granted THEN left ELSE bucket[b]
          /\ \A c \in Boxes : c # b => Spent(l)[c] = bucket[c]
      <4>1. bucket \in [Boxes -> L!Buckets(0, Burst)]
        BY DEF L!TypeOK
      <4>2. CASE granted
        <5>1. Spent(l) = [bucket EXCEPT ![b] = left]
          BY <4>2
        <5> HIDE DEF Spent, left, granted
        <5> QED BY <2>1, <2>5, <4>1, <4>2, <5>1
      <4>3. CASE ~granted
        <5>1. Spent(l) = bucket
          BY <4>3
        <5> HIDE DEF Spent, left, granted
        <5> QED BY <4>1, <4>3, <5>1
      <4> QED BY <4>2, <4>3
    <3>2. L!Full(Burst) \in L!Buckets(0, Burst) /\ L!Unmarked \in 0 .. L!Unmarked
      BY <1>0, FullBucket DEF L!Unmarked
    <3>3. age \in [Boxes -> 0 .. L!Unmarked]
      BY DEF L!TypeOK
    <3>4. bucket' = IF gone THEN [Spent(l) EXCEPT ![b] = L!Full(Burst)] ELSE Spent(l)
      BY <2>3
    <3> HIDE DEF Spent, left, granted
    <3>5. CASE gone
      BY <2>1, <2>2, <3>1, <3>2, <3>3, <3>4, <3>5
    <3>6. CASE ~gone
      BY <2>2, <3>1, <3>3, <3>4, <3>6
    <3> QED BY <3>5, <3>6
  <2>7. i \notin disturbed => ~gone /\ Below(bucket[b], ideal[i]) /\ b = keys[i]
    <3> SUFFICES ASSUME i \notin disturbed PROVE ~gone /\ Below(bucket[b], ideal[i]) /\ b = keys[i]
      OBVIOUS
    <3>1. b = keys[i]
      BY <2>1 DEF Intact
    <3> QED BY <2>1, <3>1 DEF Intact, gone, L!InMap
  <2>8. i \notin disturbed /\ granted =>
          /\ L!Taken(ideal[i], l, Burst) \in L!Buckets(0, Burst)
          /\ Below(left, L!Taken(ideal[i], l, Burst))
    <3> SUFFICES ASSUME i \notin disturbed, granted
                 PROVE  /\ L!Taken(ideal[i], l, Burst) \in L!Buckets(0, Burst)
                        /\ Below(left, L!Taken(ideal[i], l, Burst))
      OBVIOUS
    <3>1. L!At(ideal[i], l, Burst) > 0 /\ Below(left, L!Taken(ideal[i], l, Burst))
      BY <1>0, <2>4, <2>7, BelowTaken
    <3> QED BY <1>0, <2>4, <3>1, TakenIsBucket
  <2>9. /\ \A j \in Ids : ideal'[j] \in L!Buckets(0, Burst)
        /\ ideal' \in [Ids -> L!Buckets(-1, Burst)]
        /\ \A j \in Ids : j # i => ideal'[j] = ideal[j]
        /\ i \notin disturbed =>
            ideal'[i] = IF granted THEN L!Taken(ideal[i], l, Burst) ELSE ideal[i]
    <3>1. ideal \in [Ids -> L!Buckets(-1, Burst)]
      BY DEF L!TypeOK
    <3>2. ideal' = IF granted /\ i \notin disturbed
                   THEN [ideal EXCEPT ![i] = L!Taken(ideal[i], l, Burst)] ELSE ideal
      BY <2>3
    <3> HIDE DEF granted, left
    <3>3. CASE granted /\ i \notin disturbed
      <4>1. L!Taken(ideal[i], l, Burst) \in L!Buckets(0, Burst)
        BY <2>8, <3>3
      <4>2. L!Taken(ideal[i], l, Burst) \in L!Buckets(-1, Burst)
        BY <1>0, <4>1, WiderBuckets
      <4> QED BY <2>1, <3>1, <3>2, <3>3, <4>1, <4>2
    <3>4. CASE ~(granted /\ i \notin disturbed)
      BY <3>1, <3>2, <3>4
    <3> QED BY <3>3, <3>4
  <2> HIDE DEF granted, left
  <2>10. ASSUME NEW c \in L!Unused'
         PROVE  (c = b /\ gone) \/ (c \in L!Unused /\ c # b)
    <3>1. c \in Boxes /\ ~L!InMap(c) /\ \A s \in Tasks \ {t} : box[s] # c
      BY <2>1, <2>2 DEF L!Unused, L!InMap, L!HeldBy, L!TypeOK
    <3>2. CASE c = b
      BY <3>1, <3>2 DEF L!HeldBy, gone
    <3>3. CASE c # b
      BY <3>1, <3>3 DEF L!Unused, L!HeldBy
    <3> QED
      BY <3>2, <3>3
  <2>11. L!TypeOK'
    <3>1. \A c \in L!Unused' : bucket'[c] = L!Full(Burst) /\ age'[c] = L!Unmarked'
      BY <2>1, <2>6, <2>10 DEF L!TypeOK, L!Unmarked, L!Unused
    <3>2. \A s \in Tasks : box'[s] # L!None <=> at'[s] \in {"mark", "spend"}
      BY <2>2 DEF L!TypeOK
    <3>3. /\ at' \in [Tasks -> L!Stations] /\ id' \in [Tasks -> Ids \cup {L!None}]
          /\ box' \in [Tasks -> Boxes \cup {L!None}] /\ lag' \in [Tasks -> 0 .. Lag]
      BY <1>0, <2>2 DEF L!TypeOK, L!Stations
    <3> QED
      BY <2>2, <2>6, <2>9, <3>1, <3>2, <3>3 DEF L!TypeOK, L!Unmarked, L!Buckets, L!Full
  <2>12. Asking'
    <3>1. ASSUME NEW s \in Tasks, at'[s] = "spend" PROVE age'[box'[s]] <= Lag + lag'[s]
      <4>1. /\ s # t /\ at[s] = "spend" /\ box'[s] = box[s] /\ box[s] \in Boxes
            /\ lag'[s] = lag[s]
        BY <2>2, <3>1 DEF L!TypeOK, L!None
      <4>2. box[s] # b \/ ~gone
        BY <4>1 DEF gone, L!HeldBy
      <4> QED
        BY <2>1, <2>6, <4>1, <4>2 DEF Asking
    <3> QED
      BY <2>2, <3>1 DEF Asking, L!TypeOK
  <2>13. Suspects'
    <3>1. \A c \in before : c \in Boxes /\ age'[c] = L!Unmarked
      BY <2>1, <2>6 DEF Suspects, L!TypeOK
    <3> QED
      BY <2>2, <3>1 DEF Suspects, L!Unmarked
  <2>14. ASSUME NEW j \in Ids, j \notin disturbed'
         PROVE  Intact(j)'
    <3>1. Intact(j) /\ j \notin disturbed
      BY <2>2, <2>14
    <3>2. keys[j] # L!None => keys[j] \in Boxes
      BY DEF L!TypeOK
    <3>3. \A s \in Tasks : id'[s] = j /\ box'[s] # L!None => box'[s] = keys'[j]
      BY <2>1, <2>2, <3>1 DEF Intact, L!TypeOK, L!None
    <3>4. CASE j # i
      <4>1. ASSUME keys[j] # L!None
            PROVE  Below(bucket'[keys[j]], ideal[j]) /\ Refilled(age'[keys[j]], ideal[j])
        <5>1. Below(bucket[keys[j]], ideal[j]) /\ Refilled(age[keys[j]], ideal[j])
          BY <3>1, <4>1 DEF Intact
        <5>2. keys[j] # b
          BY <2>1, <3>4 DEF Asking
        <5> QED BY <2>6, <3>2, <4>1, <5>1, <5>2
      <4> QED
        BY <2>2, <2>9, <3>1, <3>3, <3>4, <4>1 DEF Intact, Below, Refilled, L!At
    <3>5. CASE j = i
      <4>1. b = keys[i] /\ ~gone /\ keys'[j] = b
        BY <2>2, <2>7, <3>1, <3>5
      <4>2. Below(bucket'[b], ideal'[i])
        BY <2>6, <2>7, <2>8, <2>9, <3>1, <3>5, <4>1
      <4>3. Refilled(age'[b], ideal'[i])
        <5>1. age'[b] = age[b] /\ age[b] \in Nat
          BY <1>9, <2>1, <2>6, <4>1
        <5> QED BY <1>0, <2>1, <2>9, <5>1, RefilledAtOnce
      <4> QED
        BY <2>1, <3>3, <3>5, <4>1, <4>2, <4>3 DEF Intact, Below, Refilled, L!At
    <3> QED
      BY <3>4, <3>5
  <2> QED
    BY <2>2, <2>9, <2>11, <2>12, <2>13, <2>14 DEF LimiterIInv, L!Buckets
<1>5. CASE L!StartSweep \/ \E i \in Ids : L!Visit(i)
  <2>1. UNCHANGED <<global, keys, bucket, age, serves, at, id, box, lag, ideal, disturbed>>
    BY <1>5 DEF L!StartSweep, L!Visit, L!calls, L!history
  <2>2. /\ todo' \subseteq Ids
        /\ before' \subseteq Boxes /\ \A b \in before' : age[b] = L!Unmarked
        /\ victim' \in Ids \cup {L!None} /\ (victim' # L!None => keys[victim'] # L!None)
    <3>1. CASE L!StartSweep
      <4>1. \A b \in Boxes : L!Stale(b) => age[b] = L!Unmarked
        BY <1>0 DEF L!Stale, L!TypeOK, L!Unmarked
      <4> QED
        BY <3>1, <4>1 DEF L!StartSweep, L!TypeOK, Suspects
    <3>2. CASE \E i \in Ids : L!Visit(i)
      BY <1>0, <3>2 DEF L!Visit, L!TypeOK, Suspects, L!RestOfRange, L!None
    <3> QED
      BY <1>5, <3>1, <3>2
  <2>3. L!Unused' = L!Unused
    BY <2>1 DEF L!Unused, L!InMap, L!HeldBy
  <2>4. L!TypeOK'
    BY <2>1, <2>2, <2>3 DEF L!TypeOK, L!Unmarked, L!Buckets, L!Full
  <2>5. TTL # 0
    BY <1>0, <1>5 DEF L!StartSweep, L!Visit, Suspects
  <2>6. Asking' /\ Suspects'
    BY <2>1, <2>2, <2>5 DEF Asking, Suspects, L!Unmarked
  <2>7. ASSUME NEW j \in Ids PROVE Intact(j)' <=> Intact(j)
    BY <2>1 DEF Intact, Below, Refilled, L!At
  <2> QED
    BY <2>1, <2>4, <2>6, <2>7 DEF LimiterIInv, L!Buckets
<1>6. CASE L!Evict
  <2> DEFINE i == victim
             b == keys[victim]
             gone == L!HeldBy(b) = {}
             rested == L!Rested(ideal[i])
  <2>1. i \in Ids /\ b \in Boxes /\ b # L!None
    BY <1>6 DEF L!Evict, Suspects, L!TypeOK
  <2>2. /\ keys' = [keys EXCEPT ![i] = L!None] /\ victim' = L!None
        /\ before' \subseteq before
        /\ UNCHANGED <<global, serves, at, id, box, lag, todo>>
    BY <1>6 DEF L!Evict, L!calls
  <2>3. L!Full(Burst) \in L!Buckets(0, Burst) /\ L!Full(Burst) \in L!Buckets(-1, Burst)
    BY <1>0, FullBucket, WiderBuckets
  <2>4. /\ bucket' \in [Boxes -> L!Buckets(0, Burst)] /\ age' \in [Boxes -> 0 .. L!Unmarked]
        /\ \A c \in Boxes : c # b => bucket'[c] = bucket[c] /\ age'[c] = age[c]
        /\ gone => bucket'[b] = L!Full(Burst) /\ age'[b] = L!Unmarked
        /\ ~gone => bucket'[b] = bucket[b] /\ age'[b] = age[b]
    <3> HIDE DEF gone
    <3>1. /\ age' = IF gone THEN [age EXCEPT ![b] = L!Unmarked] ELSE age
          /\ bucket' = IF gone THEN [bucket EXCEPT ![b] = L!Full(Burst)] ELSE bucket
      BY <1>6 DEF L!Evict, L!Renew, gone
    <3>2. L!Unmarked \in 0 .. L!Unmarked
      BY <1>0 DEF L!Unmarked
    <3> QED
      BY <2>1, <2>3, <3>1, <3>2 DEF L!TypeOK
  <2>5. rested \in L!Buckets(0, Burst) /\ rested \in L!Buckets(-1, Burst)
    BY <1>0, <2>1, <2>3, WiderBuckets DEF L!Rested
  <2> HIDE DEF rested, gone
  <2>6. /\ ideal' \in [Ids -> L!Buckets(-1, Burst)]
        /\ \A j \in Ids : ideal'[j] \in L!Buckets(0, Burst)
        /\ \A j \in Ids : j # i => ideal'[j] = ideal[j]
        /\ gone /\ b \in before => ideal'[i] = rested
        /\ \A j \in Ids : j # i => (j \in disturbed' <=> j \in disturbed)
        /\ i \in disturbed => i \in disturbed'
        /\ ~(gone /\ b \in before) => i \in disturbed'
        /\ disturbed' \subseteq Ids
    <3>1. /\ ideal' = [ideal EXCEPT ![i] = IF gone /\ b \in before THEN rested ELSE L!Full(Burst)]
          /\ disturbed' = IF gone /\ b \in before THEN disturbed ELSE disturbed \cup {i}
      BY <1>6 DEF L!Evict, gone, rested
    <3> QED
      BY <2>1, <2>3, <2>5, <3>1 DEF L!TypeOK
  <2>7. \A j \in Ids : j # i => keys[j] # b
    BY <2>1 DEF L!TypeOK
  <2>8. ASSUME NEW c \in L!Unused'
        PROVE  (c = b /\ gone) \/ (c \in L!Unused /\ c # b)
    <3>1. c \in Boxes /\ L!HeldBy(c) = {} /\ \A j \in Ids \ {i} : keys[j] # c
      BY <2>1, <2>2 DEF L!Unused, L!InMap, L!HeldBy, L!TypeOK
    <3> QED
      BY <3>1 DEF L!Unused, L!InMap, gone
  <2>9. L!TypeOK'
    <3>1. \A c \in L!Unused' : bucket'[c] = L!Full(Burst) /\ age'[c] = L!Unmarked'
      BY <2>1, <2>4, <2>8 DEF L!TypeOK, L!Unmarked, L!Unused
    <3>2. \A j, k \in Ids : j # k /\ keys'[j] # L!None => keys'[j] # keys'[k]
      BY <2>1, <2>2 DEF L!TypeOK
    <3>3. keys' \in [Ids -> Boxes \cup {L!None}] /\ before' \subseteq Boxes
      BY <2>2 DEF L!TypeOK
    <3> QED
      BY <2>2, <2>4, <2>6, <3>1, <3>2, <3>3 DEF L!TypeOK, L!Unmarked, L!Buckets, L!Full
  <2>10. Asking'
    <3>1. ASSUME NEW s \in Tasks, at[s] = "spend" PROVE age'[box[s]] <= Lag + lag[s]
      <4>1. box[s] \in Boxes /\ age[box[s]] <= Lag + lag[s]
        BY <3>1 DEF L!TypeOK, L!None, Asking
      <4>2. box[s] # b \/ ~gone
        BY DEF gone, L!HeldBy
      <4> QED
        BY <2>4, <4>1, <4>2
    <3>2. ASSUME NEW s \in Tasks, NEW j \in Ids, box[s] # L!None, keys'[j] = box[s]
          PROVE  j = id[s]
      BY <2>1, <2>2, <3>2 DEF Asking, L!TypeOK
    <3> QED
      BY <2>2, <3>1, <3>2 DEF Asking
  <2>11. Suspects'
    <3>1. \A c \in before : age[c] = L!Unmarked /\ c \in Boxes
      BY DEF Suspects, L!TypeOK
    <3> QED
      BY <2>2, <2>4, <3>1 DEF Suspects, L!Unmarked
  <2>12. ASSUME NEW j \in Ids, j \notin disturbed'
         PROVE  Intact(j)'
    <3>1. CASE j # i
      <4>1. Intact(j) /\ ideal'[j] = ideal[j] /\ keys'[j] = keys[j]
        BY <2>1, <2>2, <2>6, <2>12, <3>1 DEF L!TypeOK
      <4>2. keys[j] # L!None => /\ bucket'[keys[j]] = bucket[keys[j]]
                                /\ age'[keys[j]] = age[keys[j]]
        BY <2>4, <2>7, <3>1 DEF L!TypeOK
      <4> QED
        BY <2>2, <4>1, <4>2 DEF Intact, Below, Refilled, L!At
    <3>2. CASE j = i
      <4>1. gone /\ b \in before /\ ideal'[i] = rested /\ i \notin disturbed
        BY <2>6, <2>12, <3>2
      <4>2. Intact(i)
        BY <2>1, <4>1
      <4>3. age[b] = L!Unmarked /\ Refilled(age[b], ideal[i])
        BY <2>1, <4>1, <4>2 DEF Suspects, Intact
      <4>4. L!At(ideal[i], 0, Burst) = Burst
        <5>1. TTL >= Burst + 2 * Lag
          BY <1>0, <1>6 DEF L!Evict, Suspects
        <5>2. L!At(ideal[i], 0, Burst) \in 0 .. Burst
          BY <1>0, <2>1, AtBounds
        <5> QED BY <1>0, <4>3, <5>1, <5>2 DEF Refilled, L!Unmarked
      <4>5. ideal'[i].tokens = Burst
        BY <1>0, <4>1, <4>4, FullBucket DEF rested, L!Rested
      <4>6. \A s \in Tasks : id[s] = i => box[s] = L!None
        BY <2>1, <4>1, <4>2 DEF Intact, gone, L!HeldBy
      <4>7. keys'[i] = L!None
        BY <2>1, <2>2 DEF L!TypeOK
      <4> QED
        BY <2>2, <3>2, <4>5, <4>6, <4>7 DEF Intact
    <3> QED
      BY <3>1, <3>2
  <2> QED
    BY <2>6, <2>9, <2>10, <2>11, <2>12 DEF LimiterIInv, L!Buckets
<1>7. CASE L!Tick
  <2>1. /\ bucket' = [b \in Boxes |-> L!Older(bucket[b], Burst)]
        /\ age' = [b \in Boxes |-> IF age[b] <= TTL THEN age[b] + 1 ELSE L!Unmarked]
        /\ ideal' = [j \in Ids |-> L!Older(ideal[j], Burst)]
        /\ lag' = [t \in Tasks |-> IF at[t] = "idle" THEN 0 ELSE lag[t] + 1]
        /\ global' = L!Older(global, GlobalBurst)
        /\ UNCHANGED <<keys, serves, at, id, box, todo, before, victim, disturbed>>
        /\ \A t \in Tasks : at[t] # "idle" => lag[t] < Lag
    BY <1>7 DEF L!Tick, L!sweep
  <2>2. /\ bucket' \in [Boxes -> L!Buckets(0, Burst)] /\ age' \in [Boxes -> 0 .. L!Unmarked]
        /\ global' \in L!Buckets(0, GlobalBurst) /\ lag' \in [Tasks -> 0 .. Lag]
        /\ \A j \in Ids : ideal'[j] \in L!Buckets(0, Burst)
        /\ ideal' \in [Ids -> L!Buckets(-1, Burst)]
    <3>1. \A k \in L!Buckets(0, Burst) :
            L!Older(k, Burst) \in L!Buckets(0, Burst) /\ L!Older(k, Burst) \in L!Buckets(-1, Burst)
      BY <1>0, OlderIsBucket, WiderBuckets
    <3>2. global' \in L!Buckets(0, GlobalBurst)
      BY <1>0, <2>1, OlderIsBucket DEF L!TypeOK
    <3>3. age' \in [Boxes -> 0 .. L!Unmarked] /\ lag' \in [Tasks -> 0 .. Lag]
      BY <1>0, <2>1 DEF L!TypeOK, L!Unmarked
    <3> QED BY <2>1, <3>1, <3>2, <3>3 DEF L!TypeOK
  <2>3. L!Unused' = L!Unused
    BY <2>1 DEF L!Unused, L!InMap, L!HeldBy
  <2>4. L!TypeOK'
    <3>1. ASSUME NEW c \in L!Unused' PROVE bucket'[c] = L!Full(Burst) /\ age'[c] = L!Unmarked
      <4>1. c \in Boxes /\ bucket[c] = L!Full(Burst) /\ age[c] = L!Unmarked
        BY <2>3, <3>1 DEF L!TypeOK, L!Unused
      <4>2. L!Older(L!Full(Burst), Burst) = L!Full(Burst)
        BY <1>0, FullBucket, OlderIsBucket
      <4> QED BY <1>0, <2>1, <4>1, <4>2 DEF L!Unmarked
    <3> QED
      BY <2>1, <2>2, <2>3, <3>1 DEF L!TypeOK, L!Unmarked, L!Buckets, L!Full
  <2>5. Asking' /\ Suspects'
    <3>1. ASSUME NEW t \in Tasks, at[t] = "spend" PROVE age'[box[t]] <= Lag + lag'[t]
      <4>1. /\ box[t] \in Boxes /\ age[box[t]] \in Nat /\ lag[t] \in Nat
            /\ age[box[t]] <= Lag + lag[t] /\ lag'[t] = lag[t] + 1
        <5>1. box[t] \in Boxes
          BY <3>1 DEF L!TypeOK, L!None
        <5> QED BY <1>9, <2>1, <3>1, <5>1 DEF Asking
      <4> QED BY <1>0, <2>1, <4>1 DEF L!Unmarked
    <3>2. \A b \in before : age'[b] = L!Unmarked
      BY <1>0, <2>1 DEF Suspects, L!TypeOK, L!Unmarked
    <3> QED BY <2>1, <3>1, <3>2 DEF Asking, Suspects, L!Unmarked
  <2>6. ASSUME NEW j \in Ids, j \notin disturbed'
        PROVE  Intact(j)'
    <3>1. Intact(j) /\ ideal'[j] = L!Older(ideal[j], Burst)
      BY <2>1, <2>6
    <3>2. CASE keys[j] = L!None
      <4>1. ideal'[j].tokens = Burst
        BY <1>0, <3>1, <3>2, OlderIsBucket, FullBucket DEF Intact
      <4> QED BY <2>1, <3>1, <3>2, <4>1 DEF Intact
    <3>3. CASE keys[j] # L!None
      <4>1. /\ keys[j] \in Boxes /\ bucket[keys[j]] \in L!Buckets(0, Burst)
            /\ age[keys[j]] \in Nat /\ age'[keys[j]] \in Nat /\ age'[keys[j]] <= age[keys[j]] + 1
        <5>1. keys[j] \in Boxes /\ bucket[keys[j]] \in L!Buckets(0, Burst)
          BY <3>3 DEF L!TypeOK
        <5> QED BY <1>0, <1>9, <2>1, <5>1 DEF L!Unmarked
      <4>2. Below(bucket[keys[j]], ideal[j]) /\ Refilled(age[keys[j]], ideal[j])
        BY <3>1, <3>3 DEF Intact
      <4>3. Below(bucket'[keys[j]], ideal'[j])
        BY <1>0, <2>1, <3>1, <4>1, <4>2, BelowOlder
      <4>4. Refilled(age'[keys[j]], ideal'[j])
        BY <1>0, <3>1, <4>1, <4>2, RefilledOlder
      <4> QED
        BY <2>1, <3>1, <3>3, <4>3, <4>4 DEF Intact, Below, Refilled, L!At
    <3> QED
      BY <3>2, <3>3
  <2> QED
    BY <2>2, <2>4, <2>5, <2>6 DEF LimiterIInv, L!Buckets
<1>8. CASE UNCHANGED L!vars
  <2>1. UNCHANGED <<global, keys, bucket, age, serves, at, id, box, lag, todo, before, victim,
                    ideal, disturbed>>
    BY <1>8 DEF L!vars, L!calls, L!sweep, L!history
  <2>2. L!Unused' = L!Unused
    BY <2>1 DEF L!Unused, L!InMap, L!HeldBy
  <2>3. \A j \in Ids : Intact(j)' <=> Intact(j)
    BY <2>1 DEF Intact, Below, Refilled, L!At
  <2>4. L!TypeOK'
    BY <2>1, <2>2 DEF L!TypeOK, L!Unmarked, L!Buckets, L!Full
  <2>5. Asking' /\ Suspects'
    BY <2>1 DEF Asking, Suspects, L!Unmarked
  <2> QED
    BY <2>1, <2>3, <2>4, <2>5 DEF LimiterIInv, L!Buckets
<1> QED
  BY <1>1, <1>2, <1>3, <1>4, <1>5, <1>6, <1>7, <1>8 DEF L!Next, L!Allow, L!Sweep

(* The inductive invariant of the limiter holds in every reachable state. *)
LEMMA AlwaysLimiterIInv == L!Spec => []LimiterIInv
<1>1. L!Init => LimiterIInv
  BY LimiterAssumption, LimiterInit
<1>2. LimiterIInv /\ [L!Next]_(L!vars) => LimiterIInv'
  BY LimiterAssumption, LimiterNext
<1> QED BY <1>1, <1>2, PTL DEF L!Spec

-----------------------------------------------------------------------------
(* A behaviour of the two is one of each: the other one stands still. *)
LEMMA GatesAreBoth == GatesSpec => CallersSpec /\ L!Spec
<1>1. GatesInit => CallersInit /\ L!Init
  BY DEF GatesInit
<1>2. [GatesNext]_gatesVars => [CallersNext]_callerVars /\ [L!Next]_(L!vars)
  BY DEF GatesNext, Guard, Limit, gatesVars, limiterVars, callerVars, L!vars, L!calls, L!sweep, L!history,
         breaker
<1> QED BY <1>1, <1>2, PTL DEF GatesSpec, CallersSpec, L!Spec

(* Types of both; a call holds a box from LoadOrStore to its last AllowN,  *)
(* no two identities share one, and a new box is as newKeyedLimiter makes  *)
(* it (secure.go lines 132-144).                                           *)
THEOREM TypesCorrect == GatesSpec => []GatesTypesOK
<1>1. LimiterIInv => L!TypeOK
  BY DEF LimiterIInv
<1> QED BY <1>1, GatesAreBoth, TypeCorrect, AlwaysLimiterIInv, PTL DEF GatesTypesOK

(* An identity never gets a token that a bucket which lives for ever would *)
(* refuse it, however late the clock readings of Allow (secure.go lines    *)
(* 133-143) are used, unless its box was removed while in use (Sweep,      *)
(* lines 150-163).                                                         *)
THEOREM EvictionGivesNothing == GatesSpec => []NoExtraBurst
<1>1. LimiterIInv => NoExtraBurst
  <2> SUFFICES ASSUME LimiterIInv, NEW i \in Ids PROVE ideal[i].tokens >= 0
    BY DEF NoExtraBurst, L!NoExtraBurst
  <2> QED
    BY DEF LimiterIInv, L!Buckets
<1> QED BY <1>1, GatesAreBoth, AlwaysLimiterIInv, PTL
=============================================================================
