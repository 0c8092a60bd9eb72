---------------------------- MODULE LeaseProofs ----------------------------
(***************************************************************************)
(* Proofs about Lease: the safety invariants hold for every set of holders *)
(* and resources, every TTL and every bound, and the lease implements      *)
(* leadership in terms.                                                    *)
(***************************************************************************)
EXTENDS Lease, TLAPS

(* The coordinator keeps at most one entry, expired or not, and that entry *)
(* carries the last token granted. *)
OneEntry ==
    \A h, k \in Holders : active[h] # Absent /\ active[k] # Absent => h = k

EntryIsLastGrant ==
    \A h \in Holders : active[h] # Absent =>
        /\ tokens[h] = next
        /\ [Number |-> next, Holder |-> h] \in granted

(* Token numbers are issued once each, none above the counter. *)
GrantsBelowCounter == \A t \in granted : t.Number <= next
GrantsDistinct == \A s, t \in granted : s.Number = t.Number => s = t

(* The watermark is the number of the last write applied; writes carry     *)
(* granted tokens.                                                         *)
AppliedWereGranted ==
    \A r \in Resources : \A i \in 1 .. Len(applied[r]) :
        applied[r][i] \in granted

WatermarkIsLast ==
    \A r \in Resources :
        newest[r] = IF applied[r] = <<>> THEN 0
                    ELSE applied[r][Len(applied[r])].Number

(* Refused tokens stay at or below the watermark, which only rises.        *)
RefusedBelowWatermark ==
    \A r \in Resources : \A i \in 1 .. Len(fenced[r]) :
        fenced[r][i].Number <= newest[r]

(* The inductive strengthening of the safety invariants. *)
IInv ==
    /\ LeaseTypeOK
    /\ OneEntry
    /\ EntryIsLastGrant
    /\ GrantsBelowCounter
    /\ GrantsDistinct
    /\ AppliedWereGranted
    /\ WatermarkIsLast
    /\ FencedOrder
    /\ RefusedBelowWatermark

-----------------------------------------------------------------------------
(* NewCoordinator and NewFenced start inside the inductive invariant. *)
LEMMA InitIInv == LeaseInit => IInv
BY LeaseConstants
   DEF LeaseInit, IInv, LeaseTypeOK, OneEntry, EntryIsLastGrant, GrantsBelowCounter,
       GrantsDistinct, AppliedWereGranted, WatermarkIsLast, FencedOrder,
       RefusedBelowWatermark, Absent, Token

(* What the eviction loop leaves: only valid entries, in both maps. *)
LEMMA EvictedKeepsValid ==
    ASSUME LeaseTypeOK
    PROVE  /\ Evicted(active) \in [Holders -> Nat \cup {Absent}]
           /\ Evicted(tokens) \in [Holders -> Nat \cup {Absent}]
           /\ \A h \in Holders : Evicted(active)[h] # Absent =>
                /\ h \in Valid
                /\ active[h] # Absent
                /\ Evicted(active)[h] = active[h]
                /\ Evicted(tokens)[h] = tokens[h]
           /\ \A h \in Holders :
                Evicted(active)[h] = Absent <=> Evicted(tokens)[h] = Absent
BY DEF Evicted, Valid, Expired, LeaseTypeOK, Absent

(* Every write applied so far carries a number up to the watermark. *)
LEMMA AppliedUpToWatermark ==
    ASSUME LeaseTypeOK, WatermarkIsLast, FencedOrder, NEW r \in Resources,
           NEW i \in 1 .. Len(applied[r])
    PROVE  applied[r][i].Number <= newest[r]
<1>1. applied[r] \in Seq(Token) /\ applied[r] # <<>>
  BY DEF LeaseTypeOK
<1>2. newest[r] = applied[r][Len(applied[r])].Number
  BY <1>1 DEF WatermarkIsLast
<1>3. /\ applied[r][i] \in Token
      /\ applied[r][Len(applied[r])] \in Token
      /\ Len(applied[r]) \in 1 .. Len(applied[r])
  BY <1>1
<1>4. CASE i = Len(applied[r])
  BY <1>2, <1>3, <1>4 DEF Token
<1>5. CASE i < Len(applied[r])
  BY <1>2, <1>3, <1>5 DEF Token, FencedOrder
<1> QED
  BY <1>1, <1>4, <1>5

(* No step of a client, of the storage or of the clock leaves the          *)
(* inductive invariant.                                                    *)
LEMMA NextIInv == IInv /\ [LeaseNext]_leaseVars => IInv'
<1> SUFFICES ASSUME IInv, [LeaseNext]_leaseVars
             PROVE  IInv'
  OBVIOUS
<1> USE DEF IInv
<1>1. CASE Tick
  <2>1. LeaseTypeOK'
    BY <1>1 DEF Tick, coordinator, storage, LeaseTypeOK
  <2>2. QED
    BY <1>1, <2>1
       DEF Tick, coordinator, storage, OneEntry, EntryIsLastGrant,
           GrantsBelowCounter, GrantsDistinct, AppliedWereGranted,
           WatermarkIsLast, FencedOrder, RefusedBelowWatermark
<1>2. ASSUME NEW h \in Holders, AcquireFails(h)
      PROVE  IInv'
  <2>1. LeaseTypeOK'
    BY <1>2, EvictedKeepsValid DEF AcquireFails, storage, LeaseTypeOK
  <2>2. OneEntry' /\ EntryIsLastGrant'
    BY <1>2, EvictedKeepsValid
       DEF AcquireFails, OneEntry, EntryIsLastGrant
  <2>3. QED
    BY <1>2, <2>1, <2>2
       DEF AcquireFails, storage, GrantsBelowCounter, GrantsDistinct,
           AppliedWereGranted, WatermarkIsLast, FencedOrder,
           RefusedBelowWatermark
<1>3. ASSUME NEW h \in Holders, AcquireGrants(h)
      PROVE  IInv'
  <2> DEFINE new == [Number |-> next + 1, Holder |-> h]
  <2>1. /\ Valid = {}
        /\ next' = next + 1
        /\ active' = [Evicted(active) EXCEPT ![h] = time + TTL]
        /\ tokens' = [Evicted(tokens) EXCEPT ![h] = next + 1]
        /\ granted' = granted \cup {new}
        /\ UNCHANGED <<time, newest, applied, fenced>>
    BY <1>3 DEF AcquireGrants, Blocked, storage
  <2>2. next + 1 \in Nat \ {0} /\ time + TTL \in Nat /\ new \in Token
    BY LeaseConstants DEF LeaseTypeOK, Token
  <2>3. LeaseTypeOK'
    BY <2>1, <2>2, EvictedKeepsValid DEF LeaseTypeOK, Absent
  <2>4. \A k \in Holders : active'[k] # Absent => k = h
    BY <2>1, EvictedKeepsValid DEF LeaseTypeOK
  <2>5. OneEntry' /\ EntryIsLastGrant'
    <3>1. tokens'[h] = next' /\ new \in granted'
      BY <2>1, EvictedKeepsValid
    <3>2. QED
      BY <2>1, <2>4, <3>1 DEF OneEntry, EntryIsLastGrant
  <2>6. GrantsBelowCounter' /\ GrantsDistinct'
    <3>1. \A t \in granted : t.Number \in Nat /\ t.Number <= next
      BY DEF LeaseTypeOK, Token, GrantsBelowCounter
    <3>2. QED
      BY <2>1, <2>2, <3>1 DEF LeaseTypeOK, GrantsBelowCounter, GrantsDistinct
  <2>7. QED
    BY <2>1, <2>3, <2>5, <2>6
       DEF AppliedWereGranted, WatermarkIsLast, FencedOrder,
           RefusedBelowWatermark
<1>4. ASSUME NEW h \in Holders, RenewFails(h)
      PROVE  IInv'
  BY <1>4
     DEF RenewFails, storage, LeaseTypeOK, OneEntry, EntryIsLastGrant,
         GrantsBelowCounter, GrantsDistinct, AppliedWereGranted,
         WatermarkIsLast, FencedOrder, RefusedBelowWatermark
<1>5. ASSUME NEW h \in Holders, RenewExtends(h)
      PROVE  IInv'
  <2>1. PICK second \in time .. MaxTime :
          time' = second /\ active' = [active EXCEPT ![h] = second + TTL]
    BY <1>5 DEF RenewExtends
  <2>2. /\ active[h] # Absent
        /\ second \in Nat /\ second + TTL \in Nat
        /\ UNCHANGED <<next, tokens, granted, newest, applied, fenced>>
    BY <1>5, <2>1, LeaseConstants
       DEF RenewExtends, MayRenew, Valid, CounterAfterRenew, storage, LeaseTypeOK
  <2>3. LeaseTypeOK'
    BY <2>1, <2>2 DEF LeaseTypeOK, Absent
  <2>4. OneEntry' /\ EntryIsLastGrant'
    BY <2>1, <2>2 DEF LeaseTypeOK, OneEntry, EntryIsLastGrant
  <2>5. QED
    BY <2>2, <2>3, <2>4
       DEF GrantsBelowCounter, GrantsDistinct, AppliedWereGranted,
           WatermarkIsLast, FencedOrder, RefusedBelowWatermark
<1>6. ASSUME NEW r \in Resources, NEW t \in granted, WriteRefused(r, t)
      PROVE  IInv'
  <2>1. LeaseTypeOK'
    BY <1>6 DEF WriteRefused, coordinator, LeaseTypeOK
  <2>2. RefusedBelowWatermark'
    <3>1. /\ fenced' = [fenced EXCEPT ![r] = Append(fenced[r], t)]
          /\ newest' = newest
          /\ t.Number <= newest[r]
      BY <1>6 DEF WriteRefused, Refuses
    <3>2. fenced[r] \in Seq(Token) /\ t \in Token
      BY DEF LeaseTypeOK
    <3> SUFFICES ASSUME NEW q \in Resources,
                        NEW i \in 1 .. Len(fenced'[q])
                 PROVE  fenced'[q][i].Number <= newest[q]
      BY <3>1 DEF RefusedBelowWatermark
    <3>3. CASE q # r
      BY <3>1, <3>3 DEF LeaseTypeOK, RefusedBelowWatermark
    <3>4. CASE q = r
      <4>1. fenced'[r] = Append(fenced[r], t)
        BY <3>1 DEF LeaseTypeOK
      <4> QED BY <3>1, <3>2, <3>4, <4>1 DEF RefusedBelowWatermark
    <3> QED BY <3>3, <3>4
  <2>3. QED
    BY <1>6, <2>1, <2>2
       DEF WriteRefused, coordinator, OneEntry, EntryIsLastGrant,
           GrantsBelowCounter, GrantsDistinct, AppliedWereGranted,
           WatermarkIsLast, FencedOrder
<1>7. ASSUME NEW r \in Resources, NEW t \in granted, WriteAccepted(r, t)
      PROVE  IInv'
  <2>1. /\ applied' = [applied EXCEPT ![r] = Append(applied[r], t)]
        /\ newest' = [newest EXCEPT ![r] = t.Number]
        /\ UNCHANGED <<time, next, active, tokens, granted, fenced>>
        /\ ~(t.Number <= newest[r])
    BY <1>7 DEF WriteAccepted, Refuses, coordinator
  <2>2. t \in Token /\ t.Number \in Nat /\ applied[r] \in Seq(Token)
        /\ newest[r] \in Nat
    BY DEF LeaseTypeOK, Token
  <2>3. LeaseTypeOK'
    BY <2>1, <2>2 DEF LeaseTypeOK
  <2> DEFINE n == Len(applied[r])
  <2>4. /\ n \in Nat
        /\ Len(applied'[r]) = n + 1
        /\ \A i \in 1 .. n : applied'[r][i] = applied[r][i]
        /\ applied'[r][n + 1] = t
        /\ applied'[r] # <<>>
        /\ \A q \in Resources : q # r =>
             applied'[q] = applied[q] /\ newest'[q] = newest[q]
        /\ newest'[r] = t.Number
    <3>1. applied'[r] = Append(applied[r], t) /\ newest'[r] = t.Number
      BY <2>1 DEF LeaseTypeOK
    <3>2. \A q \in Resources : q # r =>
             applied'[q] = applied[q] /\ newest'[q] = newest[q]
      BY <2>1 DEF LeaseTypeOK
    <3> QED BY <2>2, <3>1, <3>2
  <2>5. AppliedWereGranted' /\ WatermarkIsLast'
    <3>1. AppliedWereGranted'
      BY <2>1, <2>4 DEF AppliedWereGranted
    <3>2. WatermarkIsLast'
      BY <2>4 DEF WatermarkIsLast
    <3> QED BY <3>1, <3>2
  <2>6. \A i \in 1 .. n : applied[r][i].Number \in Nat
                           /\ applied[r][i].Number < t.Number
    <3> TAKE i \in 1 .. n
    <3>1. applied[r][i].Number <= newest[r]
      BY AppliedUpToWatermark
    <3>2. applied[r][i] \in Token
      BY <2>2
    <3> QED BY <2>1, <2>2, <3>1, <3>2 DEF Token
  <2>7. FencedOrder'
    <3> SUFFICES ASSUME NEW q \in Resources,
                        NEW i \in 1 .. Len(applied'[q]),
                        NEW j \in 1 .. Len(applied'[q]), i < j
                 PROVE  applied'[q][i].Number < applied'[q][j].Number
      BY DEF FencedOrder
    <3>1. CASE q # r
      BY <2>4, <3>1 DEF FencedOrder
    <3>2. CASE q = r /\ j \in 1 .. n
      <4>1. i \in 1 .. n
        BY <2>4, <3>2
      <4> QED BY <2>4, <3>2, <4>1 DEF FencedOrder
    <3>3. CASE q = r /\ j = n + 1
      BY <2>4, <2>6, <3>3
    <3> QED BY <2>4, <3>1, <3>2, <3>3
  <2>8. RefusedBelowWatermark'
    <3> SUFFICES ASSUME NEW q \in Resources,
                        NEW i \in 1 .. Len(fenced[q])
                 PROVE  fenced[q][i].Number <= newest'[q]
      BY <2>1 DEF RefusedBelowWatermark
    <3>1. fenced[q][i] \in Token /\ fenced[q][i].Number <= newest[q]
      BY DEF LeaseTypeOK, RefusedBelowWatermark
    <3>2. fenced[q][i].Number \in Nat /\ newest[q] \in Nat
      BY <3>1 DEF LeaseTypeOK, Token
    <3> QED BY <2>1, <2>2, <2>4, <3>1, <3>2
  <2>9. QED
    BY <2>1, <2>3, <2>5, <2>7, <2>8
       DEF OneEntry, EntryIsLastGrant, GrantsBelowCounter, GrantsDistinct
<1>8. CASE UNCHANGED leaseVars
  BY <1>8 DEF leaseVars, LeaseTypeOK, OneEntry, EntryIsLastGrant, GrantsBelowCounter,
       GrantsDistinct, AppliedWereGranted, WatermarkIsLast, FencedOrder,
       RefusedBelowWatermark
<1>9. QED
  BY <1>1, <1>2, <1>3, <1>4, <1>5, <1>6, <1>7, <1>8 DEF LeaseNext

(* The inductive invariant holds in every reachable state. *)
LEMMA AlwaysIInv == LeaseSpec => []IInv
BY InitIInv, NextIInv, PTL DEF LeaseSpec

(* Type correctness of the coordinator and of the storage, with the active *)
(* and tokens maps keyed alike (lease.go, Acquire and Renew).              *)
THEOREM TypeCorrect == LeaseSpec => []LeaseTypeOK
<1>1. IInv => LeaseTypeOK
  BY DEF IInv
<1> QED BY <1>1, AlwaysIInv, PTL

(* The lease is exclusive: Acquire never leaves two unexpired holders.     *)
THEOREM LeaseIsExclusive == LeaseSpec => []SingleHolder
<1>1. IInv => SingleHolder
  BY DEF IInv, OneEntry, SingleHolder, Valid
<1> QED BY <1>1, AlwaysIInv, PTL

(* Fenced.Write applies writes in the order of tokens: a zombie's write    *)
(* never lands after a later leader's.                                     *)
THEOREM FencingHolds == LeaseSpec => []FencedOrder
<1>1. IInv => FencedOrder
  BY DEF IInv
<1> QED BY <1>1, AlwaysIInv, PTL

(* The rightful leader is never fenced off by anybody else's write.        *)
THEOREM HolderIsNewest == LeaseSpec => []HolderHasNewestToken
<1>1. IInv => HolderHasNewestToken
  <2> SUFFICES ASSUME IInv, NEW h \in Valid
               PROVE  /\ tokens[h] = next
                      /\ \A r \in Resources :
                            /\ newest[r] <= tokens[h]
                            /\ newest[r] = tokens[h] =>
                                  applied[r][Len(applied[r])].Holder = h
    BY DEF HolderHasNewestToken
  <2> USE DEF IInv
  <2>1. /\ h \in Holders
        /\ tokens[h] = next
        /\ [Number |-> next, Holder |-> h] \in granted
        /\ next \in Nat \ {0}
    BY DEF Valid, EntryIsLastGrant, LeaseTypeOK, Token
  <2>2. SUFFICES ASSUME NEW r \in Resources
                 PROVE  /\ newest[r] <= next
                        /\ newest[r] = next =>
                              applied[r][Len(applied[r])].Holder = h
    BY <2>1
  <2>3. CASE applied[r] = <<>>
    BY <2>1, <2>3 DEF WatermarkIsLast
  <2>4. CASE applied[r] # <<>>
    <3> DEFINE last == applied[r][Len(applied[r])]
    <3>1. Len(applied[r]) \in 1 .. Len(applied[r])
      BY <2>4 DEF LeaseTypeOK
    <3>2. last \in granted /\ newest[r] = last.Number
      BY <2>4, <3>1 DEF AppliedWereGranted, WatermarkIsLast
    <3>3. newest[r] <= next
      BY <3>2 DEF GrantsBelowCounter
    <3>4. newest[r] = next => last = [Number |-> next, Holder |-> h]
      BY <2>1, <3>2 DEF GrantsDistinct
    <3> QED BY <2>1, <3>3, <3>4
  <2> QED BY <2>3, <2>4
<1> QED BY <1>1, AlwaysIInv, PTL

(* ErrFencedOut always has a write of the same or a later term behind it,  *)
(* on the same resource.                                                   *)
THEOREM RefusalsAreJustified == LeaseSpec => []RefusalIsJustified
<1>1. IInv => RefusalIsJustified
  <2> SUFFICES ASSUME IInv, NEW r \in Resources, NEW i \in 1 .. Len(fenced[r])
               PROVE  \E j \in 1 .. Len(applied[r]) :
                        fenced[r][i].Number <= applied[r][j].Number
    BY DEF RefusalIsJustified
  <2> USE DEF IInv
  <2>1. fenced[r][i] \in Token /\ fenced[r][i].Number <= newest[r]
    BY DEF LeaseTypeOK, RefusedBelowWatermark
  <2>2. newest[r] # 0
    BY <2>1 DEF Token, LeaseTypeOK
  <2>3. applied[r] # <<>> /\ newest[r] = applied[r][Len(applied[r])].Number
    BY <2>2 DEF WatermarkIsLast
  <2>4. Len(applied[r]) \in 1 .. Len(applied[r])
    BY <2>3 DEF LeaseTypeOK
  <2> QED BY <2>1, <2>3, <2>4
<1> QED BY <1>1, AlwaysIInv, PTL

-----------------------------------------------------------------------------
(* A step that only shrinks the set of valid holders ends the term or is   *)
(* invisible to LeaderTerms.                                               *)
LEMMA ShrinkingIsDepose ==
    ASSUME IInv, Valid' \subseteq Valid, granted' = granted, applied' = applied
    PROVE  [Terms!TermNext]_(Terms!termVars)
<1>1. \A h, k \in Valid : h = k
  BY DEF IInv, OneEntry, Valid
<1>2. CASE Valid' = {}
  BY <1>2 DEF Terms!TermNext, Terms!Depose
<1>3. CASE Valid' # {}
  <2>1. Valid' = Valid
    BY <1>1, <1>3, Zenon
  <2> QED BY <2>1 DEF Terms!termVars
<1> QED BY <1>2, <1>3

(* Every step of the lease is a step of LeaderTerms, or invisible to it.   *)
LEMMA StepImplementsTerms ==
    IInv /\ [LeaseNext]_leaseVars => [Terms!TermNext]_(Terms!termVars)
<1> SUFFICES ASSUME IInv, [LeaseNext]_leaseVars
             PROVE  [Terms!TermNext]_(Terms!termVars)
  OBVIOUS
<1>0. LeaseTypeOK
  BY DEF IInv
<1>1. CASE Tick
  <2>1. Valid' \subseteq Valid
    BY <1>0, <1>1 DEF Tick, coordinator, Valid, Expired, LeaseTypeOK, Absent
  <2> QED BY <1>1, <2>1, ShrinkingIsDepose DEF Tick, storage
<1>2. ASSUME NEW h \in Holders, AcquireFails(h)
      PROVE  [Terms!TermNext]_(Terms!termVars)
  <2>1. Valid' \subseteq Valid
    BY <1>2, <1>0 DEF AcquireFails, Evicted, Valid, Expired
  <2> QED BY <1>2, <2>1, ShrinkingIsDepose DEF AcquireFails, storage
<1>3. ASSUME NEW h \in Holders, AcquireGrants(h)
      PROVE  [Terms!TermNext]_(Terms!termVars)
  <2> DEFINE new == [Number |-> next + 1, Holder |-> h]
  <2>1. Valid = {} /\ granted' = granted \cup {new} /\ applied' = applied
        /\ active' = [Evicted(active) EXCEPT ![h] = time + TTL]
    BY <1>3 DEF AcquireGrants, Blocked, storage
  <2>2. \A k \in Holders : k # h => active'[k] = Absent
    BY <2>1, <1>0, EvictedKeepsValid
  <2>3. Valid' \in {{h}, {}}
    BY <2>2 DEF Valid
  <2>4. \A t \in granted : t.Number < new.Number
    BY <1>0 DEF IInv, GrantsBelowCounter, LeaseTypeOK, Token
  <2>5. new \in granted' /\ new.Holder = h
    BY <2>1
  <2>6. Terms!Elect(h)
    BY <2>1, <2>3, <2>4, <2>5 DEF Terms!Elect
  <2> QED BY <2>6 DEF Terms!TermNext
<1>4. ASSUME NEW h \in Holders, RenewFails(h)
      PROVE  [Terms!TermNext]_(Terms!termVars)
  <2>1. Valid' \subseteq Valid
    BY <1>4, <1>0 DEF RenewFails, Valid, Expired, LeaseTypeOK
  <2> QED BY <1>4, <2>1, ShrinkingIsDepose DEF RenewFails, storage
<1>5. ASSUME NEW h \in Holders, RenewExtends(h)
      PROVE  [Terms!TermNext]_(Terms!termVars)
  <2>1. PICK second \in time .. MaxTime :
          time' = second /\ active' = [active EXCEPT ![h] = second + TTL]
    BY <1>5 DEF RenewExtends
  <2>2. h \in Valid
    BY <1>5 DEF RenewExtends, MayRenew
  <2>3. \A k \in Holders : k # h => active'[k] = Absent
    BY <2>1, <2>2, <1>0 DEF IInv, OneEntry, Valid, LeaseTypeOK
  <2>4. Valid' \subseteq Valid
    BY <2>2, <2>3 DEF Valid
  <2> QED BY <1>5, <2>4, ShrinkingIsDepose DEF RenewExtends, storage
<1>6. ASSUME NEW r \in Resources, NEW t \in granted, WriteRefused(r, t)
      PROVE  [Terms!TermNext]_(Terms!termVars)
  BY <1>6 DEF WriteRefused, coordinator, Valid, Expired, Terms!termVars
<1>7. ASSUME NEW r \in Resources, NEW t \in granted, WriteAccepted(r, t)
      PROVE  [Terms!TermNext]_(Terms!termVars)
  <2>1. /\ applied' = [applied EXCEPT ![r] = Append(applied[r], t)]
        /\ UNCHANGED <<time, active, granted>>
        /\ ~(t.Number <= newest[r])
    BY <1>7 DEF WriteAccepted, Refuses, coordinator
  <2>2. Valid' = Valid
    BY <2>1 DEF Valid, Expired
  <2>3. \A i \in 1 .. Len(applied[r]) : applied[r][i].Number < t.Number
    <3> TAKE i \in 1 .. Len(applied[r])
    <3>1. applied[r][i].Number <= newest[r]
      BY <1>0, AppliedUpToWatermark DEF IInv
    <3>2. applied[r][i] \in Token /\ t \in Token /\ newest[r] \in Nat
      BY <1>0 DEF LeaseTypeOK
    <3> QED BY <2>1, <3>1, <3>2 DEF Token
  <2>4. Terms!Land(r, t)
    BY <2>1, <2>2, <2>3 DEF Terms!Land
  <2> QED BY <2>4 DEF Terms!TermNext
<1>8. CASE UNCHANGED leaseVars
  BY <1>8 DEF leaseVars, Valid, Expired, Terms!termVars
<1>9. QED
  BY <1>1, <1>2, <1>3, <1>4, <1>5, <1>6, <1>7, <1>8 DEF LeaseNext

(* The lease with fencing tokens implements leadership in terms.           *)
THEOREM LeaseImplementsTerms == LeaseSpec => ImplementsTerms
<1>1. LeaseInit => Terms!TermInit
  BY DEF LeaseInit, Terms!TermInit, Valid, Absent
<1> QED
  BY <1>1, StepImplementsTerms, AlwaysIInv, PTL
     DEF LeaseSpec, ImplementsTerms, Terms!TermSpec
=============================================================================
