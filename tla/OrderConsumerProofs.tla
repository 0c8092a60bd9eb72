----------------------- MODULE OrderConsumerProofs -----------------------
(***************************************************************************)
(* Proofs about OrderConsumer for every group of processes, every log,     *)
(* every number of attempts and every bound on the faults: type            *)
(* correctness, CommitAfterProcessing and AppliedOnce.                     *)
(***************************************************************************)
EXTENDS OrderConsumer, FiniteSetTheorems, TLAPS

Holding == {"apply", "release", "backoff"}

(* The conjuncts of ConsumerTypeOK, grouped by the variables they speak of. *)
StoreTypes ==
    /\ store \in {"memory", "database"}
    /\ claims \in [Procs \cup {"database"} -> SUBSET Keys]
    /\ applied \in [Keys -> Nat]
    /\ orphaned \subseteq Keys
    /\ faults \in 0 .. MaxFaults

LetterTypes ==
    /\ buffered \in [Procs -> SUBSET sent]
    /\ dlq \subseteq sent
    /\ sent \subseteq Records

OffsetTypes ==
    /\ owner \in [Partitions -> Procs \cup {Nobody}]
    /\ pos \in [Partitions -> Nat]
    /\ committed \in [Partitions -> Nat]
    /\ done \in [Partitions -> Nat]
    /\ \A p \in Partitions :
        committed[p] <= done[p] /\ done[p] <= pos[p] /\ pos[p] <= Len(Log[p])

ProcessTypes ==
    /\ pc \in [Procs -> ConsumerPlaces]
    /\ batch \in [Procs -> SUBSET Partitions]
    /\ part \in [Procs -> Partitions \cup {NoPartition}]
    /\ attempt \in [Procs -> 0 .. MaxAttempts - 1]
    /\ canceled \in [Procs -> BOOLEAN]

BatchesOwned == \A c \in Procs : \A p \in batch[c] : owner[p] = c

RecordsInHand ==
    /\ \A c \in Procs :
        Working(c) => part[c] \in batch[c] /\ done[part[c]] < pos[part[c]]
    /\ \A c \in Procs : pc[c] \in Holding => Key(InHand(c)) # Bad

(* At the commit every record of the batch has been processed, unless the  *)
(* process was cancelled; nobody has processed past the committed offset   *)
(* of a partition without an owner.                                        *)
AtCommit ==
    \A c \in Procs : pc[c] = "commit" => \A p \in batch[c] : done[p] = pos[p]

Unowned == \A p \in Partitions : owner[p] = Nobody => done[p] = committed[p]

Placed ==
    /\ StoreTypes
    /\ LetterTypes
    /\ OffsetTypes
    /\ ProcessTypes
    /\ BatchesOwned
    /\ RecordsInHand
    /\ AtCommit
    /\ Unowned

LEMMA PlacedIsTyped == Placed <=> ConsumerTypeOK /\ AtCommit /\ Unowned
  BY DEF Placed, ConsumerTypeOK, StoreTypes, LetterTypes, OffsetTypes, ProcessTypes,
         BatchesOwned, RecordsInHand, Holding

(* A record in hand is one of the log. *)
LEMMA InHandIsRecord ==
  ASSUME Placed, NEW c \in Procs, Working(c)
  PROVE  /\ InHand(c) \in Records
         /\ part[c] \in Partitions
         /\ owner[part[c]] = c
         /\ part[c] \in batch[c]
         /\ done[part[c]] \in Nat
         /\ pos[part[c]] \in Nat
         /\ done[part[c]] < pos[part[c]]
         /\ pos[part[c]] <= Len(Log[part[c]])
         /\ ~Committed(InHand(c))
<1>1. part[c] \in batch[c] /\ done[part[c]] < pos[part[c]]
  BY DEF Placed, RecordsInHand
<1>2. part[c] \in Partitions /\ owner[part[c]] = c
  BY <1>1 DEF Placed, ProcessTypes, BatchesOwned
<1>3. /\ done[part[c]] \in Nat /\ pos[part[c]] \in Nat
      /\ committed[part[c]] \in Nat
      /\ committed[part[c]] <= done[part[c]]
      /\ pos[part[c]] <= Len(Log[part[c]])
      /\ Len(Log[part[c]]) \in Nat
  BY <1>2, OrderConsumerConstants DEF Placed, OffsetTypes
<1>4. done[part[c]] + 1 \in 1 .. Len(Log[part[c]])
  BY <1>1, <1>3
<1>5. InHand(c) \in Records
  BY <1>2, <1>4 DEF InHand, Records
<1>6. ~Committed(InHand(c))
  BY <1>3 DEF InHand, Committed
<1> QED
  BY <1>1, <1>2, <1>3, <1>5, <1>6

LEMMA RecordsAreNumbered ==
  \A r \in Records : r[1] \in Partitions /\ r[2] \in Nat
  BY OrderConsumerConstants DEF Records

LEMMA KeysAreNotBad ==
  \A r \in Records : Key(r) # Bad => Key(r) \in Keys
  BY DEF Keys

(* MoveTo takes c's partition to n and gives c its next record in hand.    *)
LEMMA MoveToPlaces ==
  ASSUME Placed, NEW c \in Procs, Working(c),
         NEW n \in Nat, done[part[c]] < n, n <= pos[part[c]],
         MoveTo(c, n), UNCHANGED <<kafka, canceled>>
  PROVE  OffsetTypes' /\ ProcessTypes' /\ BatchesOwned' /\ RecordsInHand'
         /\ AtCommit' /\ Unowned'
<1>1. PICK p \in Partitions : p = part[c] /\ owner[p] = c /\ p \in batch[c]
  BY InHandIsRecord
<1> USE DEF Placed
<1>2. /\ done' = [done EXCEPT ![p] = n]
      /\ attempt' = [attempt EXCEPT ![c] = 0]
      /\ batch' = batch /\ owner' = owner /\ pos' = pos
      /\ committed' = committed /\ canceled' = canceled
  BY <1>1 DEF MoveTo, kafka
<1>3. OffsetTypes'
  BY <1>1, <1>2, OrderConsumerConstants DEF OffsetTypes
<1>4. /\ \A d \in Procs : d # c => pc'[d] = pc[d] /\ part'[d] = part[d]
      /\ \/ pc'[c] = "claim" /\ part'[c] \in batch[c] /\ done'[part'[c]] < pos[part'[c]]
         \/ /\ pc'[c] = "commit"
            /\ \A q \in batch[c] \ {p} : ~(done[q] < pos[q])
            /\ n = pos[p]
      /\ pc' \in [Procs -> ConsumerPlaces]
      /\ part' \in [Procs -> Partitions \cup {NoPartition}]
  <2>1. CASE n < pos[p] /\ ProcTo(c, "claim") /\ UNCHANGED part
    BY <2>1, <1>1, <1>2 DEF ProcTo, ProcessTypes, ConsumerPlaces, OffsetTypes
  <2>2. CASE /\ n = pos[p]
             /\ \E q \in {q \in batch[c] \ {p} : done[q] < pos[q]} :
                    part' = [part EXCEPT ![c] = q]
             /\ ProcTo(c, "claim")
    <3>1. PICK q \in batch[c] \ {p} : done[q] < pos[q] /\ part' = [part EXCEPT ![c] = q]
      BY <2>2
    <3>2. q \in Partitions /\ done'[q] = done[q]
      BY <3>1, <1>2 DEF ProcessTypes, OffsetTypes
    <3>3. part'[c] = q /\ pc'[c] = "claim"
      BY <3>1, <2>2 DEF ProcessTypes, ProcTo
    <3> QED
      BY <3>1, <3>2, <3>3, <2>2 DEF ProcTo, ProcessTypes, ConsumerPlaces
  <2>3. CASE /\ n = pos[p]
             /\ {q \in batch[c] \ {p} : done[q] < pos[q]} = {}
             /\ part' = [part EXCEPT ![c] = NoPartition]
             /\ ProcTo(c, "commit")
    BY <2>3, <1>1, <1>2 DEF ProcTo, ProcessTypes, ConsumerPlaces
  <2> QED
    BY <2>1, <2>2, <2>3, <1>1 DEF MoveTo
<1>5. ProcessTypes'
  <2>1. attempt' \in [Procs -> 0 .. MaxAttempts - 1]
    BY <1>2, OrderConsumerConstants DEF ProcessTypes
  <2> QED
    BY <2>1, <1>2, <1>4 DEF ProcessTypes
<1>6. BatchesOwned'
  BY <1>2 DEF BatchesOwned
<1>7. \A d \in Procs : d # c /\ Working(d) => part[d] # p /\ done'[part[d]] = done[part[d]]
  BY <1>1, <1>2, InHandIsRecord DEF OffsetTypes
<1>8. RecordsInHand'
  <2>1. ASSUME NEW d \in Procs, Working(d)'
        PROVE  part'[d] \in batch'[d] /\ done'[part'[d]] < pos'[part'[d]]
    BY <2>1, <1>2, <1>4, <1>7 DEF RecordsInHand, Working
  <2>2. ASSUME NEW d \in Procs, pc'[d] \in Holding
        PROVE  Key(InHand(d))' # Bad
    BY <2>2, <1>2, <1>4, <1>7 DEF RecordsInHand, Holding, Working, InHand, Key
  <2> QED
    BY <2>1, <2>2 DEF RecordsInHand
<1>9. AtCommit'
  <2>1. ASSUME NEW d \in Procs, pc'[d] = "commit", NEW q \in batch'[d]
        PROVE  done'[q] = pos'[q]
    <3>1. q \in Partitions /\ q \in batch[d] /\ owner[q] = d
      BY <2>1, <1>2 DEF BatchesOwned, ProcessTypes
    <3>2. CASE d = c
      BY <3>1, <3>2, <2>1, <1>1, <1>2, <1>4 DEF OffsetTypes
    <3>3. CASE d # c
      BY <3>1, <3>3, <2>1, <1>1, <1>2, <1>4 DEF OffsetTypes, AtCommit
    <3> QED
      BY <3>2, <3>3
  <2> QED
    BY <2>1 DEF AtCommit
<1>10. Unowned'
  BY <1>1, <1>2, OrderConsumerConstants DEF Unowned, OffsetTypes
<1> QED
  BY <1>3, <1>5, <1>6, <1>8, <1>9, <1>10

LEMMA PlacedInit == ConsumerInit => Placed
<1> SUFFICES ASSUME ConsumerInit PROVE Placed
  OBVIOUS
<1>1. StoreTypes /\ LetterTypes /\ BatchesOwned /\ RecordsInHand
  BY OrderConsumerConstants DEF ConsumerInit, StoreTypes, LetterTypes, BatchesOwned, RecordsInHand, Holding, Working
<1>2. OffsetTypes /\ ProcessTypes /\ AtCommit /\ Unowned
  BY OrderConsumerConstants DEF ConsumerInit, OffsetTypes, ProcessTypes, AtCommit, Unowned, ConsumerPlaces
<1> QED
  BY <1>1, <1>2 DEF Placed

(* The steps that leave partitions, batches and the record in hand alone.  *)
LEMMA StandingStill ==
  ASSUME Placed, NEW c \in Procs, UNCHANGED <<kafka, progress>>,
         NEW where \in ConsumerPlaces, pc' = [pc EXCEPT ![c] = where],
         attempt' \in [Procs -> 0 .. MaxAttempts - 1],
         canceled' \in [Procs -> BOOLEAN],
         where \in {"claim", "apply", "release", "backoff"} => Working(c),
         where \in Holding => Key(InHand(c)) # Bad,
         where = "commit" => pc[c] = "commit"
  PROVE  OffsetTypes' /\ ProcessTypes' /\ BatchesOwned' /\ RecordsInHand'
         /\ AtCommit' /\ Unowned'
<1> USE DEF Placed, kafka, progress
<1>1. OffsetTypes' /\ BatchesOwned' /\ Unowned'
  BY DEF OffsetTypes, BatchesOwned, Unowned
<1>2. ProcessTypes'
  BY DEF ProcessTypes
<1>3. \A d \in Procs : pc'[d] = IF d = c THEN where ELSE pc[d]
  BY DEF ProcessTypes
<1>4. RecordsInHand'
  BY <1>3 DEF RecordsInHand, Working, Holding, InHand, Key
<1>5. AtCommit'
  BY <1>3 DEF AtCommit
<1> QED
  BY <1>1, <1>2, <1>4, <1>5

LEMMA PlacedNext == Placed /\ [ConsumerNext]_consumerVars => Placed'
<1> SUFFICES ASSUME Placed, [ConsumerNext]_consumerVars PROVE Placed'
  OBVIOUS
<1> DEFINE Rest == OffsetTypes' /\ ProcessTypes' /\ BatchesOwned' /\ RecordsInHand'
                   /\ AtCommit' /\ Unowned'
<1> SUFFICES StoreTypes' /\ LetterTypes' /\ Rest
  BY DEF Placed
<1>1. ASSUME NEW c \in Procs, Poll(c)
      PROVE  StoreTypes' /\ LetterTypes' /\ Rest
  <2>1. PICK e \in BatchEnds(c), p \in Partitions :
          /\ batch' = [batch EXCEPT ![c] = {q \in Partitions : e[q] # pos[q]}]
          /\ e[p] # pos[p] /\ part' = [part EXCEPT ![c] = p]
          /\ pos' = e
    BY <1>1 DEF Poll
  <2>2. /\ pc[c] = "poll" /\ pc' = [pc EXCEPT ![c] = "claim"]
        /\ attempt' = [attempt EXCEPT ![c] = 0]
        /\ owner' = owner /\ committed' = committed /\ done' = done
        /\ canceled' = canceled
    BY <1>1 DEF Poll, ProcTo
  <2>3. /\ e \in [Partitions -> Nat]
        /\ \A q \in Partitions : pos[q] <= e[q] /\ e[q] <= Len(Log[q])
        /\ \A q \in Partitions : owner[q] # c => e[q] = pos[q]
    BY OrderConsumerConstants DEF BatchEnds
  <2>4. StoreTypes' /\ LetterTypes'
    BY <1>1 DEF Poll, effects, letters, StoreTypes, LetterTypes, Placed
  <2>5. OffsetTypes'
    BY <2>1, <2>2, <2>3, OrderConsumerConstants DEF OffsetTypes, Placed
  <2>6. ProcessTypes'
    <3>1. attempt' \in [Procs -> 0 .. MaxAttempts - 1]
      BY <2>2, OrderConsumerConstants DEF ProcessTypes, Placed
    <3> QED
      BY <3>1, <2>1, <2>2 DEF ProcessTypes, Placed, ConsumerPlaces
  <2>7. /\ pc'[c] = "claim" /\ part'[c] = p
        /\ batch'[c] = {q \in Partitions : e[q] # pos[q]}
        /\ \A d \in Procs : d # c =>
              pc'[d] = pc[d] /\ part'[d] = part[d] /\ batch'[d] = batch[d]
    BY <2>1, <2>2 DEF ProcessTypes, Placed
  <2>8. BatchesOwned'
    BY <2>2, <2>3, <2>7 DEF BatchesOwned, Placed
  <2>9. \A d \in Procs \ {c} : \A q \in batch[d] : q \in Partitions /\ pos'[q] = pos[q]
    BY <2>1, <2>3 DEF BatchesOwned, Placed, ProcessTypes
  <2>10. RecordsInHand'
    <3>1. done[p] < e[p]
      BY <2>1, <2>3 DEF OffsetTypes, Placed
    <3>2. ASSUME NEW d \in Procs, Working(d)'
          PROVE  part'[d] \in batch'[d] /\ done'[part'[d]] < pos'[part'[d]]
      <4>1. CASE d = c
        BY <4>1, <3>1, <2>1, <2>2, <2>7
      <4>2. CASE d # c
        BY <4>2, <3>2, <2>2, <2>7, <2>9 DEF RecordsInHand, Working, Placed
      <4> QED
        BY <4>1, <4>2
    <3>3. ASSUME NEW d \in Procs, pc'[d] \in Holding
          PROVE  Key(InHand(d))' # Bad
      BY <3>3, <2>2, <2>7 DEF RecordsInHand, Holding, InHand, Key, Placed
    <3> QED
      BY <3>2, <3>3 DEF RecordsInHand
  <2>11. AtCommit' /\ Unowned'
    BY <2>2, <2>7, <2>9 DEF AtCommit, Unowned, Placed
  <2> QED
    BY <2>4, <2>5, <2>6, <2>8, <2>10, <2>11
<1>2. ASSUME NEW c \in Procs, Claim(c) \/ ClaimFails(c) \/ ApplyFails(c)
                              \/ Release(c) \/ ReleaseFails(c) \/ Again(c)
      PROVE  StoreTypes' /\ LetterTypes' /\ Rest
  <2>1. Working(c) /\ InHand(c) \in Records /\ UNCHANGED <<kafka, progress>>
        /\ canceled' = canceled
    BY <1>2, InHandIsRecord
       DEF Claim, ClaimFails, ApplyFails, Release, ReleaseFails, Again, Claiming, Working
  <2>2. Key(InHand(c)) # Bad \/ Again(c)
    BY <1>2 DEF Claim, ClaimFails, ApplyFails, Release, ReleaseFails, Claiming,
                RecordsInHand, Holding, Placed
  <2>3. Key(InHand(c)) # Bad => Key(InHand(c)) \in Keys
    BY <2>1, KeysAreNotBad
  <2>4. StoreTypes'
    BY <1>2, <2>2, <2>3, OrderConsumerConstants
       DEF Claim, ClaimFails, ApplyFails, Release, ReleaseFails, Again, Fault,
           effects, letters, StoreTypes, StoreOf, Placed
  <2>5. LetterTypes'
    BY <1>2 DEF Claim, ClaimFails, ApplyFails, Release, ReleaseFails, Again,
                effects, letters, LetterTypes, Placed
  <2>6. attempt' \in [Procs -> 0 .. MaxAttempts - 1]
    <3>1. CASE attempt' = attempt
      BY <3>1 DEF ProcessTypes, Placed
    <3>2. CASE Again(c)
      <4>1. attempt[c] \in Nat /\ MaxAttempts \in Nat /\ ~(attempt[c] + 1 >= MaxAttempts)
        BY <3>2, OrderConsumerConstants DEF Again, LastAttempt, ProcessTypes, Placed
      <4>2. attempt[c] + 1 \in 0 .. MaxAttempts - 1
        BY <4>1
      <4> QED
        BY <3>2, <4>2 DEF Again, ProcessTypes, Placed
    <3> QED
      BY <1>2, <3>1, <3>2 DEF Claim, ClaimFails, ApplyFails, Release, ReleaseFails
  <2>7. \E where \in {"claim", "apply", "release", "backoff"} :
          /\ pc' = [pc EXCEPT ![c] = where]
          /\ where = "claim" \/ Key(InHand(c)) # Bad
    BY <1>2, <2>2 DEF Claim, ClaimFails, ApplyFails, Release, ReleaseFails, Again, ProcTo
  <2>8. PICK where \in {"claim", "apply", "release", "backoff"} :
          /\ pc' = [pc EXCEPT ![c] = where]
          /\ where = "claim" \/ Key(InHand(c)) # Bad
    BY <2>7
  <2>9. where \in ConsumerPlaces /\ where # "commit" /\ canceled' \in [Procs -> BOOLEAN]
        /\ (where \in Holding => Key(InHand(c)) # Bad)
    BY <2>1, <2>8 DEF ConsumerPlaces, ProcessTypes, Placed, Holding
  <2> QED
    BY <2>1, <2>4, <2>5, <2>6, <2>8, <2>9, StandingStill
<1>3. ASSUME NEW c \in Procs, Refuse(c) \/ Duplicate(c) \/ Apply(c) \/ Exhaust(c)
                              \/ AbandonPartition(c)
      PROVE  StoreTypes' /\ LetterTypes' /\ Rest
  <2>1. Working(c) /\ UNCHANGED <<kafka, canceled>>
    BY <1>3 DEF Refuse, Duplicate, Apply, Exhaust, AbandonPartition, Claiming, Working
  <2>2. /\ InHand(c) \in Records
        /\ done[part[c]] \in Nat /\ pos[part[c]] \in Nat
        /\ done[part[c]] < pos[part[c]]
    BY <2>1, InHandIsRecord
  <2>3. MoveTo(c, done[part[c]] + 1) \/ MoveTo(c, pos[part[c]])
    BY <1>3 DEF Refuse, Duplicate, Apply, Exhaust, AbandonPartition, DeadLetter, NextRecord
  <2>4. Rest
    <3>1. /\ done[part[c]] + 1 \in Nat /\ done[part[c]] < done[part[c]] + 1
          /\ done[part[c]] + 1 <= pos[part[c]]
      BY <2>2
    <3> QED
      BY <2>1, <2>2, <2>3, <3>1, MoveToPlaces
  <2>5. Apply(c) => Key(InHand(c)) \in Keys
    BY <2>2, KeysAreNotBad DEF Apply, RecordsInHand, Holding, Placed
  <2>6. StoreTypes'
    BY <1>3, <2>5 DEF Refuse, Duplicate, Apply, Exhaust, AbandonPartition, DeadLetter,
                ClaimsAfterApply, effects, StoreTypes, Placed
  <2>7. LetterTypes'
    BY <1>3, <2>2 DEF Refuse, Duplicate, Apply, Exhaust, AbandonPartition, DeadLetter,
                effects, letters, LetterTypes, Placed
  <2> QED
    BY <2>4, <2>6, <2>7
<1>4. ASSUME NEW c \in Procs, Commit(c) \/ CommitFails(c)
      PROVE  StoreTypes' /\ LetterTypes' /\ Rest
  <2>1. /\ pc[c] = "commit" /\ EndBatch(c)
        /\ owner' = owner /\ pos' = pos /\ done' = done /\ part' = part
        /\ attempt' = attempt /\ canceled' = canceled
        /\ \/ committed' = committed
           \/ committed' = [p \in Partitions |->
                              IF p \in batch[c] THEN pos[p] ELSE committed[p]]
    BY <1>4 DEF Commit, CommitFails, kafka
  <2>2. \A p \in batch[c] : p \in Partitions /\ done[p] = pos[p] /\ owner[p] = c
    BY <2>1 DEF AtCommit, BatchesOwned, ProcessTypes, Placed
  <2>3. StoreTypes' /\ LetterTypes'
    BY <1>4, OrderConsumerConstants
       DEF Commit, CommitFails, Fault, effects, letters, StoreTypes, LetterTypes, Placed
  <2>4. OffsetTypes'
    BY <2>1, <2>2, OrderConsumerConstants DEF OffsetTypes, Placed
  <2>5. ProcessTypes'
    BY <2>1 DEF EndBatch, ProcTo, ConsumerPlaces, ProcessTypes, Placed
  <2>6. \A d \in Procs : IF d = c THEN pc'[d] = "poll" /\ batch'[d] = {}
                                  ELSE pc'[d] = pc[d] /\ batch'[d] = batch[d]
    BY <2>1 DEF EndBatch, ProcTo, ProcessTypes, Placed
  <2>7. BatchesOwned' /\ AtCommit'
    BY <2>1, <2>6 DEF BatchesOwned, AtCommit, Placed
  <2>8. RecordsInHand'
    BY <2>1, <2>6 DEF RecordsInHand, Working, Holding, InHand, Key, Placed
  <2>9. Unowned'
    BY <2>1, <2>2, OrderConsumerConstants DEF Unowned, Placed
  <2> QED
    BY <2>3, <2>4, <2>5, <2>7, <2>8, <2>9
<1>5. ASSUME NEW c \in Procs, Leave(c) \/ Crash(c)
      PROVE  StoreTypes' /\ LetterTypes' /\ Rest
  <2>1. Gone(c)
    BY <1>5 DEF Leave, Crash
  <2>2. pc[c] \in {"apply", "release"} => Key(InHand(c)) \in Keys
    BY InHandIsRecord, KeysAreNotBad DEF RecordsInHand, Holding, Working, Placed
  <2>3. StoreTypes'
    BY <1>5, <2>1, <2>2, OrderConsumerConstants
       DEF Leave, Crash, Gone, Fault, StoreTypes, Placed
  <2>4. LetterTypes'
    BY <2>1 DEF Gone, LetterTypes, Placed
  <2>5. OffsetTypes'
    BY <2>1, OrderConsumerConstants DEF Gone, OffsetTypes, Placed
  <2>6. ProcessTypes'
    <3>1. attempt' \in [Procs -> 0 .. MaxAttempts - 1]
      BY <2>1, OrderConsumerConstants DEF Gone, ProcessTypes, Placed
    <3> QED
      BY <3>1, <2>1 DEF Gone, ProcTo, ConsumerPlaces, ProcessTypes, Placed
  <2>7. \A d \in Procs : IF d = c THEN pc'[d] = "down" /\ batch'[d] = {}
                                  ELSE /\ pc'[d] = pc[d] /\ batch'[d] = batch[d]
                                       /\ part'[d] = part[d]
    BY <2>1 DEF Gone, ProcTo, ProcessTypes, Placed
  <2>8. \A d \in Procs \ {c} : \A p \in batch[d] :
          /\ p \in Partitions /\ owner[p] = d /\ owner'[p] = d
          /\ pos'[p] = pos[p] /\ done'[p] = done[p]
    BY <2>1 DEF Gone, BatchesOwned, ProcessTypes, Placed
  <2>9. BatchesOwned' /\ AtCommit'
    BY <2>7, <2>8 DEF BatchesOwned, AtCommit, Placed
  <2>10. RecordsInHand'
    <3>1. ASSUME NEW d \in Procs, Working(d)'
          PROVE  part'[d] \in batch'[d] /\ done'[part'[d]] < pos'[part'[d]]
      BY <3>1, <2>7, <2>8 DEF RecordsInHand, Working, Placed
    <3>2. ASSUME NEW d \in Procs, pc'[d] \in Holding
          PROVE  Key(InHand(d))' # Bad
      BY <3>2, <2>7, <2>8 DEF RecordsInHand, Working, Holding, InHand, Key, Placed
    <3> QED
      BY <3>1, <3>2 DEF RecordsInHand
  <2>11. Unowned'
    BY <2>1, OrderConsumerConstants DEF Gone, Unowned, Placed
  <2> QED
    BY <2>3, <2>4, <2>5, <2>6, <2>9, <2>10, <2>11
<1>6. ASSUME NEW c \in Procs,
             Restart(c) \/ Deliver(c) \/ DeliverFails(c) \/ Sigterm(c)
      PROVE  StoreTypes' /\ LetterTypes' /\ Rest
  <2>1. /\ UNCHANGED <<kafka, progress, attempt>>
        /\ canceled' = canceled \/ canceled' = [canceled EXCEPT ![c] = TRUE]
        /\ pc' = pc \/ pc' = [pc EXCEPT ![c] = "poll"]
    BY <1>6 DEF Restart, Deliver, DeliverFails, Sigterm, ProcTo
  <2>2. PICK where \in ConsumerPlaces :
          pc' = [pc EXCEPT ![c] = where] /\ (where = "poll" \/ where = pc[c])
    BY <2>1 DEF ProcessTypes, Placed, ConsumerPlaces
  <2>3. /\ attempt' \in [Procs -> 0 .. MaxAttempts - 1]
        /\ canceled' \in [Procs -> BOOLEAN]
    BY <2>1 DEF ProcessTypes, Placed
  <2>4. Rest
    <3>1. where \in {"claim", "apply", "release", "backoff"} => Working(c)
      BY <2>2 DEF Working
    <3>2. where \in Holding => Key(InHand(c)) # Bad
      BY <2>2 DEF RecordsInHand, Holding, Placed
    <3>3. where = "commit" => pc[c] = "commit"
      BY <2>2
    <3>4. UNCHANGED <<kafka, progress>>
      BY <2>1
    <3>5. pc' = [pc EXCEPT ![c] = where]
      BY <2>2
    <3> QED
      BY <2>3, <3>1, <3>2, <3>3, <3>4, <3>5, StandingStill
  <2>5. StoreTypes'
    BY <1>6, OrderConsumerConstants
       DEF Restart, Deliver, DeliverFails, Sigterm, Fault, effects, letters, StoreTypes, Placed
  <2>6. LetterTypes'
    BY <1>6 DEF Restart, Deliver, DeliverFails, Sigterm, effects, letters,
                LetterTypes, Placed
  <2> QED
    BY <2>4, <2>5, <2>6
<1>7. ASSUME NEW p \in Partitions, NEW c \in Procs, Assign(p, c)
      PROVE  StoreTypes' /\ LetterTypes' /\ Rest
  <2>1. /\ owner[p] = Nobody /\ owner' = [owner EXCEPT ![p] = c]
        /\ UNCHANGED <<store, claims, pos, committed, pc, progress, attempt,
                       canceled, effects, faults>>
    BY <1>7 DEF Assign
  <2>2. StoreTypes' /\ LetterTypes'
    BY <2>1 DEF effects, letters, StoreTypes, LetterTypes, Placed
  <2>3. OffsetTypes' /\ ProcessTypes' /\ RecordsInHand' /\ AtCommit'
    BY <2>1 DEF progress, OffsetTypes, ProcessTypes, RecordsInHand, AtCommit, Working,
                Holding, InHand, Key, Placed
  <2>4. BatchesOwned'
    BY <2>1, OrderConsumerConstants DEF progress, BatchesOwned, ProcessTypes, OffsetTypes, Placed
  <2>5. Unowned'
    BY <2>1, OrderConsumerConstants DEF progress, Unowned, OffsetTypes, Placed
  <2> QED
    BY <2>2, <2>3, <2>4, <2>5
<1>8. CASE UNCHANGED consumerVars
  BY <1>8 DEF consumerVars, StoreTypes, LetterTypes, OffsetTypes, ProcessTypes, BatchesOwned,
              RecordsInHand, AtCommit, Unowned, Working, Holding, InHand, Key, Placed
<1> QED
  BY <1>1, <1>2, <1>3, <1>4, <1>5, <1>6, <1>7, <1>8 DEF ConsumerNext, Step, Environment

(* The types hold: a process has a record of the log in hand exactly while *)
(* it works, and commits run behind processing.                            *)
THEOREM TypeCorrect == ConsumerSpec => []ConsumerTypeOK
<1>1. ConsumerSpec => []Placed
  BY PlacedInit, PlacedNext, PTL DEF ConsumerSpec
<1>2. Placed => ConsumerTypeOK
  BY PlacedIsTyped
<1> QED
  BY <1>1, <1>2, PTL

-----------------------------------------------------------------------------
(* The order with key k is between a Claim that won and the end of its     *)
(* attempt, in process c.                                                  *)
InFlight(c, k) == pc[c] \in {"apply", "release"} /\ Key(InHand(c)) = k

(* c's group member will not poll r again: its offset is committed, or c   *)
(* has processed it and is not cancelled, so that its commits go on.       *)
Past(r) ==
    \/ Committed(r)
    \/ owner[r[1]] # Nobody /\ ~canceled[owner[r[1]]] /\ r[2] <= done[r[1]]

Fine(r) == Ended(r) \/ Key(r) \in orphaned

(* CommitAfterProcessing for the records that are about to be committed as *)
(* well: the commit itself then has nothing left to prove.                 *)
Accounted ==
    \A r \in Records : Past(r) =>
        Fine(r) \/ (Key(r) # Bad /\ \E s \in Records : Key(s) = Key(r) /\ ~Past(s))

(* What a claim in a store means: "duplicate" is a true answer, or somebody *)
(* else has the order in hand.                                             *)
ClaimsStand ==
    \A s \in Procs \cup {"database"} : \A k \in claims[s] :
        \/ applied[k] > 0
        \/ k \in orphaned
        \/ \E c \in Procs : StoreOf(c) = s /\ InFlight(c, k)

FlightsHold ==
    \A c \in Procs : \A k \in Keys : InFlight(c, k) => k \in claims[StoreOf(c)]

(* The shared store: one process at a time, and none once it is applied.   *)
Shared ==
    store = "database" => \A k \in Keys :
        /\ applied[k] <= 1
        /\ applied[k] = 1 => k \in claims["database"]
        /\ applied[k] = 1 => \A c \in Procs : ~InFlight(c, k)
        /\ \A c, d \in Procs : InFlight(c, k) /\ InFlight(d, k) => c = d

(* A second handling of an order costs a process its memory: a process     *)
(* that claimed it and has it in hand no more counts for one Apply, until  *)
(* a fault takes it away (a crash, or a cancellation that has been counted *)
(* before the process leaves).                                             *)
Holders(k) == {c \in Procs : k \in claims[c] /\ ~InFlight(c, k)}
Stopping == {c \in Procs : canceled[c]}

Own ==
    store = "memory" => \A k \in Keys :
        applied[k] + Cardinality(Stopping) <= Cardinality(Holders(k)) + faults

IInv == Placed /\ Accounted /\ ClaimsStand /\ FlightsHold /\ Shared /\ Own

-----------------------------------------------------------------------------
(* One process's step disturbs nobody else's record in hand. *)
LEMMA Undisturbed ==
  ASSUME Placed, NEW c \in Procs, Step(c) \/ Environment(c), NEW d \in Procs, d # c
  PROVE  /\ pc'[d] = pc[d]
         /\ Working(d) => InHand(d)' = InHand(d)
<1>1. Working(d) => part[d] \in Partitions /\ owner[part[d]] = d
  BY InHandIsRecord
<1>2. CASE /\ \E where : pc' = [pc EXCEPT ![c] = where]
           /\ UNCHANGED <<done, part>>
  BY <1>2 DEF InHand, Placed, ProcessTypes
<1>3. CASE UNCHANGED <<pc, done, part>>
  BY <1>3 DEF InHand
<1>4. CASE Poll(c)
  BY <1>4 DEF Poll, ProcTo, InHand, Placed, ProcessTypes
<1>5. CASE Gone(c)
  BY <1>5, <1>1 DEF Gone, ProcTo, InHand, Placed, ProcessTypes, OffsetTypes
<1>6. ASSUME NEW n, MoveTo(c, n), Working(c)
      PROVE  /\ pc'[d] = pc[d]
             /\ Working(d) => InHand(d)' = InHand(d)
  <2>1. part[c] \in Partitions /\ owner[part[c]] = c
    BY <1>6, InHandIsRecord
  <2>2. done' = [done EXCEPT ![part[c]] = n]
    BY <1>6 DEF MoveTo
  <2>3. pc'[d] = pc[d] /\ part'[d] = part[d]
    BY <1>6 DEF MoveTo, ProcTo, Placed, ProcessTypes
  <2> QED
    BY <1>1, <2>1, <2>2, <2>3 DEF InHand, Placed, OffsetTypes
<1>7. CASE Refuse(c) \/ Duplicate(c) \/ Apply(c) \/ Exhaust(c) \/ AbandonPartition(c)
  <2>1. Working(c) /\ \E n : MoveTo(c, n)
    BY <1>7 DEF Refuse, Duplicate, Apply, Exhaust, AbandonPartition, Claiming, Working,
                DeadLetter, NextRecord
  <2> QED
    BY <2>1, <1>6
<1>8. CASE Claim(c) \/ ClaimFails(c) \/ ApplyFails(c) \/ Release(c) \/ ReleaseFails(c)
           \/ Again(c) \/ Commit(c) \/ CommitFails(c) \/ Restart(c)
  BY <1>2, <1>8 DEF Claim, ClaimFails, ApplyFails, Release, ReleaseFails, Again, Commit,
                    CommitFails, EndBatch, Restart, ProcTo, progress
<1>9. CASE Deliver(c) \/ DeliverFails(c) \/ Sigterm(c)
  BY <1>3, <1>9 DEF Deliver, DeliverFails, Sigterm, progress
<1> QED
  BY <1>4, <1>5, <1>7, <1>8, <1>9 DEF Step, Environment, Leave, Crash

(* What has ended stays ended. *)
LEMMA HistoryGrows ==
  ASSUME Placed, Placed', [ConsumerNext]_consumerVars
  PROVE  /\ sent \subseteq sent' /\ orphaned \subseteq orphaned'
         /\ \A k \in Keys : applied[k] <= applied'[k]
         /\ store' = store
<1>1. \A k \in Keys : applied[k] \in Nat
  BY DEF Placed, StoreTypes
<1>2. CASE UNCHANGED consumerVars
  BY <1>1, <1>2 DEF consumerVars
<1>3. ASSUME NEW p \in Partitions, NEW c \in Procs, Assign(p, c)
      PROVE  UNCHANGED <<store, sent, applied, orphaned>>
  BY <1>3 DEF Assign, effects, letters
<1>4. ASSUME NEW c \in Procs, Step(c) \/ Environment(c)
      PROVE  /\ sent \subseteq sent' /\ orphaned \subseteq orphaned'
             /\ store' = store
             /\ applied' = applied \/ Apply(c)
  BY <1>4 DEF Step, Environment, Poll, Refuse, Claim, Duplicate, ClaimFails, Apply,
              ApplyFails, Release, ReleaseFails, Again, Exhaust, AbandonPartition, Commit,
              CommitFails, Leave, Crash, Gone, Restart, Deliver, DeliverFails, Sigterm,
              DeadLetter, effects, letters
<1>5. ASSUME NEW c \in Procs, Apply(c), NEW k \in Keys
      PROVE  applied[k] <= applied'[k]
  BY <1>5, <1>1 DEF Apply, Placed, StoreTypes
<1> QED
  BY <1>1, <1>2, <1>3, <1>4, <1>5 DEF ConsumerNext

LEMMA FineStaysFine ==
  ASSUME Placed, Placed', [ConsumerNext]_consumerVars, NEW r \in Records, Fine(r)
  PROVE  Fine(r)'
<1>1. Key(r)' = Key(r)
  BY DEF Key
<1>2. Key(r) # Bad => Key(r) \in Keys
  BY KeysAreNotBad
<1>3. Key(r) \in Keys => applied[Key(r)] \in Nat /\ applied'[Key(r)] \in Nat
  BY DEF Placed, StoreTypes
<1> QED
  BY HistoryGrows, <1>1, <1>2, <1>3 DEF Fine, Ended

-----------------------------------------------------------------------------
(* The end of an attempt that finishes the record in hand. *)
Finishes(c) == Refuse(c) \/ Duplicate(c) \/ Apply(c) \/ Exhaust(c)

(* A record is passed by finishing it, never by polling, committing, being *)
(* cancelled, leaving or being assigned a partition.                       *)
LEMMA PastNext ==
  ASSUME Placed, [ConsumerNext]_consumerVars, NEW r \in Records, Past(r)'
  PROVE  Past(r) \/ \E c \in Procs : Finishes(c) /\ r = InHand(c)
<1>1. PICK p \in Partitions, i \in Nat : r = <<p, i>>
  BY OrderConsumerConstants DEF Records
<1>2. /\ owner[p] \in Procs \cup {Nobody} /\ Nobody \notin Procs
      /\ committed[p] \in Nat /\ done[p] \in Nat /\ pos[p] \in Nat
      /\ committed[p] <= done[p]
  BY OrderConsumerConstants DEF Placed, OffsetTypes
<1>3. Past(r) <=> \/ i <= committed[p]
                  \/ owner[p] # Nobody /\ ~canceled[owner[p]] /\ i <= done[p]
  BY <1>1 DEF Past, Committed
<1>4. \/ i <= committed'[p]
      \/ owner'[p] # Nobody /\ ~canceled'[owner'[p]] /\ i <= done'[p]
  BY <1>1 DEF Past, Committed
<1>5. CASE UNCHANGED <<owner, committed, canceled, done>>
  BY <1>3, <1>4, <1>5
<1>6. ASSUME NEW q \in Partitions, NEW c \in Procs, Assign(q, c)
      PROVE  Past(r)
  BY <1>6, <1>2, <1>3, <1>4 DEF Assign, progress, Placed, OffsetTypes, Unowned
<1>7. ASSUME NEW c \in Procs, Commit(c) \/ CommitFails(c)
      PROVE  Past(r)
  <2>1. CASE Commit(c) /\ p \in batch[c]
    <3>1. /\ pc[c] = "commit" /\ ~canceled[c]
          /\ committed'[p] = pos[p] /\ done' = done /\ owner' = owner /\ canceled' = canceled
      BY <2>1 DEF Commit, MayCommit
    <3>2. owner[p] = c /\ done[p] = pos[p]
      BY <2>1, <3>1 DEF Placed, AtCommit, BatchesOwned
    <3> QED
      BY <3>1, <3>2, <1>2, <1>3, <1>4
  <2>2. CASE ~(Commit(c) /\ p \in batch[c])
    BY <2>2, <1>3, <1>4, <1>7 DEF Commit, CommitFails, kafka
  <2> QED
    BY <2>1, <2>2
<1>8. ASSUME NEW c \in Procs, Gone(c)
      PROVE  Past(r)
  BY <1>8, <1>2, <1>3, <1>4 DEF Gone, Placed, ProcessTypes
<1>9. ASSUME NEW c \in Procs, Sigterm(c)
      PROVE  Past(r)
  BY <1>9, <1>2, <1>3, <1>4 DEF Sigterm, kafka, progress, Placed, ProcessTypes
<1>10. ASSUME NEW c \in Procs, NEW n \in Nat, MoveTo(c, n), Working(c),
              UNCHANGED <<kafka, canceled>>,
              \/ canceled[c]
              \/ n = done[part[c]] + 1
       PROVE  Past(r) \/ (~canceled[c] /\ r = InHand(c))
  <2>1. part[c] \in Partitions /\ owner[part[c]] = c
    BY <1>10, InHandIsRecord
  <2>2. /\ done' = [done EXCEPT ![part[c]] = n]
        /\ owner' = owner /\ committed' = committed /\ canceled' = canceled
    BY <1>10 DEF MoveTo, kafka
  <2>3. CASE p # part[c]
    BY <2>1, <2>2, <2>3, <1>3, <1>4 DEF Placed, OffsetTypes
  <2>4. CASE p = part[c]
    <3>1. done'[p] = n /\ owner[p] = c
      BY <2>1, <2>2, <2>4 DEF Placed, OffsetTypes
    <3>2. CASE i <= committed[p] \/ canceled[c] \/ i <= done[p]
      BY <3>1, <3>2, <2>2, <1>2, <1>3, <1>4
    <3>3. CASE ~(i <= committed[p]) /\ ~canceled[c] /\ ~(i <= done[p])
      <4>1. i <= done[p] + 1
        BY <3>1, <3>3, <2>2, <2>4, <1>4, <1>10
      <4>2. i = done[p] + 1
        BY <4>1, <3>3, <1>2
      <4> QED
        BY <4>2, <3>3, <2>4, <1>1 DEF InHand
    <3> QED
      BY <3>2, <3>3
  <2> QED
    BY <2>3, <2>4
<1>11. ASSUME NEW c \in Procs, Finishes(c) \/ AbandonPartition(c)
       PROVE  Past(r) \/ (Finishes(c) /\ r = InHand(c))
  <2>1. Working(c) /\ UNCHANGED <<kafka, canceled>>
    BY <1>11 DEF Finishes, Refuse, Duplicate, Apply, Exhaust, AbandonPartition, Claiming,
                 Working
  <2>2. done[part[c]] + 1 \in Nat /\ pos[part[c]] \in Nat
    BY <2>1, InHandIsRecord
  <2>3. CASE Finishes(c)
    <3>1. MoveTo(c, done[part[c]] + 1)
      BY <2>3 DEF Finishes, Refuse, Duplicate, Apply, Exhaust, DeadLetter, NextRecord
    <3> QED
      BY <3>1, <2>1, <2>2, <2>3, <1>10
  <2>4. CASE AbandonPartition(c)
    <3>1. MoveTo(c, pos[part[c]]) /\ canceled[c]
      BY <2>4 DEF AbandonPartition
    <3> QED
      BY <3>1, <2>1, <2>2, <1>10
  <2> QED
    BY <1>11, <2>3, <2>4
<1>12. ASSUME NEW c \in Procs,
              Poll(c) \/ Claim(c) \/ ClaimFails(c) \/ ApplyFails(c) \/ Release(c)
              \/ ReleaseFails(c) \/ Again(c) \/ Restart(c) \/ Deliver(c) \/ DeliverFails(c)
       PROVE  Past(r)
  <2>1. UNCHANGED <<owner, committed, canceled, done>>
    BY <1>12 DEF Poll, Claim, ClaimFails, ApplyFails, Release, ReleaseFails, Again,
                 Restart, Deliver, DeliverFails, kafka, progress
  <2> QED
    BY <2>1, <1>3, <1>4
<1>13. CASE UNCHANGED consumerVars
  <2>1. UNCHANGED <<owner, committed, canceled, done>>
    BY <1>13 DEF consumerVars
  <2> QED
    BY <2>1, <1>5
<1> QED
  BY <1>6, <1>7, <1>8, <1>9, <1>11, <1>12, <1>13
     DEF ConsumerNext, Step, Environment, Leave, Crash, Finishes

(* A finished record is fine, or somebody else has its order in hand: this *)
(* is where a duplicate is told from a record that was handled.            *)
LEMMA FinishedIsAccounted ==
  ASSUME IInv, Placed', [ConsumerNext]_consumerVars, NEW c \in Procs, Finishes(c)
  PROVE  \E h \in Records :
            /\ h = InHand(c)
            /\ \/ Fine(h)'
               \/ Key(h) # Bad /\ \E s \in Records : Key(s) = Key(h) /\ ~Past(s) /\ s # h
<1>1. Working(c) /\ (pc[c] = "claim" \/ ~Duplicate(c))
  BY DEF Finishes, Refuse, Duplicate, Apply, Exhaust, Claiming, Working
<1>2. PICK h \in Records : h = InHand(c)
  BY <1>1, InHandIsRecord DEF IInv
<1> USE DEF IInv
<1>3. CASE Refuse(c) \/ Exhaust(c)
  <2>1. h \in sent' /\ Key(h)' = Key(h)
    BY <1>2, <1>3 DEF Refuse, Exhaust, DeadLetter, Key
  <2>2. Ended(h)'
    BY <2>1 DEF Ended, Placed, LetterTypes
  <2> QED
    BY <1>2, <2>2 DEF Fine
<1>4. CASE Apply(c)
  <2>1. Key(h) # Bad
    BY <1>2, <1>4 DEF Apply, Placed, RecordsInHand, Holding
  <2>2. Key(h) \in Keys /\ applied[Key(h)] \in Nat
    BY <2>1, KeysAreNotBad DEF Placed, StoreTypes
  <2>3. applied'[Key(h)] = applied[Key(h)] + 1 /\ Key(h)' = Key(h)
    BY <1>2, <1>4, <2>2 DEF Apply, Placed, StoreTypes, Key
  <2>4. Ended(h)'
    BY <2>1, <2>2, <2>3 DEF Ended
  <2> QED
    BY <1>2, <2>4 DEF Fine
<1>5. CASE Duplicate(c)
  <2>1. Key(h) # Bad /\ Key(h) \in claims[StoreOf(c)] /\ pc[c] = "claim"
    BY <1>2, <1>5 DEF Duplicate, Claiming, Claimed
  <2>2. StoreOf(c) \in Procs \cup {"database"} /\ Key(h) \in Keys
    BY <2>1, KeysAreNotBad DEF StoreOf
  <2>3. CASE applied[Key(h)] > 0 \/ Key(h) \in orphaned
    <3>1. Fine(h)
      BY <2>1, <2>3 DEF Fine, Ended
    <3> QED
      BY <1>2, <3>1, FineStaysFine
  <2>4. ASSUME NEW d \in Procs, InFlight(d, Key(h))
        PROVE  \E s \in Records : Key(s) = Key(h) /\ ~Past(s) /\ s # h
    <3>1. d # c /\ Working(d)
      BY <2>1, <2>4 DEF InFlight, Working
    <3>2. /\ InHand(d) \in Records /\ part[d] \in Partitions /\ owner[part[d]] = d
          /\ done[part[d]] \in Nat /\ ~Committed(InHand(d))
          /\ owner[part[c]] = c
      BY <1>1, <3>1, InHandIsRecord
    <3>3. ~Past(InHand(d))
      BY <3>2 DEF Past, InHand
    <3>4. InHand(d) # InHand(c)
      BY <3>1, <3>2 DEF InHand
    <3> QED
      BY <1>2, <2>4, <3>2, <3>3, <3>4 DEF InFlight
  <2> QED
    BY <1>2, <2>1, <2>2, <2>3, <2>4 DEF ClaimsStand
<1> QED
  BY <1>3, <1>4, <1>5 DEF Finishes

(* A step finishes the record of one process. *)
LEMMA OneFinishes ==
  ASSUME Placed, NEW c \in Procs, NEW d \in Procs, Finishes(c), Finishes(d)
  PROVE  c = d
<1>1. ASSUME NEW e \in Procs, Finishes(e)
      PROVE  /\ part[e] \in Partitions /\ owner[part[e]] = e
             /\ done' = [done EXCEPT ![part[e]] = done[part[e]] + 1]
             /\ done[part[e]] \in Nat
  <2>1. Working(e) /\ MoveTo(e, done[part[e]] + 1)
    BY <1>1 DEF Finishes, Refuse, Duplicate, Apply, Exhaust, Claiming, Working, DeadLetter,
                NextRecord
  <2> QED
    BY <2>1, InHandIsRecord DEF MoveTo
<1>2. SUFFICES ASSUME c # d PROVE FALSE
  OBVIOUS
<1>3. part[c] # part[d]
  BY <1>1, <1>2
<1>4. done'[part[d]] = done[part[d]] + 1 /\ done'[part[d]] = done[part[d]]
  BY <1>1, <1>3 DEF Placed, OffsetTypes
<1> QED
  BY <1>1, <1>4

LEMMA AccountedNext ==
  ASSUME IInv, Placed', [ConsumerNext]_consumerVars
  PROVE  Accounted'
<1> SUFFICES ASSUME NEW r \in Records, Past(r)'
             PROVE  \/ Fine(r)'
                    \/ Key(r) # Bad /\ \E s \in Records : Key(s) = Key(r) /\ ~Past(s)'
  BY DEF Accounted, Key
<1>1. Placed /\ Accounted
  BY DEF IInv
<1>2. \A s \in Records : Past(s)' => Past(s) \/ \E c \in Procs : Finishes(c) /\ s = InHand(c)
  BY <1>1, PastNext
<1>3. \A s \in Records : Fine(s) => Fine(s)'
  BY <1>1, FineStaysFine
(* Finishing a record does not leave the others under its key in the air.  *)
<1>4. ASSUME NEW c \in Procs, Finishes(c), Key(InHand(c)) = Key(r), Key(r) # Bad \/ r = InHand(c)
      PROVE  \/ Fine(r)'
             \/ Key(r) # Bad /\ \E s \in Records : Key(s) = Key(r) /\ ~Past(s)'
  <2>1. PICK h \in Records :
          /\ h = InHand(c)
          /\ \/ Fine(h)'
             \/ Key(h) # Bad /\ \E s \in Records : Key(s) = Key(h) /\ ~Past(s) /\ s # h
    BY <1>4, FinishedIsAccounted
  <2>2. CASE Fine(h)'
    BY <2>1, <2>2, <1>4 DEF Fine, Ended, Key
  <2>3. ASSUME NEW s \in Records, Key(s) = Key(h), ~Past(s), s # h
        PROVE  ~Past(s)'
    <3>1. \A d \in Procs : Finishes(d) => d = c
      BY <1>1, <1>4, OneFinishes
    <3> QED
      BY <2>1, <2>3, <3>1, <1>2
  <2> QED
    BY <2>1, <2>2, <2>3, <1>4
<1>5. CASE \E c \in Procs : Finishes(c) /\ r = InHand(c)
  BY <1>4, <1>5
<1>6. CASE Past(r)
  <2>1. CASE Fine(r)
    BY <2>1, <1>3
  <2>2. ASSUME Key(r) # Bad, NEW s \in Records, Key(s) = Key(r), ~Past(s)
        PROVE  \/ Fine(r)'
               \/ \E t \in Records : Key(t) = Key(r) /\ ~Past(t)'
    <3>1. CASE ~Past(s)'
      BY <3>1, <2>2
    <3>2. CASE Past(s)'
      BY <3>2, <2>2, <1>2, <1>4
    <3> QED
      BY <3>1, <3>2
  <2> QED
    BY <1>1, <1>6, <2>1, <2>2 DEF Accounted
<1> QED
  BY <1>2, <1>5, <1>6

-----------------------------------------------------------------------------
Lands(c) == Apply(c) \/ Release(c) \/ ReleaseFails(c) \/ Crash(c)

(* Orders get into the air by a Claim and out of it by the end of the      *)
(* attempt, each in the process that steps.                                *)
LEMMA FlightsNext ==
  ASSUME Placed, NEW c \in Procs, Step(c) \/ Environment(c), NEW d \in Procs, NEW k
  PROVE  /\ d # c => (InFlight(d, k)' <=> InFlight(d, k))
         /\ Claim(c) => ~InFlight(c, k) /\ (InFlight(c, k)' <=> k = Key(InHand(c)))
         /\ Lands(c) => ~InFlight(c, k)'
         /\ ~Claim(c) /\ ~Lands(c) => (InFlight(c, k)' <=> InFlight(c, k))
<1>1. d # c => (InFlight(d, k)' <=> InFlight(d, k))
  <2>1. CASE d # c /\ pc[d] \in {"apply", "release"}
    <3>1. pc'[d] = pc[d] /\ InHand(d)' = InHand(d)
      BY <2>1, Undisturbed DEF Working
    <3> QED
      BY <3>1 DEF InFlight, Key
  <2>2. CASE d # c /\ pc[d] \notin {"apply", "release"}
    BY <2>2, Undisturbed DEF InFlight
  <2> QED
    BY <2>1, <2>2
<1>2. Claim(c) => ~InFlight(c, k) /\ (InFlight(c, k)' <=> k = Key(InHand(c)))
  <2>1. SUFFICES ASSUME Claim(c)
                 PROVE  ~InFlight(c, k) /\ (InFlight(c, k)' <=> k = Key(InHand(c)))
    OBVIOUS
  <2>2. pc[c] = "claim" /\ pc'[c] = "apply" /\ UNCHANGED <<part, done>>
    BY <2>1 DEF Claim, Claiming, ProcTo, progress, Placed, ProcessTypes
  <2> QED
    BY <2>2 DEF InFlight, InHand, Key
<1>3. Lands(c) => ~InFlight(c, k)'
  <2>1. Lands(c) => pc'[c] \in {"claim", "commit", "backoff", "down"}
    BY DEF Lands, Apply, NextRecord, MoveTo, Release, ReleaseFails, Crash, Gone, ProcTo, Placed,
           ProcessTypes
  <2> QED
    BY <2>1 DEF InFlight
<1>4. ASSUME ~Claim(c), ~Lands(c)
      PROVE  InFlight(c, k)' <=> InFlight(c, k)
  <2>1. CASE UNCHANGED <<pc, part, done>>
    BY <2>1 DEF InFlight, InHand, Key
  <2>2. CASE ApplyFails(c)
    <3>1. pc[c] = "apply" /\ pc'[c] = "release" /\ UNCHANGED <<part, done>>
      BY <2>2 DEF ApplyFails, ProcTo, progress, Placed, ProcessTypes
    <3> QED
      BY <3>1 DEF InFlight, InHand, Key
  <2>3. CASE pc[c] \notin {"apply", "release"} /\ pc'[c] \notin {"apply", "release"}
    BY <2>3 DEF InFlight
  <2>4. CASE Poll(c) \/ Refuse(c) \/ Duplicate(c) \/ ClaimFails(c) \/ Again(c) \/ Exhaust(c)
             \/ AbandonPartition(c) \/ Commit(c) \/ CommitFails(c) \/ Leave(c) \/ Restart(c)
    BY <2>3, <2>4 DEF Poll, Refuse, Duplicate, ClaimFails, Again, Exhaust, AbandonPartition,
                Commit, CommitFails, Leave, Restart, Gone, EndBatch, DeadLetter, NextRecord,
                MoveTo, ProcTo, Claiming, Placed, ProcessTypes
  <2>5. CASE Deliver(c) \/ DeliverFails(c) \/ Sigterm(c)
    <3>1. UNCHANGED <<pc, part, done>>
      BY <2>5 DEF Deliver, DeliverFails, Sigterm, progress
    <3> QED
      BY <3>1 DEF InFlight, InHand, Key
  <2> QED
    BY <1>4, <2>2, <2>4, <2>5 DEF Step, Environment, Lands
<1> QED
  BY <1>1, <1>2, <1>3, <1>4

(* Only a claim, a release and the end of a process change a store. *)
LEMMA ClaimsNext ==
  ASSUME NEW c \in Procs, Step(c) \/ Environment(c)
  PROVE  \/ claims' = claims
         \/ Claim(c) \/ Release(c) \/ Gone(c)
  BY DEF Step, Environment, Poll, Refuse, Duplicate, ClaimFails, Apply, ClaimsAfterApply,
         ApplyFails, ReleaseFails, Again, Exhaust, AbandonPartition, Commit, CommitFails,
         Leave, Crash, Restart, Deliver, DeliverFails, Sigterm

LEMMA StoreIsFree ==
  ASSUME NEW c \in Procs
  PROVE  /\ "database" \notin Procs
         /\ StoreOf(c) \in Procs \cup {"database"}
         /\ store = "memory" => StoreOf(c) = c
         /\ store # "memory" => StoreOf(c) = "database"
  BY OrderConsumerConstants DEF StoreOf

LEMMA ClaimsStandNext ==
  ASSUME IInv, Placed', [ConsumerNext]_consumerVars
  PROVE  ClaimsStand'
<1> USE DEF IInv
<1>1. /\ store' = store /\ orphaned \subseteq orphaned'
      /\ \A k \in Keys : applied[k] \in Nat /\ applied'[k] \in Nat /\ applied[k] <= applied'[k]
  BY HistoryGrows DEF Placed, StoreTypes
<1>2. \A d \in Procs : StoreOf(d)' = StoreOf(d)
  BY <1>1 DEF StoreOf
<1> SUFFICES ASSUME NEW s \in Procs \cup {"database"}, NEW k \in claims'[s]
             PROVE  \/ applied'[k] > 0
                    \/ k \in orphaned'
                    \/ \E d \in Procs : StoreOf(d) = s /\ InFlight(d, k)'
  BY <1>2 DEF ClaimsStand
<1>3. k \in Keys
  BY DEF Placed, StoreTypes
<1>4. CASE claims' = claims /\ \A d \in Procs : InFlight(d, k)' <=> InFlight(d, k)
  BY <1>1, <1>3, <1>4 DEF ClaimsStand
<1>5. CASE UNCHANGED consumerVars
  BY <1>4, <1>5 DEF consumerVars, InFlight, InHand, Key
<1>6. ASSUME NEW p \in Partitions, NEW c \in Procs, Assign(p, c)
      PROVE  claims' = claims /\ \A d \in Procs : InFlight(d, k)' <=> InFlight(d, k)
  BY <1>6 DEF Assign, progress, InFlight, InHand, Key
<1>7. ASSUME NEW c \in Procs, Step(c) \/ Environment(c)
      PROVE  \/ applied'[k] > 0
             \/ k \in orphaned'
             \/ \E d \in Procs : StoreOf(d) = s /\ InFlight(d, k)'
  <2>1. CASE k \notin claims[s]
    <3>1. Claim(c) /\ s = StoreOf(c) /\ k = Key(InHand(c))
      BY <1>7, <2>1, ClaimsNext DEF Claim, Release, Gone, Placed, StoreTypes
    <3> QED
      BY <1>7, <3>1, FlightsNext
  <2>2. CASE k \in claims[s]
    <3>1. CASE applied[k] > 0 \/ k \in orphaned
      BY <1>1, <1>3, <3>1
    <3>2. ASSUME NEW d \in Procs, StoreOf(d) = s, InFlight(d, k)
          PROVE  \/ applied'[k] > 0
                 \/ k \in orphaned'
                 \/ InFlight(d, k)'
      <4>1. CASE d # c
        BY <1>7, <3>2, <4>1, FlightsNext
      <4>2. CASE d = c /\ Apply(c)
        BY <1>1, <1>3, <3>2, <4>2 DEF Apply, InFlight, Placed, StoreTypes
      <4>3. CASE d = c /\ Release(c)
        BY <3>2, <4>3 DEF Release, InFlight, Placed, StoreTypes
      <4>4. CASE d = c /\ ReleaseFails(c)
        BY <3>2, <4>4 DEF ReleaseFails, InFlight
      <4>5. CASE d = c /\ Crash(c)
        <5>1. CASE store = "memory"
          <6>1. claims'[c] = {} /\ s = c
            BY <3>2, <4>5, <5>1, StoreIsFree DEF Crash, Gone, Placed, StoreTypes
          <6> QED
            BY <6>1
        <5>2. CASE store = "database"
          BY <3>2, <4>5, <5>2 DEF Crash, InFlight
        <5> QED
          BY <5>1, <5>2 DEF Placed, StoreTypes
      <4>6. CASE d = c /\ ~Claim(c) /\ ~Lands(c)
        BY <1>7, <3>2, <4>6, FlightsNext
      <4>7. CASE d = c /\ Claim(c)
        BY <1>7, <3>2, <4>7, FlightsNext
      <4> QED
        BY <4>1, <4>2, <4>3, <4>4, <4>5, <4>6, <4>7 DEF Lands
    <3> QED
      BY <2>2, <3>1, <3>2 DEF ClaimsStand
  <2> QED
    BY <2>1, <2>2
<1> QED
  BY <1>4, <1>5, <1>6, <1>7 DEF ConsumerNext

LEMMA FlightsHoldNext ==
  ASSUME IInv, Placed', [ConsumerNext]_consumerVars
  PROVE  FlightsHold'
<1> USE DEF IInv
<1>1. store' = store /\ \A d \in Procs : StoreOf(d)' = StoreOf(d)
  BY HistoryGrows DEF StoreOf
<1> SUFFICES ASSUME NEW d \in Procs, NEW k \in Keys, InFlight(d, k)'
             PROVE  k \in claims'[StoreOf(d)]
  BY <1>1 DEF FlightsHold
<1>2. CASE claims' = claims /\ InFlight(d, k)
  BY <1>2 DEF FlightsHold
<1>3. CASE UNCHANGED consumerVars
  BY <1>2, <1>3 DEF consumerVars, InFlight, InHand, Key
<1>4. ASSUME NEW p \in Partitions, NEW c \in Procs, Assign(p, c)
      PROVE  claims' = claims /\ InFlight(d, k)
  BY <1>4 DEF Assign, progress, InFlight, InHand, Key
<1>5. ASSUME NEW c \in Procs, Step(c) \/ Environment(c)
      PROVE  k \in claims'[StoreOf(d)]
  <2>1. CASE Claim(c)
    <3>1. claims' = [claims EXCEPT ![StoreOf(c)] = @ \cup {Key(InHand(c))}]
      BY <2>1 DEF Claim
    <3>2. (d = c /\ k = Key(InHand(c))) \/ InFlight(d, k)
      BY <1>5, <2>1, FlightsNext
    <3> QED
      BY <3>1, <3>2, StoreIsFree DEF FlightsHold, Placed, StoreTypes
  <2>2. CASE ~Claim(c)
    <3>1. InFlight(d, k) /\ (d = c => ~Lands(c))
      BY <1>5, <2>2, FlightsNext
    <3>2. k \in claims[StoreOf(d)]
      BY <3>1 DEF FlightsHold
    <3>3. CASE Release(c)
      <4>1. d # c /\ pc[c] = "release"
            /\ claims' = [claims EXCEPT ![StoreOf(c)] = @ \ {Key(InHand(c))}]
        BY <3>1, <3>3 DEF Lands, Release
      <4>2. CASE k # Key(InHand(c))
        BY <3>2, <4>1, <4>2, StoreIsFree DEF Placed, StoreTypes
      <4>3. CASE k = Key(InHand(c))
        <5>1. InFlight(c, k)
          BY <4>1, <4>3 DEF InFlight
        <5>2. store # "database"
          BY <3>1, <4>1, <5>1 DEF Shared
        <5>3. StoreOf(c) = c /\ StoreOf(d) = d
          BY <5>2, StoreIsFree DEF Placed, StoreTypes
        <5> QED
          BY <3>2, <4>1, <5>3 DEF Placed, StoreTypes
      <4> QED
        BY <4>2, <4>3
    <3>4. CASE Gone(c)
      <4>1. d # c /\ claims' = [claims EXCEPT ![c] = {}]
        <5>1. pc'[c] = "down" /\ claims' = [claims EXCEPT ![c] = {}]
          BY <3>4 DEF Gone, ProcTo, Placed, ProcessTypes
        <5> QED
          BY <5>1 DEF InFlight
      <4>2. StoreOf(d) # c
        BY <4>1, StoreIsFree DEF Placed, StoreTypes
      <4> QED
        BY <3>2, <4>1, <4>2, StoreIsFree DEF Placed, StoreTypes
    <3> QED
      BY <1>5, <2>2, <3>2, <3>3, <3>4, ClaimsNext
  <2> QED
    BY <2>1, <2>2
<1> QED
  BY <1>2, <1>3, <1>4, <1>5 DEF ConsumerNext

LEMMA SharedNext ==
  ASSUME IInv, Placed', [ConsumerNext]_consumerVars
  PROVE  Shared'
<1> USE DEF IInv
<1>1. store' = store
  BY HistoryGrows
<1> SUFFICES ASSUME store = "database", NEW k \in Keys
             PROVE  /\ applied'[k] <= 1
                    /\ applied'[k] = 1 => k \in claims'["database"]
                    /\ applied'[k] = 1 => \A c \in Procs : ~InFlight(c, k)'
                    /\ \A c, d \in Procs : InFlight(c, k)' /\ InFlight(d, k)' => c = d
  BY <1>1 DEF Shared
<1>2. /\ applied[k] \in Nat /\ applied[k] <= 1
      /\ applied[k] = 1 => k \in claims["database"]
      /\ applied[k] = 1 => \A c \in Procs : ~InFlight(c, k)
      /\ \A c, d \in Procs : InFlight(c, k) /\ InFlight(d, k) => c = d
  BY DEF Shared, Placed, StoreTypes
<1>3. \A c \in Procs : InFlight(c, k) => k \in claims["database"]
  BY StoreIsFree DEF FlightsHold
<1>4. CASE UNCHANGED <<claims, applied>> /\ \A d \in Procs : InFlight(d, k)' => InFlight(d, k)
  BY <1>2, <1>4
<1>5. CASE UNCHANGED consumerVars
  <2>1. UNCHANGED <<claims, applied>> /\ \A d \in Procs : InFlight(d, k)' => InFlight(d, k)
    BY <1>5 DEF consumerVars, InFlight, InHand, Key
  <2> QED
    BY <2>1, <1>4
<1>6. ASSUME NEW p \in Partitions, NEW c \in Procs, Assign(p, c)
      PROVE  UNCHANGED <<claims, applied>> /\ \A d \in Procs : InFlight(d, k)' => InFlight(d, k)
  BY <1>6 DEF Assign, progress, effects, InFlight, InHand, Key
<1>7. ASSUME NEW c \in Procs, Step(c) \/ Environment(c)
      PROVE  /\ applied'[k] <= 1
             /\ applied'[k] = 1 => k \in claims'["database"]
             /\ applied'[k] = 1 => \A d \in Procs : ~InFlight(d, k)'
             /\ \A d, e \in Procs : InFlight(d, k)' /\ InFlight(e, k)' => d = e
  <2>1. \A d \in Procs : InFlight(d, k)' =>
            InFlight(d, k) \/ (Claim(c) /\ d = c /\ k = Key(InHand(c)))
    BY <1>7, FlightsNext
  <2>2. applied' = applied \/ Apply(c)
    BY <1>7 DEF Step, Environment, Poll, Refuse, Claim, Duplicate, ClaimFails, ApplyFails,
                Release, ReleaseFails, Again, Exhaust, AbandonPartition, Commit, CommitFails,
                Leave, Crash, Gone, Restart, Deliver, DeliverFails, Sigterm, DeadLetter,
                effects, letters
  <2>3. CASE Claim(c)
    <3>1. /\ Key(InHand(c)) \notin claims["database"] /\ applied' = applied
          /\ claims' = [claims EXCEPT !["database"] = @ \cup {Key(InHand(c))}]
      BY <2>3, StoreIsFree DEF Claim, Claimed, effects
    <3> QED
      BY <1>2, <1>3, <2>1, <3>1 DEF Placed, StoreTypes
  <2>4. CASE Apply(c)
    <3>1. /\ pc[c] = "apply" /\ claims' = claims
          /\ applied' = [applied EXCEPT ![Key(InHand(c))] = @ + 1]
      BY <2>4 DEF Apply, ClaimsAfterApply
    <3>2. ~InFlight(c, k)'
      BY <1>7, <2>4, FlightsNext DEF Lands
    <3>3. ~Claim(c)
      BY <3>1 DEF Claim, Claiming
    <3>4. CASE k = Key(InHand(c))
      <4>1. InFlight(c, k)
        BY <3>1, <3>4 DEF InFlight
      <4>2. applied[k] = 0 /\ k \in claims["database"]
        BY <4>1, <1>2, <1>3
      <4>3. applied'[k] = 1
        BY <3>1, <3>4, <4>2 DEF Placed, StoreTypes
      <4> QED
        BY <1>2, <2>1, <3>1, <3>2, <3>3, <4>1, <4>2, <4>3
    <3>5. CASE k # Key(InHand(c))
      <4>1. applied'[k] = applied[k]
        BY <3>1, <3>5 DEF Placed, StoreTypes
      <4> QED
        BY <1>2, <2>1, <3>1, <3>3, <4>1
    <3> QED
      BY <3>4, <3>5
  <2>5. CASE ~Claim(c) /\ ~Apply(c)
    <3>1. applied' = applied
      BY <2>2, <2>5
    <3>2. applied[k] = 1 => k \in claims'["database"]
      <4>1. CASE claims' = claims
        BY <1>2, <4>1
      <4>2. CASE Gone(c)
        BY <1>2, <4>2, StoreIsFree DEF Gone, Placed, StoreTypes
      <4>3. CASE Release(c)
        <5>1. pc[c] = "release" /\ claims' = [claims EXCEPT !["database"] = @ \ {Key(InHand(c))}]
          BY <4>3, StoreIsFree DEF Release
        <5>2. applied[k] = 1 => k # Key(InHand(c))
          BY <1>2, <5>1 DEF InFlight
        <5> QED
          BY <1>2, <5>1, <5>2 DEF Placed, StoreTypes
      <4> QED
        BY <1>7, <2>5, <4>1, <4>2, <4>3, ClaimsNext
    <3> QED
      BY <1>2, <2>1, <2>5, <3>1, <3>2
  <2> QED
    BY <2>3, <2>4, <2>5
<1> QED
  BY <1>4, <1>5, <1>6, <1>7 DEF ConsumerNext

LEMMA CountsOfProcesses ==
  ASSUME NEW A \in SUBSET Procs, NEW B \in SUBSET Procs
  PROVE  /\ Cardinality(A) \in Nat
         /\ A \subseteq B => Cardinality(A) <= Cardinality(B)
         /\ \A x \in Procs : A \subseteq B \cup {x} => Cardinality(A) <= Cardinality(B) + 1
         /\ \A x \in A : A \ {x} = B => Cardinality(B) + 1 = Cardinality(A)
<1>1. IsFiniteSet(A) /\ IsFiniteSet(B)
  BY FS_Subset, OrderConsumerConstants
<1>2. Cardinality(A) \in Nat /\ Cardinality(B) \in Nat
  BY <1>1, FS_CardinalityType
<1>3. A \subseteq B => Cardinality(A) <= Cardinality(B)
  BY <1>1, FS_Subset
<1>4. ASSUME NEW x \in Procs, A \subseteq B \cup {x}
      PROVE  Cardinality(A) <= Cardinality(B) + 1
  <2>1. IsFiniteSet(B \cup {x}) /\ Cardinality(B \cup {x}) <= Cardinality(B) + 1
    <3>1. /\ IsFiniteSet(B \cup {x})
          /\ Cardinality(B \cup {x}) =
                IF x \in B THEN Cardinality(B) ELSE Cardinality(B) + 1
      BY <1>1, FS_AddElement
    <3> QED
      BY <3>1, <1>2
  <2>2. Cardinality(A) <= Cardinality(B \cup {x}) /\ Cardinality(B \cup {x}) \in Nat
    BY <2>1, <1>4, FS_Subset, FS_CardinalityType
  <2> QED
    BY <2>1, <2>2, <1>2
<1>5. ASSUME NEW x \in A, A \ {x} = B
      PROVE  Cardinality(B) + 1 = Cardinality(A)
  <2>1. Cardinality(A \ {x}) = Cardinality(A) - 1
    BY <1>1, FS_RemoveElement
  <2> QED
    BY <2>1, <1>2, <1>5
<1> QED
  BY <1>2, <1>3, <1>4, <1>5

(* A process that stays keeps what it holds. *)
LEMMA HoldersStay ==
  ASSUME IInv, NEW c \in Procs, Step(c) \/ Environment(c), store = "memory", NEW k \in Keys
  PROVE  /\ ~Gone(c) => Holders(k) \subseteq Holders(k)'
         /\ Gone(c) => Holders(k) \subseteq Holders(k)' \cup {c}
<1> USE DEF IInv
<1>1. StoreOf(c) = c /\ c \in Procs \cup {"database"}
  BY StoreIsFree
<1>2. ASSUME NEW d \in Procs, d # c, d \in Holders(k)
      PROVE  d \in Holders(k)'
  <2>1. k \in claims[d] /\ ~InFlight(d, k)'
    BY <1>2, FlightsNext DEF Holders
  <2>2. claims'[d] = claims[d]
    BY <1>1, <1>2, ClaimsNext DEF Claim, Release, Gone, Placed, StoreTypes
  <2> QED
    BY <2>1, <2>2 DEF Holders
<1>3. ASSUME c \in Holders(k), ~Gone(c)
      PROVE  c \in Holders(k)'
  <2>1. k \in claims[c] /\ ~InFlight(c, k)
    BY <1>3 DEF Holders
  <2>2. CASE Claim(c)
    <3>1. k # Key(InHand(c))
      BY <1>1, <2>1, <2>2 DEF Claim, Claimed
    <3>2. ~InFlight(c, k)' /\ k \in claims'[c]
      BY <1>1, <2>1, <2>2, <3>1, FlightsNext DEF Claim, Placed, StoreTypes
    <3> QED
      BY <3>2 DEF Holders
  <2>3. CASE ~Claim(c)
    <3>1. ~InFlight(c, k)'
      BY <2>1, <2>3, FlightsNext
    <3>2. k \in claims'[c]
      <4>1. CASE Release(c)
        <5>1. pc[c] = "release" /\ claims' = [claims EXCEPT ![c] = @ \ {Key(InHand(c))}]
          BY <1>1, <4>1 DEF Release
        <5>2. k # Key(InHand(c))
          BY <2>1, <5>1 DEF InFlight
        <5> QED
          BY <2>1, <5>1, <5>2 DEF Placed, StoreTypes
      <4> QED
        BY <2>1, <2>3, <1>3, <4>1, ClaimsNext
    <3> QED
      BY <3>1, <3>2 DEF Holders
  <2> QED
    BY <2>2, <2>3
<1> QED
  BY <1>2, <1>3 DEF Holders

LEMMA OwnNext ==
  ASSUME IInv, Placed', [ConsumerNext]_consumerVars
  PROVE  Own'
<1> USE DEF IInv
<1>1. store' = store
  BY HistoryGrows
<1> SUFFICES ASSUME store = "memory", NEW k \in Keys
             PROVE  applied'[k] + Cardinality(Stopping') <= Cardinality(Holders(k)') + faults'
  BY <1>1 DEF Own
<1>2. PICK S, S1, H, H1 \in SUBSET Procs :
        S = Stopping /\ S1 = Stopping' /\ H = Holders(k) /\ H1 = Holders(k)'
  BY DEF Stopping, Holders
<1>3. /\ Cardinality(S) \in Nat /\ Cardinality(S1) \in Nat
      /\ Cardinality(H) \in Nat /\ Cardinality(H1) \in Nat
  BY CountsOfProcesses
<1>4. /\ applied[k] \in Nat /\ faults \in Nat
      /\ applied[k] + Cardinality(S) <= Cardinality(H) + faults
  BY <1>2 DEF Own, Placed, StoreTypes
<1> SUFFICES applied'[k] + Cardinality(S1) <= Cardinality(H1) + faults'
  BY <1>2
<1>5. CASE UNCHANGED <<applied, canceled, faults, claims>> /\ H1 = H
  <2>1. S1 = S
    BY <1>2, <1>5 DEF Stopping
  <2> QED
    BY <2>1, <1>4, <1>5
<1>6. CASE UNCHANGED consumerVars
  <2>1. UNCHANGED <<applied, canceled, faults, claims>> /\ H1 = H
    BY <1>2, <1>6 DEF consumerVars, Holders, InFlight, InHand, Key
  <2> QED
    BY <2>1, <1>5
<1>7. ASSUME NEW p \in Partitions, NEW c \in Procs, Assign(p, c)
      PROVE  UNCHANGED <<applied, canceled, faults, claims>> /\ H1 = H
  BY <1>2, <1>7 DEF Assign, progress, effects, Holders, InFlight, InHand, Key
<1>8. ASSUME NEW c \in Procs, Step(c) \/ Environment(c)
      PROVE  applied'[k] + Cardinality(S1) <= Cardinality(H1) + faults'
  <2>1. /\ ~Gone(c) => Cardinality(H) <= Cardinality(H1)
        /\ Gone(c) => Cardinality(H) <= Cardinality(H1) + 1
    BY <1>2, <1>8, HoldersStay, CountsOfProcesses
  <2>2. CASE Apply(c)
    <3>1. /\ pc[c] = "apply" /\ UNCHANGED <<claims, canceled, faults>>
          /\ applied' = [applied EXCEPT ![Key(InHand(c))] = @ + 1]
      BY <2>2 DEF Apply, ClaimsAfterApply
    <3>2. S1 = S
      BY <1>2, <3>1 DEF Stopping
    <3>3. ~Gone(c)
      <4>1. pc'[c] # "down"
        BY <2>2 DEF Apply, NextRecord, MoveTo, ProcTo, Placed, ProcessTypes
      <4> QED
        BY <4>1 DEF Gone, ProcTo, Placed, ProcessTypes
    <3>4. CASE k = Key(InHand(c))
      <4>1. InFlight(c, k) /\ ~InFlight(c, k)'
        BY <1>8, <2>2, <3>1, <3>4, FlightsNext DEF InFlight, Lands
      <4>2. k \in claims[c]
        BY <4>1, StoreIsFree DEF FlightsHold
      <4>3. c \in H1 /\ H \subseteq H1 \ {c}
        BY <1>2, <1>8, <3>1, <3>3, <4>1, <4>2, HoldersStay DEF Holders
      <4>4. Cardinality(H) <= Cardinality(H1 \ {c}) /\ Cardinality(H1 \ {c}) + 1 = Cardinality(H1)
            /\ Cardinality(H1 \ {c}) \in Nat
        <5>1. H1 \ {c} \in SUBSET Procs
          OBVIOUS
        <5> QED
          BY <5>1, <4>3, CountsOfProcesses
      <4>5. applied'[k] = applied[k] + 1
        BY <3>1, <3>4 DEF Placed, StoreTypes
      <4> QED
        BY <1>3, <1>4, <3>1, <3>2, <4>4, <4>5
    <3>5. CASE k # Key(InHand(c))
      <4>1. applied'[k] = applied[k]
        BY <3>1, <3>5 DEF Placed, StoreTypes
      <4> QED
        BY <1>3, <1>4, <2>1, <3>1, <3>2, <3>3, <4>1
    <3> QED
      BY <3>4, <3>5
  <2>3. CASE Crash(c)
    <3>1. /\ Gone(c) /\ faults' = faults + 1 /\ applied' = applied
          /\ canceled' = [canceled EXCEPT ![c] = FALSE]
      BY <2>3 DEF Crash, Gone, Fault
    <3>2. S1 \subseteq S
      BY <1>2, <3>1 DEF Stopping, Placed, ProcessTypes
    <3>3. Cardinality(S1) <= Cardinality(S)
      BY <3>2, CountsOfProcesses
    <3> QED
      BY <1>3, <1>4, <2>1, <3>1, <3>3
  <2>4. CASE Leave(c)
    <3>1. /\ Gone(c) /\ faults' = faults /\ applied' = applied /\ canceled[c]
          /\ canceled' = [canceled EXCEPT ![c] = FALSE]
      BY <2>4 DEF Leave, Gone
    <3>2. c \in S /\ S \ {c} = S1
      BY <1>2, <3>1 DEF Stopping, Placed, ProcessTypes
    <3>3. Cardinality(S1) + 1 = Cardinality(S)
      BY <3>2, CountsOfProcesses
    <3> QED
      BY <1>3, <1>4, <2>1, <3>1, <3>3
  <2>5. CASE Sigterm(c)
    <3>1. /\ faults' = faults + 1 /\ applied' = applied
          /\ canceled' = [canceled EXCEPT ![c] = TRUE]
          /\ pc' = pc /\ pc[c] # "down"
      BY <2>5 DEF Sigterm, Fault, effects
    <3>2. S1 \subseteq S \cup {c} /\ ~Gone(c)
      BY <1>2, <3>1 DEF Stopping, Gone, ProcTo, Placed, ProcessTypes
    <3>3. Cardinality(S1) <= Cardinality(S) + 1
      BY <3>2, CountsOfProcesses
    <3> QED
      BY <1>3, <1>4, <2>1, <3>1, <3>2, <3>3
  <2>6. CASE ~Apply(c) /\ ~Crash(c) /\ ~Leave(c) /\ ~Sigterm(c)
    <3>1. applied' = applied /\ canceled' = canceled /\ (faults' = faults \/ faults' = faults + 1)
      BY <1>8, <2>6
         DEF Step, Environment, Poll, Refuse, Claim, Duplicate, ClaimFails, ApplyFails, Release,
             ReleaseFails, Again, Exhaust, AbandonPartition, Commit, CommitFails, Restart,
             Deliver, DeliverFails, DeadLetter, Fault, effects, letters
    <3>2. S1 = S
      BY <1>2, <3>1 DEF Stopping
    <3>3. Cardinality(H) <= Cardinality(H1)
      <4>1. CASE Deliver(c) \/ DeliverFails(c)
        <5>1. H1 = H
          BY <1>2, <4>1 DEF Deliver, DeliverFails, progress, Holders, InFlight, InHand, Key
        <5> QED
          BY <5>1, <1>3
      <4>2. CASE ~Deliver(c) /\ ~DeliverFails(c)
        <5>1. pc'[c] # "down"
          BY <1>8, <2>6, <4>2
             DEF Step, Environment, Poll, Refuse, Claim, Duplicate, ClaimFails, ApplyFails,
                 Release, ReleaseFails, Again, Exhaust, AbandonPartition, Commit, CommitFails,
                 Restart, DeadLetter, NextRecord, MoveTo, EndBatch, ProcTo, Placed, ProcessTypes
        <5>2. ~Gone(c)
          BY <5>1 DEF Gone, ProcTo, Placed, ProcessTypes
        <5> QED
          BY <5>2, <2>1
      <4> QED
        BY <4>1, <4>2
    <3> QED
      BY <1>3, <1>4, <3>1, <3>2, <3>3
  <2> QED
    BY <2>2, <2>3, <2>4, <2>5, <2>6
<1> QED
  BY <1>5, <1>6, <1>7, <1>8 DEF ConsumerNext

LEMMA InvInit == ConsumerInit => IInv
<1> SUFFICES ASSUME ConsumerInit PROVE IInv
  OBVIOUS
<1>1. Placed
  BY PlacedInit
<1>2. \A r \in Records : ~Past(r)
  BY RecordsAreNumbered, OrderConsumerConstants DEF ConsumerInit, Past, Committed, Records
<1>3. \A c \in Procs, k \in Keys : ~InFlight(c, k)
  BY DEF ConsumerInit, InFlight
<1>4. Accounted /\ ClaimsStand /\ FlightsHold /\ Shared
  BY <1>2, <1>3 DEF ConsumerInit, Accounted, ClaimsStand, FlightsHold, Shared
<1>5. Stopping = {} /\ \A k \in Keys : Holders(k) \in SUBSET Procs
  BY DEF ConsumerInit, Stopping, Holders
<1>6. Own
  BY <1>5, CountsOfProcesses, FS_EmptySet DEF Own, ConsumerInit
<1> QED
  BY <1>1, <1>4, <1>6 DEF IInv

LEMMA InvNext == IInv /\ [ConsumerNext]_consumerVars => IInv'
<1> SUFFICES ASSUME IInv, [ConsumerNext]_consumerVars PROVE IInv'
  OBVIOUS
<1>1. Placed'
  BY PlacedNext DEF IInv
<1> QED
  BY <1>1, AccountedNext, ClaimsStandNext, FlightsHoldNext, SharedNext, OwnNext DEF IInv

LEMMA InvHolds == ConsumerSpec => []IInv
  BY InvInit, InvNext, PTL DEF ConsumerSpec

(* A committed offset never passes over a record without an end, unless a  *)
(* copy of the record is still to come or its claim outlived its attempt:  *)
(* for every log, group, order of the steps and pattern of faults.         *)
THEOREM CommitsFollowProcessing == ConsumerSpec => []CommitAfterProcessing
<1>1. IInv => CommitAfterProcessing
  BY DEF IInv, Accounted, CommitAfterProcessing, Past, Fine
<1> QED
  BY <1>1, InvHolds, PTL

(* With the shared store an order is applied once; with MemoryClaims every *)
(* further time costs a process or a fault.                                *)
THEOREM OrdersAreAppliedOnce == ConsumerSpec => []AppliedOnce
<1>1. ASSUME IInv PROVE AppliedOnce
  <2> SUFFICES ASSUME NEW k \in Keys
               PROVE  IF store = "database" THEN applied[k] <= 1
                      ELSE applied[k] <= Cardinality(Procs) + faults
    BY DEF AppliedOnce
  <2>1. CASE store = "database"
    BY <1>1, <2>1 DEF IInv, Shared
  <2>2. CASE store = "memory"
    <3>1. applied[k] + Cardinality(Stopping) <= Cardinality(Holders(k)) + faults
      BY <1>1, <2>2 DEF IInv, Own
    <3>2. applied[k] \in Nat /\ faults \in Nat
      BY <1>1 DEF IInv, Placed, StoreTypes
    <3>3. /\ Cardinality(Holders(k)) <= Cardinality(Procs)
          /\ Cardinality(Holders(k)) \in Nat /\ Cardinality(Procs) \in Nat
          /\ Cardinality(Stopping) \in Nat
      <4>1. Holders(k) \in SUBSET Procs /\ Stopping \in SUBSET Procs /\ Procs \in SUBSET Procs
        BY DEF Holders, Stopping
      <4> QED
        BY <4>1, CountsOfProcesses
    <3> QED
      BY <2>2, <3>1, <3>2, <3>3
  <2> QED
    BY <1>1, <2>1, <2>2 DEF IInv, Placed, StoreTypes
<1> QED
  BY <1>1, InvHolds, PTL
=============================================================================
