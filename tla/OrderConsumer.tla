--------------------------- MODULE OrderConsumer ---------------------------
(***************************************************************************)
(* The Kafka order processor of 18-kafka-with-go/examples: the consumer    *)
(* loop of consumer.go around OrderService.Process of service.go, run by   *)
(* several processes of one consumer group that crash, are cancelled and   *)
(* restart.                                                                *)
(*                                                                         *)
(* Outside the repository, and modelled from how consumer.go uses it:      *)
(* franz-go (poll position, commit, asynchronous Produce, no rebalance     *)
(* between poll and commit) and the claim store behind ClaimStore, either  *)
(* MemoryClaims of one process or a database that all of them share.       *)
(***************************************************************************)
EXTENDS Integers, Sequences, FiniteSets

CONSTANTS
    Procs,         \* processes of the consumer group
    Partitions,    \* partitions of the topic
    Assigned,      \* partition -> the process the group first gives it to
    Log,           \* partition -> the idempotency keys of its records; Bad for
                   \* one that Process refuses as malformed
    MaxAttempts,   \* Consumer.maxAttempts
    MaxPoll,       \* bound: records per PollRecords (64 in the code)
    Faults,        \* what may go wrong, a subset of FaultKinds
    MaxFaults      \* bound: how often, apart from failing Apply calls

Bad == "bad"
Nobody == "nobody"
NoPartition == "none"

(* apply, claim, release: that call fails.  commit: CommitRecords fails.   *)
(* crash: a process dies.  cancel: SIGTERM.  dlq: Produce's callback       *)
(* reports an error.                                                       *)
FaultKinds == {"apply", "claim", "release", "commit", "crash", "cancel", "dlq"}

ASSUME OrderConsumerConstants ==
    /\ IsFiniteSet(Procs)
    /\ Procs \cap {Nobody, "database"} = {}
    /\ DOMAIN Log = Partitions
    /\ \A p \in Partitions : Len(Log[p]) \in Nat
    /\ Assigned \in [Partitions -> Procs]
    /\ MaxAttempts \in Nat \ {0}
    /\ MaxPoll \in Nat \ {0}
    /\ Faults \subseteq FaultKinds
    /\ MaxFaults \in Nat

VARIABLES
    store,       \* "memory" or "database": which ClaimStore is wired in
    claims,      \* the keys claimed, per store
    owner,       \* partition -> the process it is assigned to, or Nobody
    pos,         \* partition -> how far its owner has polled
    committed,   \* partition -> the committed offset
    pc,          \* process -> where it is, see ConsumerPlaces
    done,        \* partition -> how far its owner has got: processed, or
                 \* skipped by a cancelled backoff
    batch,       \* process -> the partitions in `fetches`, {} between batches
    part,        \* process -> the one processPartition is in, or NoPartition
    attempt,     \* process -> processPartition's loop variable
    canceled,    \* process -> ctx.Done() is closed
    buffered,    \* process -> dead letters Produce took and did not deliver yet
    dlq,         \* records delivered to the dead-letter topic
    sent,        \* history: records handed to Produce
    applied,     \* history: key -> how often Apply succeeded
    orphaned,    \* history: keys whose claim outlived its failed attempt
    faults       \* how many faults have happened

consumerVars == <<store, claims, owner, pos, committed, pc, done, batch, part, attempt,
                  canceled, buffered, dlq, sent, applied, orphaned, faults>>

(* poll: in PollRecords; claim, apply, release: before that call of        *)
(* processV1; backoff: in the select of processPartition; commit: before   *)
(* CommitRecords; down: the process is not running.                        *)
ConsumerPlaces == {"poll", "claim", "apply", "release", "backoff", "commit", "down"}

Records == UNION {{<<p, i>> : i \in 1 .. Len(Log[p])} : p \in Partitions}
Key(r) == Log[r[1]][r[2]]
Keys == {Key(r) : r \in Records} \ {Bad}
StoreOf(c) == IF store = "memory" THEN c ELSE "database"

-----------------------------------------------------------------------------
ConsumerInit ==
    /\ store \in {"memory", "database"}
    /\ claims = [s \in Procs \cup {"database"} |-> {}]
    /\ owner = Assigned
    /\ pos = [p \in Partitions |-> 0]
    /\ committed = [p \in Partitions |-> 0]
    /\ pc = [c \in Procs |-> "poll"]
    /\ done = [p \in Partitions |-> 0]
    /\ batch = [c \in Procs |-> {}]
    /\ part = [c \in Procs |-> NoPartition]
    /\ attempt = [c \in Procs |-> 0]
    /\ canceled = [c \in Procs |-> FALSE]
    /\ buffered = [c \in Procs |-> {}]
    /\ dlq = {}
    /\ sent = {}
    /\ applied = [k \in Keys |-> 0]
    /\ orphaned = {}
    /\ faults = 0

kafka == <<owner, pos, committed>>
progress == <<done, batch, part>>
letters == <<buffered, dlq, sent>>
effects == <<letters, applied, orphaned>>

ProcTo(c, where) == pc' = [pc EXCEPT ![c] = where]
Fault(kind) == kind \in Faults /\ faults < MaxFaults /\ faults' = faults + 1

(* PollRecords returns a batch: consecutive records of the partitions the  *)
(* process owns, at most MaxPoll, in any mix; e is where it ends.          *)
BatchEnds(c) ==
    {e \in [Partitions -> UNION {0 .. Len(Log[p]) : p \in Partitions}] :
        /\ \A p \in Partitions : pos[p] <= e[p] /\ e[p] <= Len(Log[p])
        /\ \A p \in Partitions : owner[p] # c => e[p] = pos[p]
        /\ e # pos}

RecordsUpTo(e) ==
    {r \in Records : pos[r[1]] < r[2] /\ r[2] <= e[r[1]]}

(* EachPartition takes the partitions in the order of the fetch: any. *)
Poll(c) ==
    /\ pc[c] = "poll"
    /\ ~canceled[c]
    /\ \E e \in BatchEnds(c) :
        /\ Cardinality(RecordsUpTo(e)) <= MaxPoll
        /\ batch' = [batch EXCEPT ![c] = {p \in Partitions : e[p] # pos[p]}]
        /\ \E p \in Partitions : e[p] # pos[p] /\ part' = [part EXCEPT ![c] = p]
        /\ pos' = e
    /\ attempt' = [attempt EXCEPT ![c] = 0]
    /\ ProcTo(c, "claim")
    /\ UNCHANGED <<store, claims, owner, committed, done, canceled, effects, faults>>

(* The record in hand. *)
InHand(c) == <<part[c], done[part[c]] + 1>>

(* processPartition is at n: its next record, else the next partition with *)
(* records, else the commit.                                               *)
MoveTo(c, n) ==
    LET p == part[c]
        rest == {q \in batch[c] \ {p} : done[q] < pos[q]}
    IN  /\ done' = [done EXCEPT ![p] = n]
        /\ attempt' = [attempt EXCEPT ![c] = 0]
        /\ \/ n < pos[p] /\ ProcTo(c, "claim") /\ UNCHANGED part
           \/ /\ n = pos[p]
              /\ \E q \in rest : part' = [part EXCEPT ![c] = q]
              /\ ProcTo(c, "claim")
           \/ /\ n = pos[p] /\ rest = {}
              /\ part' = [part EXCEPT ![c] = NoPartition]
              /\ ProcTo(c, "commit")
        /\ UNCHANGED batch

(* The record in hand is finished. *)
NextRecord(c) == MoveTo(c, done[part[c]] + 1)

(* toDeadLetter hands the record to Produce and does not wait. *)
DeadLetter(c) ==
    /\ buffered' = [buffered EXCEPT ![c] = @ \cup {InHand(c)}]
    /\ sent' = sent \cup {InHand(c)}
    /\ NextRecord(c)
    /\ UNCHANGED <<dlq, applied, orphaned>>

(* Process refuses a malformed record with a terminal error: no retry. *)
Refuse(c) ==
    /\ pc[c] = "claim"
    /\ Key(InHand(c)) = Bad
    /\ DeadLetter(c)
    /\ UNCHANGED <<store, claims, kafka, canceled, faults>>

Claiming(c) == pc[c] = "claim" /\ Key(InHand(c)) # Bad
Claimed(c) == Key(InHand(c)) \in claims[StoreOf(c)]

(* Claim wins ... *)
Claim(c) ==
    /\ Claiming(c)
    /\ ~Claimed(c)
    /\ claims' = [claims EXCEPT ![StoreOf(c)] = @ \cup {Key(InHand(c))}]
    /\ ProcTo(c, "apply")
    /\ UNCHANGED <<store, kafka, progress, attempt, canceled, effects, faults>>

(* ... or loses: "duplicate delivery: already handled". *)
Duplicate(c) ==
    /\ Claiming(c)
    /\ Claimed(c)
    /\ NextRecord(c)
    /\ UNCHANGED <<store, claims, kafka, canceled, effects, faults>>

(* ... or the store is in trouble: retryable. *)
ClaimFails(c) ==
    /\ Claiming(c)
    /\ Fault("claim")
    /\ ProcTo(c, "backoff")
    /\ UNCHANGED <<store, claims, kafka, progress, attempt, canceled, effects>>

(* Mutation: the claim is dropped once the order is applied. *)
ClaimsAfterRelease(c) ==
    [claims EXCEPT ![StoreOf(c)] = @ \ {Key(InHand(c))}]

(* Successful applies never release. *)
ClaimsAfterApply(c) == claims

(* Apply succeeds: the claim stands. *)
Apply(c) ==
    /\ pc[c] = "apply"
    /\ applied' = [applied EXCEPT ![Key(InHand(c))] = @ + 1]
    /\ claims' = ClaimsAfterApply(c)
    /\ NextRecord(c)
    /\ UNCHANGED <<store, kafka, canceled, letters, orphaned, faults>>

(* Apply fails: the claim is to be released. *)
ApplyFails(c) ==
    /\ pc[c] = "apply"
    /\ "apply" \in Faults
    /\ ProcTo(c, "release")
    /\ UNCHANGED <<store, claims, kafka, progress, attempt, canceled, effects, faults>>

(* Mutation: a failed apply keeps its claim. *)
ReleaseNothing(c) ==
    /\ pc[c] = "release"
    /\ ProcTo(c, "backoff")
    /\ UNCHANGED <<store, claims, kafka, progress, attempt, canceled, effects, faults>>

Release(c) ==
    /\ pc[c] = "release"
    /\ claims' = [claims EXCEPT ![StoreOf(c)] = @ \ {Key(InHand(c))}]
    /\ ProcTo(c, "backoff")
    /\ UNCHANGED <<store, kafka, progress, attempt, canceled, effects, faults>>

(* The release fails: the error is returned like any other, and the claim  *)
(* stays.                                                                  *)
ReleaseFails(c) ==
    /\ pc[c] = "release"
    /\ Fault("release")
    /\ orphaned' = orphaned \cup {Key(InHand(c))}
    /\ ProcTo(c, "backoff")
    /\ UNCHANGED <<store, claims, kafka, progress, attempt, canceled, letters, applied>>

(* Mutation: one attempt too many. *)
LastAttemptLate(c) == attempt[c] >= MaxAttempts

(* The loop condition `attempt < c.maxAttempts` fails after this attempt. *)
LastAttempt(c) == attempt[c] + 1 >= MaxAttempts

(* The backoff is over and attempts are left: Process again. *)
Again(c) ==
    /\ pc[c] = "backoff"
    /\ ~LastAttempt(c)
    /\ attempt' = [attempt EXCEPT ![c] = @ + 1]
    /\ ProcTo(c, "claim")
    /\ UNCHANGED <<store, claims, kafka, progress, canceled, effects, faults>>

(* It is over and none are left (the last attempt backs off as well). *)
Exhaust(c) ==
    /\ pc[c] = "backoff"
    /\ LastAttempt(c)
    /\ DeadLetter(c)
    /\ UNCHANGED <<store, claims, kafka, canceled, faults>>

(* ctx.Done() during the backoff: the rest of this partition's records is  *)
(* skipped, the next partition of the batch goes on.                       *)
AbandonPartition(c) ==
    /\ pc[c] = "backoff"
    /\ canceled[c]
    /\ MoveTo(c, pos[part[c]])
    /\ UNCHANGED <<store, claims, kafka, canceled, effects, faults>>

(* Mutation: the commit does not care for the context. *)
MayCommitAlways(c) == TRUE

(* A commit under a context that is already done cannot succeed. *)
MayCommit(c) == ~canceled[c]

(* Back to PollRecords; `fetches` is out of scope. *)
EndBatch(c) ==
    /\ batch' = [batch EXCEPT ![c] = {}]
    /\ ProcTo(c, "poll")

(* CommitRecords(recordsOf(fetches)): every partition in the batch, to the *)
(* end of its records in it ...                                            *)
Commit(c) ==
    /\ pc[c] = "commit"
    /\ MayCommit(c)
    /\ committed' = [p \in Partitions |->
                        IF p \in batch[c] THEN pos[p] ELSE committed[p]]
    /\ EndBatch(c)
    /\ UNCHANGED <<store, claims, owner, pos, done, part, attempt, canceled, effects, faults>>

(* ... or fails; its error is not looked at. *)
CommitFails(c) ==
    /\ pc[c] = "commit"
    /\ \/ canceled[c] /\ UNCHANGED faults
       \/ Fault("commit")
    /\ EndBatch(c)
    /\ UNCHANGED <<store, claims, kafka, done, part, attempt, canceled, effects>>

(* Produce delivers a dead letter ... *)
Deliver(c) ==
    /\ \E r \in buffered[c] :
        /\ buffered' = [buffered EXCEPT ![c] = @ \ {r}]
        /\ dlq' = dlq \cup {r}
    /\ UNCHANGED <<store, claims, kafka, pc, progress, attempt, canceled, sent, applied, orphaned, faults>>

(* ... or calls back with an error, which is logged. *)
DeliverFails(c) ==
    /\ Fault("dlq")
    /\ \E r \in buffered[c] : buffered' = [buffered EXCEPT ![c] = @ \ {r}]
    /\ UNCHANGED <<store, claims, kafka, pc, progress, attempt, canceled, dlq, sent, applied, orphaned>>

(* SIGTERM. *)
Sigterm(c) ==
    /\ Fault("cancel")
    /\ pc[c] # "down" /\ ~canceled[c]
    /\ canceled' = [canceled EXCEPT ![c] = TRUE]
    /\ UNCHANGED <<store, claims, kafka, pc, progress, attempt, effects>>

(* The process is gone, with its memory and its producer's buffer. *)
Gone(c) ==
    /\ ProcTo(c, "down")
    /\ batch' = [batch EXCEPT ![c] = {}]
    /\ part' = [part EXCEPT ![c] = NoPartition]
    /\ attempt' = [attempt EXCEPT ![c] = 0]
    /\ canceled' = [canceled EXCEPT ![c] = FALSE]
    /\ buffered' = [buffered EXCEPT ![c] = {}]
    /\ claims' = [claims EXCEPT ![c] = {}]
    /\ owner' = [p \in Partitions |-> IF owner[p] = c THEN Nobody ELSE owner[p]]
    /\ pos' = [p \in Partitions |-> IF owner[p] = c THEN committed[p] ELSE pos[p]]
    /\ done' = [p \in Partitions |-> IF owner[p] = c THEN committed[p] ELSE done[p]]
    /\ UNCHANGED <<store, committed, dlq, sent, applied>>

(* Run sees the cancelled context, commits marked offsets (the code marks  *)
(* none) and returns; main closes the client.                              *)
Leave(c) ==
    /\ pc[c] = "poll"
    /\ canceled[c]
    /\ Gone(c)
    /\ UNCHANGED <<orphaned, faults>>

(* A crash under a claim of the database leaves the claim behind. *)
Crash(c) ==
    /\ Fault("crash")
    /\ pc[c] # "down"
    /\ orphaned' = IF store = "database" /\ pc[c] \in {"apply", "release"}
                   THEN orphaned \cup {Key(InHand(c))}
                   ELSE orphaned
    /\ Gone(c)

Restart(c) ==
    /\ pc[c] = "down"
    /\ ProcTo(c, "poll")
    /\ UNCHANGED <<store, claims, kafka, progress, attempt, canceled, effects, faults>>

(* The group gives a partition without an owner to a process that polls;   *)
(* it polls from the committed offset.                                     *)
Assign(p, c) ==
    /\ owner[p] = Nobody
    /\ pc[c] = "poll" /\ ~canceled[c]
    /\ owner' = [owner EXCEPT ![p] = c]
    /\ UNCHANGED <<store, claims, pos, committed, pc, progress, attempt, canceled, effects, faults>>

Step(c) ==
    \/ Poll(c) \/ Refuse(c) \/ Claim(c) \/ Duplicate(c) \/ ClaimFails(c)
    \/ Apply(c) \/ ApplyFails(c) \/ Release(c) \/ ReleaseFails(c)
    \/ Again(c) \/ Exhaust(c) \/ AbandonPartition(c)
    \/ Commit(c) \/ CommitFails(c) \/ Leave(c) \/ Restart(c)

Environment(c) == Deliver(c) \/ DeliverFails(c) \/ Sigterm(c) \/ Crash(c)

ConsumerNext ==
    \/ \E c \in Procs : Step(c) \/ Environment(c)
    \/ \E p \in Partitions, c \in Procs : Assign(p, c)

ConsumerSpec == ConsumerInit /\ [][ConsumerNext]_consumerVars

-----------------------------------------------------------------------------
Working(c) == pc[c] \in {"claim", "apply", "release", "backoff"}

(* Type correctness.  A process has a record in hand exactly while it works *)
(* on a batch, one it polled from a partition it owns and has not processed *)
(* yet; commits never run ahead of processing, nor that ahead of the poll.  *)
ConsumerTypeOK ==
    /\ store \in {"memory", "database"}
    /\ claims \in [Procs \cup {"database"} -> SUBSET Keys]
    /\ owner \in [Partitions -> Procs \cup {Nobody}]
    /\ pos \in [Partitions -> Nat]
    /\ committed \in [Partitions -> Nat]
    /\ done \in [Partitions -> Nat]
    /\ pc \in [Procs -> ConsumerPlaces]
    /\ batch \in [Procs -> SUBSET Partitions]
    /\ part \in [Procs -> Partitions \cup {NoPartition}]
    /\ attempt \in [Procs -> 0 .. MaxAttempts - 1]
    /\ canceled \in [Procs -> BOOLEAN]
    /\ buffered \in [Procs -> SUBSET sent]
    /\ dlq \subseteq sent
    /\ sent \subseteq Records
    /\ applied \in [Keys -> Nat]
    /\ orphaned \subseteq Keys
    /\ faults \in 0 .. MaxFaults
    /\ \A p \in Partitions :
        committed[p] <= done[p] /\ done[p] <= pos[p] /\ pos[p] <= Len(Log[p])
    /\ \A c \in Procs : \A p \in batch[c] : owner[p] = c
    /\ \A c \in Procs :
        Working(c) => part[c] \in batch[c] /\ done[part[c]] < pos[part[c]]
    /\ \A c \in Procs :
        pc[c] \in {"apply", "release", "backoff"} => Key(InHand(c)) # Bad

Committed(r) == r[2] <= committed[r[1]]

(* The end of a record: Apply ran for its key, or it went to Produce for   *)
(* the dead-letter topic.                                                  *)
Ended(r) ==
    IF Key(r) = Bad THEN r \in sent
    ELSE applied[Key(r)] > 0 \/ \E s \in sent : Key(s) = Key(r)

(* "Commit AFTER processing: at-least-once" (consumer.go line 66): a       *)
(* committed offset never passes over a record without an end, unless a    *)
(* copy of it under the same key is still to be (re)delivered, through     *)
(* crashes, cancellations in a backoff, failed commits and duplicates that *)
(* other processes are working on.  The one exception is a claim that      *)
(* outlived its attempt (Release failed, or the process died between a     *)
(* Claim in the database and the end of Apply): Process then takes the     *)
(* redelivery for a duplicate.                                             *)
CommitAfterProcessing ==
    \A r \in Records : Committed(r) =>
        \/ Ended(r)
        \/ \E s \in Records : Key(s) = Key(r) /\ Key(r) # Bad /\ ~Committed(s)
        \/ Key(r) \in orphaned

(* "idempotent by construction" (service.go line 88): with a shared claim  *)
(* store an order is applied once, however often and wherever it is        *)
(* delivered; with MemoryClaims a second time only after a restart or in   *)
(* another process.                                                        *)
AppliedOnce ==
    \A k \in Keys :
        IF store = "database" THEN applied[k] <= 1
        ELSE applied[k] <= Cardinality(Procs) + faults

(* Every record has come to an end, again unless its claim outlived an     *)
(* attempt (Services: for good, although processes stop and commits fail). *)
AllEnded == \A r \in Records : Ended(r) \/ Key(r) \in orphaned

(* "no commit while work is in flight" (03-producer-consumer.md line 226): *)
(* a record whose offset is committed has been applied or is in the        *)
(* dead-letter topic.  toDeadLetter does not wait for Produce.             *)
NothingLost ==
    \A r \in Records : Committed(r) =>
        \/ Key(r) # Bad /\ applied[Key(r)] > 0
        \/ \E s \in dlq : Key(s) = Key(r)
        \/ \E s \in Records : Key(s) = Key(r) /\ ~Committed(s)
        \/ \E c \in Procs : r \in buffered[c]
=============================================================================
