# Verification of the Go handbook's worked examples

The repository is a handbook: chapters in Markdown and, beside them, Go programs
that are meant to be read as patterns for production code. The programs that keep
state and are used concurrently (a lease, a broker, a circuit breaker, a job
processor and worker pools, a Kafka consumer, two HTTP services, a bank store, a
rate limiter, a ledger) carry the logic worth verifying, and so do the containers of
the data-structures chapter. This directory models them in TLA+, checks the models with
TLC on small instances and proves the central results with TLAPS.

`PROJECT.json` is the machine-readable index: components, runs, the mutant that
breaks each property, which source lines each definition stands for, findings,
hazards and theorems.

## Inventory

### Modelled

| Component | State | Operations | Works with | What is hard |
|---|---|---|---|---|
| Lease coordinator and fenced storage, `16-distributed-systems/examples/lease/lease.go` | `active`, `tokens`, `next`; `newest` per resource | `Acquire`, `Renew`, `Write`, the injected clock | clients keep `Token` values for any time | expiry races renewal; a paused leader writes late |
| Queue broker, `17-messaging/examples/messaging/broker.go` | `ready`, `inflight`, `dlq` | `Publish`, `Consume` with `next`, `handle`, `dead`, `redeliver` | handlers run outside the lock | redelivery with backoff, several consumers, panics, cancellation |
| Retry, breaker, bulkhead, `15-microservices/examples/resilience/resilience.go` | `failures`, `openUntil`, `halfOpen`; the semaphore | `Retry`, `Allow`, `Record`, `Do` | `Retry` around `Allow`, `Do`, `Record`, as the storm test composes them | late reports, the instant of expiry, a probe nobody reports |
| Rate limiter, `21-security/examples/secure/secure.go` | global bucket, `keys`: a limiter and a time per identity | `Allow`, `Sweep` | any number of callers, one sweeper, without a lock | a sweep between the steps of `Allow`, readings of the clock that are used late |
| Worker pools, `08-concurrency/examples/02` to `04` | channels, `WaitGroup`, counters | `Run` with feeder and workers; `Submit`, `Start`, `Stop` | feeders, workers, the caller that reads results | closing order, cancellation, a caller that stops reading |
| Job processor, `08-concurrency/examples/05-jobprocessor/main.go` | job channel, metrics, `WaitGroup` | `Start`, `Submit`, `runWithRetries`, `Stop`, signal | workers, submitters, `main` | `select` with several ready cases, shutdown with work queued |
| Kafka order processor, `18-kafka-with-go/examples` | poll position, commits, claims | `Run`, `processPartition`, `toDeadLetter`, `Process`, `Claim`, `Release` | franz-go, claim store, applier | crash between processing and commit, two calls that both fail, asynchronous dead letters |
| Payments service, `14-backend-development/examples/service` | payments, RED and business metrics, spans, server lifecycle | middleware, authorization, `Charge`, `Cancel`, `run` | `net/http`, tracer provider | check-then-act in `Cancel`, panics after a write, shutdown order |
| HTTP API, `12-http-networking/examples/api/main.go` | `MemoryStore`, readiness, connections | middleware, handlers, `main` | `net/http` with `TimeoutHandler` and `Shutdown` | handlers that outlive their answer, timeouts against the grace period, bodies that do not come |
| Bank store, `13-databases/examples/bank` | tables `accounts`, `payments` | `Charge` in `withinTx`, `ByCustomer` | Postgres at READ COMMITTED | concurrent debits, rollback, lost answer of a commit |
| Double-entry ledger, `25-fintech-with-go/examples/ledger` | `entries`, `nextID`, slices shared with callers | `Post`, `PostBalance`, `ReversalEntry`, `Entries`, `Balance`, `Total`, `Money` | callers that keep slices | aliasing, `int64` wrap-around |
| Containers, `03-data-structures/examples` | `Ring`, `RecentKeys`, `LRU`, `Heap` | their methods | callers; `LRU` is shared under a mutex | two representations in lockstep, indices at capacity |

What makes each of them correct:

- *Lease*: one valid holder at a time; writes to a resource in token order; no
  refusal without a newer (or the same) token applied before.
- *Broker*: every message is in one place, delivered to one consumer, at most
  `maxAttempts` times and not before its backoff; first deliveries in order; the
  dead-letter record tells the truth; every message is settled in the end, unless a
  message with the same ID displaced it.
- *Resilience*: slots are never leaked; a trip holds for its cooldown; the breaker
  does not get stuck.
- *Rate limiter*: eviction gives nobody tokens; idle identities are forgotten.
- *Job processor*: metrics account for every job; a job is run by one worker; `Stop`
  drains and terminates.
- *Worker pools*: whatever the cancellation does, workers leave, every result reaches
  a caller who reads, and nothing is sent on a closed channel.
- *Kafka*: commits never pass over an unfinished record; orders are applied once;
  every record ends.
- *Payments*: answers, metrics and the store agree; a graceful exit loses nothing;
  shutdown ends.
- *HTTP API*: answers agree with the store however handlers and timeouts race; a
  shutdown ends, and cuts off nobody but uploads that do not come.
- *Bank*: no overdraft; a charge happens whole or not at all; newest first.
- *Ledger*: the books balance; posted entries stay as they were posted, but for what
  callers write into the result of `Entries`.
- *Containers*: they behave like the collections they represent.

### Not modelled

- **Kafka producer** (18): one synchronous wait on a library call.
- **Configuration** (14): a pure function from environment variables to a struct.
- **Stage 1 of the concurrency progression** (08): a producer, a consumer and one
  channel, the shape of every feeder in `WorkerPool`.
- **Token verification and outbound fetching** (21): string checks and I/O.
- **ByCustomer** of the payments service (14) and the other methods that only read
  (`Peek`, `Contains`, `Len`, `Metrics`, `Account`, `Newest`, `Inflight`).
- **Language, error, generics, testing, memory and profiling demonstrations and the
  link checker**: sequential code without a protocol. What they compute is covered by
  their tests, and a model would repeat them line by line.

## Modules

| Module | Models |
|---|---|
| `LeaderTerms` | abstract: leadership in terms, writes in the order of terms |
| `Lease` | coordinator, storage and clock; implements `LeaderTerms` |
| `WorkQueue` | abstract: a queue with acknowledgement, bounded deliveries |
| `Broker` | the broker; implements `WorkQueue` |
| `JobProcessor` | the job processor; implements `WorkQueue` with one delivery per job |
| `WorkerPool` | stages 2 to 4: feeder or submitter, workers, caller, closing order |
| `Resilience` | callers in `Retry`, one breaker, one bulkhead, one dependency |
| `Limiter` | `Allow` in its steps, `Sweep` in its steps, token buckets |
| `OrderConsumer` | processes of a consumer group with `OrderService` |
| `PaymentService` | requests from `Instrument` to the store, and the server's shutdown |
| `Api` | connections, handlers under `TimeoutHandler`, the store, `main` |
| `BankContract` | abstract: `Charge` in one step, as `FakeStore` does it |
| `PostgresBank` | interleaved transactions; implements `BankContract` |
| `Ledger` | money and journal with Go's slices by reference |
| `Collections` | abstract: a FIFO, a window of keys, a recency list, a bag |
| `Containers` | array, map, list and tree; implements `Collections`; the rounds of the heap's loops (`Up`, `Down`) are folded |
| `Gates`, `Concurrency`, `Servers`, `Books` | compositions: components of one kind side by side (see below) |
| `Stores`, `Traffic`, `Services` | what the runs check: `Lease` beside `Books`, `Concurrency` beside `Gates`, `OrderConsumer` beside `Servers` |
| `LeaseProofs`, `BrokerProofs`, `GatesProofs`, `ConcurrencyProofs`, `OrderConsumerProofs`, `ServersProofs`, `BooksProofs` | theorems about the module they are named after |
| `Sums` | lemmas about sums over finite sets, folds over sequences and powers of two |
| `MC...` | the instances TLC checks |

Runs look at related components side by side. Their specifications are compositions:
`Gates` (`Resilience` and `Limiter`), `Concurrency` (`JobProcessor` and `WorkerPool`),
`Servers` (`PaymentService` and `Api`) and `Books` (`PostgresBank`, `Ledger` and
`Containers`), which the proof modules reason about; and one level up `Stores`,
`Traffic` and `Services`, which TLC runs and which state fairness and liveness. These
components do not call each other, so a behaviour is about one of them: the variables
`subject` and `gate`, above them `guarded`, `traffic` and `service`, say which and never
change, the next-state relation is the disjunction of theirs, each with the others'
variables `UNCHANGED`, and fairness is stated for the steps of the component the
behaviour is about. The states of such a run are the sum, not the product, of its
parts: what the idle ones choose at the start is fixed. `TypesOK`, `GatesTypesOK` and
`StoresTypesOK` are conjunctions of the parts' type invariants; a temporal property of
one part is stated for the behaviours about it. A behaviour of the composition is a
behaviour of every part (the others stutter), which lemmas like `ConcurrencyIsBoth` and
`BooksAreLedger` prove; they carry what is proved of a part over to the composition.

How state and actions correspond to the code:

- A method that runs under a mutex is one action (`Acquire`, `Renew`, `Write`,
  `Allow`, `Record`, `next`, `dead`, `redeliver`, store calls). Where the code gives
  up the lock or blocks, there is a step boundary: the broker's handler runs between
  `Take` and `Settle`; `Submit` sends in one step and counts in the next; `Cancel` of
  the payments service reads in `FindCancelable` and writes in `Cancel`; `Post`
  validates in one step and appends in the next.
- A Go `select` with several ready cases is a disjunction.
- `Allow` of the limiter is four steps (global bucket, `LoadOrStore`, `mark`, the
  identity's bucket) and `Sweep` one per key read and one per key deleted; the map and
  the timestamps are atomic, and nothing else is. Each step but `LoadOrStore` reads the
  clock anew, without a lock, and may be preempted before it uses the reading: time
  passes between and within the steps (at most `Lag`), so a mark may be older than the
  one it overwrites and a token may be asked for as of an earlier time.
- An unbuffered channel is a rendezvous: one action of sender and receiver.
- Under `TimeoutHandler` the handler is a goroutine beside the one that answers.
- `Renew` reads the clock twice, and the model lets it move in between.
- The clocks of `Resilience`, `Limiter` and `Api` are kept as distances (time left to
  a deadline, time since a mark, tokens in a bucket), so liveness can be checked
  without an end of time. The others have a bounded clock.
- Integer width matters in two places: the broker's backoff shift (`Width`, assumed
  to fit by `BackoffFits`) and the ledger's amounts (`Width`, which wrap).
- History variables (marked in the `VARIABLES` comments) only record; no guard reads
  them, except for `Lease`'s bound on the number of writes.
- Definitions marked "Mutation" are the faulty variants used to show that each
  property can fail. No specification uses them.

Outside the repository, and modelled from how it is used:

- *franz-go*: records are delivered from the poll position; partitions are not
  reassigned between poll and commit (`BlockRebalanceOnPoll`); a commit under a
  cancelled context fails; `Produce` answers asynchronously.
- *net/http*: `Shutdown` refuses new connections, waits for active requests until
  its deadline; `Close` after that. An answer goes out only after the rest of the
  request's body (up to 256 KB) was read, which without a `ReadTimeout` takes as long as
  the client likes. `TimeoutHandler` buffers what the handler writes,
  and its select picks either case when handler and deadline are both ready.
- *x/time/rate*: a bucket that starts full, gains a token per unit of time up to its
  burst, and gives one away if it has one; a request as of an earlier time than the last
  grant gains nothing and sets the bucket's time back.
- *OpenTelemetry*: an ended span ignores later attributes and status.
- *Postgres*: READ COMMITTED: an `UPDATE` skips rows that do not match, waits for a
  locked row and evaluates its predicate again; sequences never go back;
  `now()` is the start of the transaction and does not run backwards.

## Runs

| Run | Instance | States | Checks |
|---|---|---|---|
| `broker` | 2 queues, 2 consumers, 2 messages with distinct or equal IDs, one published with attempts used up before; `maxAttempts` 3 | 69 thousand | `TypeOK`, `TriageIsTrue`, `BackoffElapsed`, `FirstDeliveriesInOrder`, `ImplementsWorkQueue`, `EventuallySettled` |
| `stores` | lease: 2 holders, 2 resources, TTL 2, 3 tokens, 3 writes per resource, any granted token presented at any time; bank: 3 clients, 2 accounts, 1 customer without one, amounts -1, 1, 2, 3 transactions; ledger: 2 callers, 2 accounts, 2 currencies, 3-bit amounts, 2 posts, 1 write into a shared slice; containers of capacity 1 to 3, heaps of up to 5; symmetric in clients and in callers | 388 thousand | `StoresTypesOK`; `SingleHolder`, `HolderHasNewestToken`, `FencedOrder`, `ImplementsTerms`; `NoOverdraft`, `NewestFirst`, `ImplementsContract`; `BooksBalance`, `HistoryKept`; `ImplementsCollections` |
| `traffic` | jobs: 3 jobs, 2 workers, queue of 2, 2 attempts, cancellation at any time; pools: 3 jobs, crews of 0 to 2 workers, callers that read or stop reading at any time; calls: 2 callers, 1 slot, threshold 2, cooldown 2, 2 attempts, with and without deadline; limiter: 2 callers that share an identity, or one with two, bursts of 1, TTL 3, calls delayed by up to 1 between two steps, sweeps at any time | 416 thousand | `TypesOK`, `MetricsAddUp`, `StopDrains`, `ImplementsWorkQueue`, `JobsStop`; `PoolsFinish`; `GatesTypesOK`, `FlagHasReporter`, `CooldownHonoured`, `AdmitsAgain`; `NoExtraBurst`, `IdleIsForgotten` |
| `services` | Kafka: 2 processes, 2 partitions, 3 records (two share a key, one is malformed), 2 attempts, 2 faults of 7 kinds, both claim stores; payments: 3 requests (create, cancel by owner or stranger, cancel or create), store errors, panics, SIGTERM at any time; API: a create beside a request of any kind, slow handlers, clients that hang or stall their body, a failing store | 1035 thousand | `ConsumerTypeOK`, `CommitAfterProcessing`, `AppliedOnce`, `RecordsEnd`; `TypesOK`, `AnswersAreTrue`, `MetricsTellTheTruth`, `GracefulExitLosesNothing`; `ApiAnswersAreTrue`, `ApiCutsOnlyUploads`; `ServersShutDown` for both servers |

All of these pass. Eight further runs show where the code and its own comments
disagree; TLC finds the violation:

| Run | Property | What the counterexample shows |
|---|---|---|
| `broker_first_cause` | `FirstCauseKept` | A message fails twice for different reasons; `redeliver` and `dead` overwrite `DeadLetterReason`, so the dead letter has the last cause. The comment says "a later DLQ trip preserves the first failure's cause and timestamp for triage". What does hold, the timestamp included, is `TriageIsTrue`. |
| `books_immutable` | `EntriesImmutable` | A caller writes into the lines of an entry that `Entries` handed out, and the journal's entry changes: the copy is shallow. The comment says "Entries are immutable once posted (defensive copies, no mutators)". What does hold is `HistoryKept`: no entry goes, and this is the only way to change one. `TestEntriesAreImmutable` covers the result of `Post` only. |
| `pool_cancel` | `CancelStopsPool` | The caller stops reading, the context is cancelled, and a worker waits in `out <- process(ctx, j)` for ever, with it the goroutine that closes the results. The comment says "Every blocking operation selects on ctx.Done()" and `main` prints "no leaked goroutines". For a caller that reads on, `PoolsFinish` holds. |
| `resilience_one_probe` | `OneProbe` | Two calls are out after the cooldown. At the instant `now == openUntil` callers get in without raising `halfOpen`, and a late report from before the trip takes the flag down while the probe is out. The comment says "exactly one probe is admitted". |
| `limiter_sweep` | `NotEvictedInUse` | `Allow` stores a new limiter, whose time is zero until it is marked; a sweep in between takes it for idle and removes it. The chapter says "Eviction sweeps must not remove a limiter between its check and use". |
| `jobs_drain` | `QueuedJobsFinished` | Workers leave on `ctx.Done()` with jobs queued, and `main` calls `Stop` only after the context is done. The comment in `Stop` says "workers finish remaining queued jobs". |
| `kafka_loss` | `NothingLost` | The process crashes after `CommitRecords` and before `Produce` has delivered the dead letter: the record is neither applied nor in the dead-letter topic. The comment says "at-least-once". |
| `payments_spans` | `SpansHaveStatus` | Without a tracer `chargeSpan` returns the request's own span, and `Charge` ends it: the status set afterwards is dropped. The comment calls it a "valid no-op span". |

### Why the bounds are enough to be interesting

- *Lease*: three tokens let a zombie present its token after two later leaders; five
  clock readings cover expiry, renewal at the last instant and a lapsed renewal.
- *Broker*: two messages on one queue can overtake each other, on two queues a poll
  of one promotes messages of the other (`next` promotes everything that is due).
  Three attempts give two different backoffs. The clock passes `MaxTime` while a
  message is parked, so that every backoff can elapse.
- *Resilience*: with two callers one can be the probe and the other a late reporter;
  one slot makes the bulkhead refuse. With three callers the same situations recur.
- *Limiter*: a call holds a box over several steps, so two callers and two identities
  need four boxes. Time passes inside `Allow`, so that two calls that passed the global
  bucket one after the other meet at an identity's, and both layers refuse. The TTL of 3
  is the time a bucket of 1 takes to refill and two delays of 1, the least for which an
  eviction is harmless (`LimiterConstants`): with a TTL of 1, the refill time alone,
  TLC finds `NoExtraBurst` violated by a call that is preempted between reading the
  clock and storing its mark.
- *Pools*: three jobs on two workers make a worker come back for more while the other
  one holds a result; no worker is what a count of zero or less launches; the pool has to
  finish then, too (`PoolsFinish` asks fairness only of the crew). Stage 3's
  endless feeder is one that may stop offering at any job and never closes.
- *API*: time is in units of 5 s: a header may take 1, a handler 2, the grace period
  is 5. Two requests suffice for a `GET` of what the other one creates; more only
  repeat this, as connections share nothing but the store. A body may come at once, in
  part (enough for `decodeJSON`, not for the answer to go out) or never.
- *Containers*: capacity 3 makes the head go round the ring's array; heaps of five
  have a node with two children below the root. Two values of equal priority make
  the heap's choice visible.
- *Jobs*: three jobs fill the queue of two while two workers are slow, so that
  `Submit` sheds load; two attempts give one backoff to cancel.
- *Kafka*: the shared key makes duplicates run in two processes at once; two faults
  give every pair of faults (apply and release both failing, a crash followed by a
  failed commit). Failing `Apply` calls are not counted as faults, so retries can
  always run out.
- *Payments*: two concurrent cancels of one payment, or a cancel racing the create.
- *Bank*: three transactions of which the account covers one or two; an insert that
  is refused after the debit (amount -1); a clock that may stand still.
- *Ledger*: three bits make sums wrap with one posting; two postings allow an entry
  and its reversal, or an account with two currencies.

Deadlock is checked in every run but `kafka_loss`. `JobProcessor`, `PaymentService`,
`Api`, `PostgresBank` and `Ledger` have an explicit `Terminated` step for their
legitimate final states, `WorkerPool` a `Rest` step (a pool that is over, or whose
workers wait for a caller that stopped reading), and `Services` the step `EndOfLog`, in
which every consumer waits in its poll at the end of the log. Any other stop is an
error.

### Fairness

Fairness is assumed only for the liveness properties, and only where the code or its
runtime provides it:

- *Broker*: the clock advances, handlers return, and `Consume` is called again for
  every queue, by one consumer or another, as its documentation tells the caller to do.
  `Take` and `Consume` need strong fairness: another consumer may take the message
  first, and a cancellation may be seen at the top of the loop, each time around, but
  not for ever. Nobody is obliged to publish.
- *Resilience*: the clock runs, goroutines that can move do, the dependency answers.
  Nobody is obliged to call.
- *Job processor*: goroutines are scheduled, handlers return, submitters submit and
  `Stop` is called. The cancellation is not fair: it may never come.
- *Rate limiter*: the clock runs, calls under way return, and `Sweep` is called again
  and again, as its comment demands.
- *Worker pools*: the goroutines of the crew that was launched are scheduled, the
  feeder feeds, and a caller that still reads takes what is there. Nobody is obliged to
  read on: `PoolsFinish` speaks of callers of stage 3 who do, `CancelStopsPool` of
  everybody. The deadline of stage 3's context comes if its feeder never ends;
  otherwise a cancellation may never come.
- *Kafka*: processes run and are restarted, the group reassigns partitions. `Produce`
  may never get an answer, no fault is obliged to happen, and there are at most
  `MaxFaults`.
- *Payments*: only the main goroutine and its shutdown deadline progress. Handlers
  may hang for ever in their store, which is the point of `ServersShutDown`.
- *API*: the clock runs, the timers of `net/http` fire, and an answer whose body has
  come goes out. Handlers and clients may hang, also in the middle of a body; it is the
  timeouts that make the shutdown end.

Lease, bank, ledger and containers have safety properties only.

## Proofs

Each proof module proves its theorems for every value of the constants the component's
assumption admits, with an invariant `IInv` (`LimiterIInv`, `PoolIInv`, `ApiIInv`,
`BalanceIInv` for the second part of a composition) that is inductive: `Init => IInv`,
`IInv /\ [Next]_vars => IInv'` with one step (or lemma) per action, and the theorems
follow from it. None of the properties is inductive alone; the tables' right column
names what had to be added.

| Module, assumption | Theorems | Property | What makes it inductive |
|---|---|---|---|
| `LeaseProofs`, `LeaseConstants` | `TypeCorrect` | `LeaseTypeOK` | |
| | `LeaseIsExclusive` | `SingleHolder` | `OneEntry` |
| | `HolderIsNewest` | `HolderHasNewestToken` | `EntryIsLastGrant`, `GrantsDistinct`, `GrantsBelowCounter` |
| | `FencingHolds` | `FencedOrder` | `WatermarkIsLast`, `AppliedWereGranted` |
| | `RefusalsAreJustified` | `RefusalIsJustified` | `RefusedBelowWatermark` |
| | `LeaseImplementsTerms` | `ImplementsTerms` | |
| `BrokerProofs`, `BrokerConstants`, `BackoffFits` | `TypeCorrect` | `TypeOK` | `Types` |
| | `TriageStaysTrue` | `TriageIsTrue` | `Known`: what waits or is in hand carries its history |
| | `BackoffIsKept` | `BackoffElapsed` | `Rested`: `visibleAt` is the failure plus the delay |
| | `FirstDeliveriesKeepOrder` | `FirstDeliveriesInOrder` | `Lines` |
| | `BrokerIsAQueue` | `ImplementsWorkQueue` | `Apart` |
| `GatesProofs`, `ResilienceConstants` | `TypeCorrect` | `CallersTypeOK` | finitely many calls inside |
| | `ProbesAreReported` | `FlagHasReporter` | |
| | `TripsHold` | `CooldownHonoured` | `CooldownRuns` |
| `GatesProofs`, `LimiterAssumption` | `TypesCorrect` | `GatesTypesOK` | |
| | `EvictionGivesNothing` | `NoExtraBurst` | `Asking`, `Suspects`, `Intact`: a box in the map never holds more than the ideal bucket |
| `ConcurrencyProofs`, `JobProcessorConstants` | `TypeCorrect` | `TypeOK` | `MayRetry` in every backoff |
| | `MetricsTellTheState` | `MetricsAddUp` | `InOnePlace`, `QueuedOnce`, `HeldOnce` |
| | `StopLeavesNothing` | `StopDrains` | `LeftBehind`, the `InFlight` gauge counts the workers that are up |
| | `JobsAreAQueue` | `ImplementsWorkQueue` | `InOnePlace` |
| `ConcurrencyProofs`, `PoolAssumption` | `TypesCorrect` | `TypesOK` | `PoolTypes` |
| | `WorkersNeverBlock` | `SendsFindRoom` | `PoolPlaces` |
| | `ClosingIsComplete` | `ClosedIsComplete` | `PoolPlaces`, `PoolClosing`, `PoolCounts` |
| `OrderConsumerProofs`, `OrderConsumerConstants` | `TypeCorrect` | `ConsumerTypeOK` | `AtCommit`, `Unowned` |
| | `CommitsFollowProcessing` | `CommitAfterProcessing` | `Accounted`, `ClaimsStand`, `FlightsHold` |
| | `OrdersAreAppliedOnce` | `AppliedOnce` | `Shared`, `Own` |
| `ServersProofs`, `PaymentServiceConstants` | `TypeCorrect` | `TypeOK` | |
| | `AnswersStayTrue` | `AnswersAreTrue` | `Routed`, `Made`, `Answered` |
| | `MetricsStayTrue` | `MetricsTellTheTruth` | `Counted` |
| | `GracefulExitIsComplete` | `GracefulExitLosesNothing` | `Served` |
| `ServersProofs`, `ApiAssumption` | `TypesCorrect` | `TypesOK` | `ServedTypes` |
| | `ApiAnswersStayTrue` | `ApiAnswersAreTrue` | `Filed`, `Fine` |
| | `CloseCutsOnlyUploads` | `ApiCutsOnlyUploads` | `InTime`: the connections' deadlines come before Shutdown's |
| `BooksProofs`, `BankConstants` | `TypeCorrect` | `TypeOK` | |
| | `OverdraftIsImpossible` | `NoOverdraft` | `RowHeld`, `IdIsFresh` |
| | `ListedNewestFirst` | `NewestFirst` | `SeenArePayments`, `SeenAreOlder` |
| | `BankImplementsContract` | `ImplementsContract` | |
| `BooksProofs`, `LedgerAssumption` | `EntriesStayPosted` | `HistoryKept` | `JournalsOwn`: no caller owns a posted entry's slice |
| | `AccountsBalance` | `BooksBalance` | `OwnersApart`, `ValidatedStays`, `ListedIsPosted`, `LinesSettled` |
| | `JournalTypeCorrect` | `Ledger!TypeOK` | `EntriesInOrder` |
| `BooksProofs`, `ShelfAssumption` | `ContainersImplementCollections` | `ImplementsCollections` | `IsRing`, `LruSound`, `HeapSound` |
| | `TypesCorrect` | `TypesOK` | the same, with `TypeCorrect` and `JournalTypeCorrect` |

The arguments, component by component:

- *Lease*. `SingleHolder` speaks of valid leases, but an expired entry may stay in the
  map until the next `Acquire`: `OneEntry` says there is at most one entry, valid or
  not. That entry carries the counter's value (`EntryIsLastGrant`) and a number is
  granted once, which says whose write set the watermark. In the refinement the leaders
  are the holders with a valid lease, which shrinks without a step of the coordinator
  when the clock moves: `ShrinkingIsDepose` shows that this is the abstract `Depose` or
  a stutter. `RefusalIsJustified` is proved only; no run repeats it.
- *Broker*. `Apart` says that a message is in one place: in a ready queue, parked, in
  one consumer's hands, acknowledged or dead. `Lines` relates three sequences: the
  entries of a ready queue that were never tried are, in this order, the published
  messages that were not started; `InStepAppend`, `InStepConcat`, `InStepSkip` and
  `InStepBegin` show that publishing, promoting, taking a redelivery and taking a first
  delivery keep it so. `PromotedIs` and `TakenIs` say what `next` does to the containers
  whatever order Go's map iteration produces. The shift in the delay is the one place
  where bits count: `DelayIs` shows from `BackoffFits` that `Width` bits are enough, with
  `2^n` taken as the number of subsets of `1 .. n`, because facts about powers are not
  in the libraries. For the refinement, `StatusIs` turns the definition of a
  message's place into the containers it may be found in and `StatusBecomes` does the
  same after the step; one lemma per action (`PublishEnqueues`, `TakeDelivers`,
  `AckSettles`, `BurySettles`, `RedeliverReturns`) maps it to the abstract one. That a
  parked message with the same ID is displaced is the case `RedeliverReturns` needs
  `WorkQueue` to allow.
- *Resilience*. The slots equal the number of callers inside the dependency, and while
  the breaker is open the time since the trip and the time left of the cooldown add up.
- *Rate limiter*. `NoExtraBurst` compares what an identity gets with one bucket that
  is never evicted. `Intact` relates that ideal bucket to the real one across evictions:
  it holds at least the tokens of the box in the map, and at least as many as have
  come in since the box was marked. Marks and readings may be late, each by at most
  `Lag`: a box that is evicted after a TTL of `Burst + 2 * Lag` was therefore full for
  every reading still in use, and the fresh one that replaces it no better. `BoxIsFound`
  shows that an `Allow` always finds a free box, so the bound on boxes stops nobody.
- *Job processor*. A job is in the queue, with one worker or over, in exactly one of
  them and only if its `Submit` sent it; `CountsNext` then follows every counter through
  every action. `Retried` is compared with a sum over the jobs (`RerunsNext`).
- *Worker pools*. A job that was offered is in one place and its result in one place
  (`PoolPlaces`); as the buffer of stage 2 is as large as the backlog, a result always
  finds room. What the workers have left behind when the results close follows from
  `PoolClosing`, and what stage 4 accepted from counting it (`PoolCounts`). Both
  theorems are proved only; no run repeats them.
- *Order consumer*. `CommitAfterProcessing` is about committed records, and a commit
  covers what was processed before: `Accounted` states it for `Past` records, those
  whose offset is committed or will be as soon as the owner commits. A duplicate is
  acknowledged on the word of a claim, so `ClaimsStand` says what a claim means: the
  order is applied, somebody has it in hand, or the claim outlived its attempt. For
  `AppliedOnce` with claims in memory, `Own` is an account: every application is covered
  by a process that holds the claim or by a fault that took it away.
- *Payments service*. Payments are appended, keep their customer and are canceled for
  good (`Grow`); hence an answer once true stays true (`OtherKept`), and each
  action need only justify its own (`AnswerKeeps`).
- *API*. An answer is what the handler wrote, the 500 of its panic or the 503 of its
  deadline; `Fine` says so of every call, and that what was written is true. Calls share
  nothing but the store, which only grows, so a step of one call leaves the others fine
  (`OthersStayFine`). `InTime` adds up the timeouts: when the shutdown begins, every
  connection's deadline comes before its own, and what is still there when it comes is
  past its deadline: a POST whose answer waits for a body without a timeout.
- *Bank*. A transaction past its `UPDATE` has the row to itself, and the row still
  covers the amount (`RowHeld`): that is why a debit validated by a second evaluation of
  the predicate cannot overdraw. Sums of payments are those of the `Sums` lemmas.
- *Ledger*. Three things can go wrong, and each has its lemmas. *Arithmetic*: amounts
  wrap, but it makes no difference when (`WrapTurns`, `WrapOfSum`), so a total is the
  wrapped sum of its lines. *Folds*: `Verdict`, `Total`, `Balance` and the concatenated
  lines are folds over sequences that may fail half-way; `TotallingFolds`,
  `BalancingFolds`, `JoiningFolds` turn them into functions of the number of lines read.
  Then, for any sound lines, the balances sum to the total unless an account mixes
  currencies (`SharesAddUp`); what `Post` accepts has one currency and sums to zero
  (`AcceptedIsBalanced`), so appending it settles the books as before
  (`EntrySettles`). *Aliasing*: `Post` validates before it has the lock, and the slice
  may not change in between. `ValidatedStays` holds because nobody else owns the slice
  (`OwnersApart`) and it was not handed out (`ListedIsPosted`). `HistoryKept` needs the
  part of it that is about posted entries (`JournalsOwn`).
- *Containers*. The invariant `ShelfSound` has a part for each representation, and
  each call is shown to keep it and to be the call of `Collections` of that name
  (`PushImplements`, `SeenImplements`, `PutImplements`, `TakeOutImplements`, ...).
  *Ring*: the slots are addressed by their distance from the head (`After`), so that the
  seam of the array disappears after `RemainderIsAfter` and `AfterIsTurn`; `Live` says
  which slots hold something. `Map` is a fold of pushes (`ImagingFolds`, `MapIs`).
  *RecentKeys*: the window has no key twice, so the one key an eviction takes out of the
  map is out of the window too (`WindowShrinks`). *LRU*: list and map seen as pairs
  (`Recency`) commute with taking an element out (`Drop`) and putting one in front
  (`InFront`), which is all the calls do. *Heap*: while `siftUp` runs, the rising element
  is the only one that may come before its parent (`Rising`), while `siftDown` runs, the
  sinking one the only parent that may come after its children (`Sinking`); a round
  keeps this, and either the loop is over and the tree a heap or the element has moved
  (`UpIs`, `DownIs`), which cannot happen more often than there are elements (`UpEnds`,
  `DownEnds`). Swaps do not change the bag (`SwapKeeps`).
- `Sums` proves, for the community modules' folds, that the sum over a finite set
  exists, is an integer, gains the weight of an element that joins
  and loses that of one that leaves; that a fold over a sequence is a function of the
  number of elements read (`FoldLike`, `UpTo`, `FoldOfStaysIn`, `FoldOfAgrees`); and that
  `2^n` counts subsets (`PowerIsCount`). The library's induction theorems need an
  operator as argument, which the provers cannot instantiate; `NoSmallestCounterexample`
  states induction on finite sets as a fact about a set of counterexamples, from the
  well-foundedness of strict inclusion.

What the assumptions exclude: `JobProcessorConstants` a pool without workers (its `Stop`
returns with jobs queued) and an unbuffered intake; `WorkerPoolConstants` the same
intake of stage 4; `ResilienceConstants` what panics or never opens; `LimiterConstants` a
TTL shorter than the time a bucket takes to refill and two delays of a call (see the
remarks), and fewer boxes than identities and calls need; `OrderConsumerConstants` an infinite number of processes
(`AppliedOnce` counts them); `BrokerConstants` first attempts beyond those for which
`Causes` gives the handler's outcomes. `BackoffFits` excludes delays that overflow, for
which `BackoffElapsed` is false. `LedgerConstants` has finitely many accounts, so that
balances can be summed, and slips that are entries' lines. `ContainersConstants` sets the
zero value apart from the elements; no operation looks at it, but `TypeOK` tells by it
that a slot has been released. The remaining conjuncts give the parameters their types.

What stays with TLC is liveness (`EventuallySettled`, `AdmitsAgain`,
`IdleIsForgotten`, `JobsStop`, `PoolsFinish`, `RecordsEnd`, `ServersShutDown`):
fairness and ENABLED are out of the prover's reach. Every safety
property and every refinement the passing runs check is proved.

## Remarks on the code

Differences between code and comments that reading and modelling turned up and that
have no run of their own:

- `ledger.go` lines 64-82: an entry whose lines sum to a multiple of 2^64 is accepted
  as balanced. `Total` stays zero in the same arithmetic (`BooksBalance`).
- `ledger.go` lines 115-130: an account posted to in two currencies makes every later
  `Balance` of it fail.
- `broker.go` line 266: `inflight` is keyed by the publisher's ID; two parked messages
  with one ID overwrite each other. The run has publishers that choose equal IDs:
  `WorkQueue` allows a returning message to displace queued namesakes, and
  `ImplementsWorkQueue` shows that this is the only way a message is lost.
- `lease.go` line 103: a token is accepted once per resource; a valid leader's second
  write to the same resource is refused as well.
- `fake.go` lines 9-10 claim the "same behavioral contract" as Postgres; for an
  unknown account the fake returns `ErrNotFound` and Postgres
  `ErrInsufficientFunds`, the fake accepts amounts of zero or less, and treats a
  limit of zero or less differently. `BankContract` is the contract both keep: its
  `ChargeOnce` asks for a positive amount, as Postgres does.
- `payments/service.go` lines 133-150: two concurrent cancels of one payment can both
  answer 204; `AnswersAreTrue` holds because the payment is canceled either way.
- `payments/http.go` lines 91-92 call `Recover` innermost; `Chain` makes it the
  outermost of its list.
- `05-jobprocessor/main.go`: `Metrics.Snapshot` returns zeros; `Submit` after `Stop`
  panics on the closed channel.
- `03-workerpool-cancel/main.go` line 84: `main`'s feeder sends outside a select, too,
  and blocks for ever after the cancellation. Line 66, "cancellation beats backlog": the
  select picks at random, so a worker may take more jobs first.
- `02-workerpool/main.go` line 39: with a count of zero or less no worker starts, the
  results are closed empty and the feeder blocks for ever.
- `secure.go` line 122: `NewLimiter` accepts a TTL shorter than the time a bucket takes
  to refill; then every eviction refills one. With a TTL just as long, a goroutine that
  is preempted between reading the clock and storing its mark (line 142), or before it
  spends (line 143), still gains a token. `LimiterConstants` asks for the two delays on
  top. `NoExtraBurst` claims nothing of an identity whose limiter was removed while in
  use (`limiter_sweep`).
- `api/main.go` lines 64 and 285: `Create` takes no notice of its context, so a request
  answered 503 by `TimeoutHandler` may still create its payment. `ApiAnswersAreTrue`
  therefore leaves open what a 503 means, and only that.
- `api/main.go` lines 98-106 and 296-300: the server has a `ReadHeaderTimeout` and no
  `ReadTimeout`. A client that stalls the body of its POST keeps the connection active
  although its handler has timed out, and `Shutdown` runs into its 25 seconds.
  `ApiCutsOnlyUploads` says that nothing else does.
- `api/main.go` lines 322-326: the readiness flag falls immediately before `Shutdown`
  closes the listener; a load balancer hardly has the time to see it.
- `api/main.go` lines 160-171: `Recover` "only writes a 500 when the response has not
  started". It sits outside `TimeoutHandler`, which buffers the response and discards
  it on a panic, so it never has started.
- `lru.go` lines 38-40: `OnEvict`'s callback runs under the cache's lock; one that
  calls the cache deadlocks.

## Plan

1. *Done*: every component with state or a protocol of its own, with the abstract
   specifications `LeaderTerms`, `WorkQueue`, `BankContract` and `Collections`.
2. *Done*: the theorems above; every safety property and refinement the passing runs
   check is proved.
3. *To model*, should the code grow: configuration that is reloaded, a producer that
   is wired into the consumer, `AccessLog` in the payments service's chain.
