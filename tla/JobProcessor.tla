---------------------------- MODULE JobProcessor ----------------------------
(***************************************************************************)
(* The job processor of 08-concurrency/examples/05-jobprocessor/main.go:   *)
(* a bounded intake channel, workers that retry, cancellation and Stop.    *)
(*                                                                         *)
(* A select with several ready cases picks any of them.  Submit sends on   *)
(* the channel and counts in two steps, which workers may interleave.      *)
(***************************************************************************)
EXTENDS Integers, Sequences, FiniteSets, Functions

CONSTANTS
    Jobs,          \* the jobs submitted, each once, by a goroutine of its own
    Workers,       \* the goroutines Start launches
    QueueDepth,    \* capacity of p.queue
    MaxAttempts,   \* policy.MaxAttempts as configured, before WithDefaults
    Cancels        \* whether the context may be canceled

None == "none"

ASSUME JobProcessorConstants ==
    /\ IsFiniteSet(Jobs) /\ None \notin Jobs
    /\ IsFiniteSet(Workers) /\ Workers # {}   \* Stop drains nothing without one
    /\ QueueDepth \in Nat \ {0}   \* an unbuffered intake behaves differently
    /\ MaxAttempts \in Int
    /\ Cancels \in BOOLEAN

VARIABLES
    queue,      \* p.queue, the buffered jobs
    closed,     \* close(p.queue) happened
    canceled,   \* ctx.Done() is closed
    worker,     \* worker -> where its goroutine is, see WorkerPlaces
    job,        \* worker -> the job in hand
    attempt,    \* worker -> runWithRetries' loop variable
    submit,     \* job -> where its Submit is
    stop,       \* "before", "waiting" in wg.Wait, or "returned"
    metrics,    \* p.Metrics
    runs,       \* history: job -> how often its handler ran
    outcome     \* history: job -> "none", "succeeded" or "failed"

vars == <<queue, closed, canceled, worker, job, attempt, submit, stop,
          metrics, runs, outcome>>
held == <<job, attempt>>
history == <<runs, outcome>>

(* new: not scheduled yet; select: at the select of Start's loop; run:     *)
(* inside safeRun; backoff: at the select of runWithRetries; exiting:      *)
(* between the deferred calls; exited: after wg.Done.                      *)
WorkerPlaces == {"new", "select", "run", "backoff", "exiting", "exited"}

(* accept: the send succeeded, Accepted is not counted yet. *)
SubmitPlaces == {"before", "accept", "accepted", "rejected"}

Counters == {"Accepted", "Rejected", "Succeeded", "Failed", "Retried", "InFlight"}

(* RetryPolicy.WithDefaults. *)
Attempts == IF MaxAttempts <= 0 THEN 1 ELSE MaxAttempts

-----------------------------------------------------------------------------
(* NewProcessor, and Start: the goroutines exist but have not run yet. *)
Init ==
    /\ queue = <<>>
    /\ closed = FALSE
    /\ canceled = FALSE
    /\ worker = [w \in Workers |-> "new"]
    /\ job = [w \in Workers |-> None]
    /\ attempt = [w \in Workers |-> 0]
    /\ submit = [j \in Jobs |-> "before"]
    /\ stop = "before"
    /\ metrics = [c \in Counters |-> 0]
    /\ runs = [j \in Jobs |-> 0]
    /\ outcome = [j \in Jobs |-> None]

Goto(w, place) == worker' = [worker EXCEPT ![w] = place]
Count(c) == metrics' = [metrics EXCEPT ![c] = @ + 1]
At(j, place) == submit' = [submit EXCEPT ![j] = place]

Full == Len(queue) >= QueueDepth

(* Submit's send finds room in the buffer ... *)
SubmitSends(j) ==
    /\ submit[j] = "before"
    /\ ~closed
    /\ ~Full
    /\ queue' = Append(queue, j)
    /\ At(j, "accept")
    /\ UNCHANGED <<closed, canceled, worker, held, stop, metrics, history>>

(* ... and only then counts the job. *)
SubmitCounts(j) ==
    /\ submit[j] = "accept"
    /\ Count("Accepted")
    /\ At(j, "accepted")
    /\ UNCHANGED <<queue, closed, canceled, worker, held, stop, history>>

(* The default case: a full queue sheds the job. *)
SubmitSheds(j) ==
    /\ submit[j] = "before"
    /\ ~closed
    /\ Full
    /\ Count("Rejected")
    /\ At(j, "rejected")
    /\ UNCHANGED <<queue, closed, canceled, worker, held, stop, history>>

(* InFlight counts the worker, not a job. *)
Launch(w) ==
    /\ worker[w] = "new"
    /\ Count("InFlight")
    /\ Goto(w, "select")
    /\ UNCHANGED <<queue, closed, canceled, held, submit, stop, history>>

(* A worker's select receives a job and runs it for the first time. *)
Receive(w) ==
    /\ worker[w] = "select"
    /\ queue # <<>>
    /\ queue' = Tail(queue)
    /\ job' = [job EXCEPT ![w] = Head(queue)]
    /\ attempt' = [attempt EXCEPT ![w] = 1]
    /\ runs' = [runs EXCEPT ![Head(queue)] = @ + 1]
    /\ Goto(w, "run")
    /\ UNCHANGED <<closed, canceled, submit, stop, metrics, outcome>>

(* Mutation: the `ok` of the receive is ignored. *)
NeverDrained == FALSE

(* Mutation: a closed channel ends the worker although jobs are buffered. *)
DrainedWhenClosed == closed

(* `!ok`: the channel is closed and its buffer empty. *)
Drained == closed /\ queue = <<>>

(* The worker sees the closed channel, or its select takes ctx.Done(),     *)
(* also when jobs are waiting; InFlight goes down ...                      *)
Return(w) ==
    /\ worker[w] = "select"
    /\ Drained \/ canceled
    /\ metrics' = [metrics EXCEPT !["InFlight"] = @ - 1]
    /\ Goto(w, "exiting")
    /\ UNCHANGED <<queue, closed, canceled, held, submit, stop, history>>

(* ... before wg.Done. *)
Exit(w) ==
    /\ worker[w] = "exiting"
    /\ Goto(w, "exited")
    /\ UNCHANGED <<queue, closed, canceled, held, submit, stop, metrics, history>>

(* runWithRetries returns to Start's loop. *)
Done(w, result) ==
    /\ Count(IF result = "succeeded" THEN "Succeeded" ELSE "Failed")
    /\ outcome' = [outcome EXCEPT ![job[w]] = result]
    /\ job' = [job EXCEPT ![w] = None]
    /\ attempt' = [attempt EXCEPT ![w] = 0]
    /\ Goto(w, "select")

(* The handler returned nil. *)
Succeed(w) ==
    /\ worker[w] = "run"
    /\ Done(w, "succeeded")
    /\ UNCHANGED <<queue, closed, canceled, submit, stop, runs>>

(* Mutation: `attempt <= policy.MaxAttempts` before the retry. *)
MayRetryOnceMore(w) == attempt[w] <= Attempts

(* `attempt < policy.MaxAttempts` *)
MayRetry(w) == attempt[w] < Attempts

(* The handler failed for good: a PermanentError, an error that wraps      *)
(* context.Canceled, or any error or panic of the last attempt.            *)
Kinds == {"permanent", "canceled", "error", "panic"}
Final(w, kind) == kind \in {"permanent", "canceled"} \/ ~MayRetry(w)

Fail(w, kind) ==
    /\ worker[w] = "run"
    /\ Final(w, kind)
    /\ Done(w, "failed")
    /\ UNCHANGED <<queue, closed, canceled, submit, stop, runs>>

(* It failed with attempts left: count the retry and back off. *)
BackOff(w, kind) ==
    /\ worker[w] = "run"
    /\ ~Final(w, kind)
    /\ Count("Retried")
    /\ Goto(w, "backoff")
    /\ UNCHANGED <<queue, closed, canceled, held, submit, stop, history>>

(* time.After fires: the next attempt. *)
Retry(w) ==
    /\ worker[w] = "backoff"
    /\ attempt' = [attempt EXCEPT ![w] = @ + 1]
    /\ runs' = [runs EXCEPT ![job[w]] = @ + 1]
    /\ Goto(w, "run")
    /\ UNCHANGED <<queue, closed, canceled, job, submit, stop, metrics, outcome>>

(* Mutation: a cancelled backoff returns without p.fail. *)
CancelBackoffSilent(w) ==
    /\ worker[w] = "backoff"
    /\ canceled
    /\ job' = [job EXCEPT ![w] = None]
    /\ attempt' = [attempt EXCEPT ![w] = 0]
    /\ Goto(w, "select")
    /\ UNCHANGED <<queue, closed, canceled, submit, stop, metrics, history>>

(* Mutation: a cancelled backoff puts the job back. *)
CancelBackoffRequeues(w) ==
    /\ worker[w] = "backoff"
    /\ canceled
    /\ queue' = Append(queue, job[w])
    /\ job' = [job EXCEPT ![w] = None]
    /\ attempt' = [attempt EXCEPT ![w] = 0]
    /\ Goto(w, "select")
    /\ UNCHANGED <<closed, canceled, submit, stop, metrics, history>>

(* ctx.Done() during the backoff: the job fails. *)
CancelBackoff(w) ==
    /\ worker[w] = "backoff"
    /\ canceled
    /\ Done(w, "failed")
    /\ UNCHANGED <<queue, closed, canceled, submit, stop, runs>>

(* SIGINT, or the caller's cancel. *)
Cancel ==
    /\ Cancels
    /\ ~canceled
    /\ canceled' = TRUE
    /\ UNCHANGED <<queue, closed, worker, held, submit, stop, metrics, history>>

(* Stop, called once and after the last Submit as main does: close ... *)
StopCloses ==
    /\ stop = "before"
    /\ \A j \in Jobs : submit[j] \notin {"before", "accept"}
    /\ closed' = TRUE
    /\ stop' = "waiting"
    /\ UNCHANGED <<queue, canceled, worker, held, submit, metrics, history>>

(* wg.Wait's condition. *)
WorkersDone == \A w \in Workers : worker[w] = "exited"

(* ... and wg.Wait. *)
StopReturns ==
    /\ stop = "waiting"
    /\ WorkersDone
    /\ stop' = "returned"
    /\ UNCHANGED <<queue, closed, canceled, worker, held, submit, metrics, history>>

Terminated == stop = "returned" /\ UNCHANGED vars

Step(w) ==
    \/ Launch(w) \/ Receive(w) \/ Return(w) \/ Exit(w)
    \/ Succeed(w) \/ Retry(w) \/ CancelBackoff(w)
    \/ \E kind \in Kinds : Fail(w, kind) \/ BackOff(w, kind)

Submit(j) == SubmitSends(j) \/ SubmitCounts(j) \/ SubmitSheds(j)

Next ==
    \/ \E j \in Jobs : Submit(j)
    \/ \E w \in Workers : Step(w)
    \/ Cancel \/ StopCloses \/ StopReturns \/ Terminated

Spec == Init /\ [][Next]_vars

-----------------------------------------------------------------------------
Queued(j) == \E i \in 1 .. Len(queue) : queue[i] = j
Running(j) == \E w \in Workers : job[w] = j

(* Type correctness; a worker holds a job exactly while it runs it or      *)
(* backs off, and never beyond the policy's attempts.                      *)
TypeOK ==
    /\ queue \in Seq(Jobs) /\ Len(queue) <= QueueDepth
    /\ closed \in BOOLEAN /\ canceled \in BOOLEAN
    /\ worker \in [Workers -> WorkerPlaces]
    /\ job \in [Workers -> Jobs \cup {None}]
    /\ attempt \in [Workers -> 0 .. Attempts]
    /\ submit \in [Jobs -> SubmitPlaces]
    /\ stop \in {"before", "waiting", "returned"}
    /\ metrics \in [Counters -> Nat]
    /\ \A w \in Workers : job[w] # None <=> worker[w] \in {"run", "backoff"}

(* The runs of jobs beyond their first, and the backoffs under way. *)
Reruns == SumFunction([j \in Jobs |-> IF runs[j] > 0 THEN runs[j] - 1 ELSE 0])
Waiting == {w \in Workers : worker[w] = "backoff"}

(* The metrics account for every job at every moment: accepted jobs are    *)
(* queued, in a worker's hands, succeeded or failed, once each; the only   *)
(* slack is a Submit between its send and its Add (lines 121-124), which   *)
(* lets Succeeded + Failed run ahead of Accepted.  Retried counts the      *)
(* backoffs begun, so it exceeds the second and later runs of the jobs by  *)
(* the backoffs under way or cut short (lines 147-156).                    *)
MetricsAddUp ==
    /\ metrics["Accepted"] + Cardinality({j \in Jobs : submit[j] = "accept"})
        = Len(queue) + Cardinality({w \in Workers : job[w] # None})
            + metrics["Succeeded"] + metrics["Failed"]
    /\ metrics["Rejected"] = Cardinality({j \in Jobs : submit[j] = "rejected"})
    /\ \A c \in {"Succeeded", "Failed"} :
        metrics[c] = Cardinality({j \in Jobs :
            outcome[j] = IF c = "Succeeded" THEN "succeeded" ELSE "failed"})
    /\ metrics["Retried"] >= Reruns + Cardinality(Waiting)
    /\ ~canceled => metrics["Retried"] = Reruns + Cardinality(Waiting)

(* When Stop returns no job is in a worker's hands, InFlight is back at    *)
(* zero, and without a cancellation every accepted job has an outcome:     *)
(* "drains in-flight work before returning" (line 177).                    *)
StopDrains ==
    stop = "returned" =>
        /\ metrics["InFlight"] = 0
        /\ \A j \in Jobs : ~Running(j)
        /\ \A j \in Jobs :
            submit[j] = "accepted" /\ outcome[j] = None => canceled
        /\ \A j \in Jobs : runs[j] > 0 => outcome[j] # None

(* A job is handed to one worker, once, and gets one outcome. *)
StatusOf(j) ==
    CASE outcome[j] = "succeeded" -> "acked"
      [] outcome[j] = "failed" -> "dead"
      [] Running(j) -> "held"
      [] Queued(j) -> "queued"
      [] OTHER -> "new"
WQ == INSTANCE WorkQueue WITH
        Messages <- Jobs,
        MaxDeliveries <- 1,
        key <- [j \in Jobs |-> j],
        status <- [j \in Jobs |-> StatusOf(j)],
        left <- [j \in Jobs |-> IF StatusOf(j) = "queued" THEN 1 ELSE 0]
ImplementsWorkQueue == WQ!QueueSpec

(* Line 179: "workers finish remaining queued jobs, then see closed        *)
(* channel".  main calls Stop only after ctx.Done(), when the workers'     *)
(* select may leave with jobs still queued.                                *)
QueuedJobsFinished == stop = "returned" => queue = <<>>
=============================================================================
