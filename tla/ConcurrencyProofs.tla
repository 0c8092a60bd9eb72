------------------------- MODULE ConcurrencyProofs -------------------------
(***************************************************************************)
(* Proofs about the stages of the concurrency progression.  JobProcessor   *)
(* (stage 5), for every set of jobs, every pool of workers, every queue    *)
(* depth and every retry policy: type correctness, the bookkeeping of the  *)
(* metrics, what a drained Stop leaves, and that the processor implements  *)
(* the abstract work queue.  WorkerPool (stages 2 to 4), for every backlog *)
(* and every pool: type correctness, that a send on the results never      *)
(* waits, and that closing them leaves nothing behind.                     *)
(***************************************************************************)
EXTENDS Concurrency, Sums

Held == {"run", "backoff"}
Alive == {"select", "run", "backoff"}
Submitted == {"accept", "accepted"}

(* The conjuncts of TypeOK, grouped, and the types it leaves out. *)
ChannelTypes ==
    /\ queue \in Seq(Jobs)
    /\ closed \in BOOLEAN /\ canceled \in BOOLEAN
    /\ stop \in {"before", "waiting", "returned"}

WorkerTypes ==
    /\ worker \in [Workers -> WorkerPlaces]
    /\ job \in [Workers -> Jobs \cup {None}]
    /\ attempt \in [Workers -> 0 .. Attempts]
    /\ \A w \in Workers : job[w] # None <=> worker[w] \in Held
    /\ \A w \in Workers : worker[w] = "backoff" => MayRetry(w)

JobTypes ==
    /\ submit \in [Jobs -> SubmitPlaces]
    /\ runs \in [Jobs -> Nat]
    /\ outcome \in [Jobs -> {None, "succeeded", "failed"}]

(* A job is in the queue, in a worker's hands or over, in one of these at  *)
(* a time and only if its Submit got it into the queue.                    *)
InOnePlace(j) ==
    /\ submit[j] \in Submitted <=> Queued(j) \/ Running(j) \/ outcome[j] # None
    /\ runs[j] > 0 <=> Running(j) \/ outcome[j] # None
    /\ Queued(j) => runs[j] = 0
    /\ Running(j) => outcome[j] = None

(* The queue holds no job twice, and no job is held twice. *)
QueuedOnce == \A i, k \in 1 .. Len(queue) : queue[i] = queue[k] => i = k
HeldOnce == \A v, w \in Workers : job[v] = job[w] /\ job[v] # None => v = w

(* Workers leave when there is nothing left to take, or cancelled. *)
LeftBehind ==
    /\ closed <=> stop # "before"
    /\ \A w \in Workers : worker[w] \in {"exiting", "exited"} => canceled \/ Drained
    /\ stop = "returned" => WorkersDone

Shape ==
    /\ ChannelTypes /\ Len(queue) <= QueueDepth
    /\ WorkerTypes
    /\ JobTypes
    /\ \A j \in Jobs : InOnePlace(j)
    /\ QueuedOnce /\ HeldOnce
    /\ LeftBehind

(* succeed, fail, cancelled backoff: runWithRetries returns. *)
Ends(w, result) ==
    \/ Succeed(w) /\ result = "succeeded"
    \/ result = "failed" /\ (CancelBackoff(w) \/ \E kind \in Kinds : Fail(w, kind))

LEMMA AttemptsArePositive == Attempts \in Nat /\ 1 \in 0 .. Attempts /\ 0 \in 0 .. Attempts
  BY JobProcessorConstants DEF Attempts

(* Where the jobs are after a send, after a receive, and when one ends.    *)
LEMMA SendMoves ==
  ASSUME Shape, NEW j \in Jobs, SubmitSends(j)
  PROVE  /\ ~Queued(j) /\ ~Running(j) /\ outcome[j] = None /\ outcome' = outcome
         /\ \A k \in Jobs : (Running(k)' <=> Running(k)) /\ (Queued(k)' <=> Queued(k) \/ k = j)
<1>1. /\ submit[j] = "before" /\ queue \in Seq(Jobs) /\ queue' = Append(queue, j)
      /\ job' = job /\ outcome' = outcome
  BY DEF SubmitSends, held, history, Shape, ChannelTypes
<1>2. ~Queued(j) /\ ~Running(j) /\ outcome[j] = None
  BY <1>1 DEF Shape, InOnePlace, Submitted
<1>3. /\ Len(queue') = Len(queue) + 1 /\ queue'[Len(queue) + 1] = j
      /\ \A i \in 1 .. Len(queue) : queue'[i] = queue[i]
  BY <1>1
<1>4. \A k \in Jobs : Queued(k)' <=> Queued(k) \/ k = j
  BY <1>1, <1>3 DEF Queued
<1>5. \A k \in Jobs : Running(k)' <=> Running(k)
  BY <1>1 DEF Running
<1> QED
  BY <1>1, <1>2, <1>4, <1>5

LEMMA ReceiveMoves ==
  ASSUME Shape, NEW w \in Workers, Receive(w)
  PROVE  /\ Head(queue) \in Jobs /\ Queued(Head(queue)) /\ ~Running(Head(queue))
         /\ outcome[Head(queue)] = None /\ outcome' = outcome
         /\ \A j \in Jobs : (Running(j)' <=> Running(j) \/ j = Head(queue))
                            /\ (Queued(j)' <=> Queued(j) /\ j # Head(queue))
<1>1. /\ worker[w] = "select" /\ queue \in Seq(Jobs) /\ queue # <<>> /\ queue' = Tail(queue)
      /\ job' = [job EXCEPT ![w] = Head(queue)] /\ outcome' = outcome
  BY DEF Receive, Shape, ChannelTypes
<1>2. PICK h \in Jobs : h = Head(queue) /\ h = queue[1] /\ Queued(h)
  BY <1>1 DEF Queued
<1>3. /\ Len(queue') = Len(queue) - 1 /\ Len(queue) \in Nat \ {0}
      /\ \A i \in 1 .. Len(queue') : queue'[i] = queue[i + 1] /\ i + 1 \in 1 .. Len(queue)
  BY <1>1
<1>4. ~Running(h) /\ outcome[h] = None
  BY <1>2 DEF Shape, InOnePlace
<1>5. job[w] = None
  BY <1>1 DEF Shape, WorkerTypes, Held
<1>6. \A j \in Jobs : Running(j)' <=> Running(j) \/ j = h
  BY <1>1, <1>2, <1>5, JobProcessorConstants DEF Running, Shape, WorkerTypes
<1>7. ASSUME NEW j \in Jobs, Queued(j)'
      PROVE  Queued(j) /\ j # h
  <2>1. PICK i \in 1 .. Len(queue') : queue'[i] = j
    BY <1>7 DEF Queued
  <2>2. queue[i + 1] = j /\ i + 1 \in 1 .. Len(queue) /\ 1 \in 1 .. Len(queue) /\ i + 1 # 1
    BY <1>3, <2>1
  <2> QED
    BY <1>2, <2>2 DEF Shape, QueuedOnce, Queued
<1>8. ASSUME NEW j \in Jobs, Queued(j), j # h
      PROVE  Queued(j)'
  <2>1. PICK i \in 1 .. Len(queue) : queue[i] = j
    BY <1>8 DEF Queued
  <2>2. i # 1
    BY <1>2, <1>8, <2>1
  <2>3. i - 1 \in 1 .. Len(queue') /\ (i - 1) + 1 = i
    BY <1>3, <2>1, <2>2
  <2>4. queue'[i - 1] = j
    BY <1>3, <2>1, <2>3
  <2> QED
    BY <2>3, <2>4 DEF Queued
<1> QED
  BY <1>1, <1>2, <1>4, <1>6, <1>7, <1>8

LEMMA EndMoves ==
  ASSUME Shape, NEW w \in Workers, NEW result, Ends(w, result)
  PROVE  /\ result \in {"succeeded", "failed"}
         /\ job[w] \in Jobs /\ Running(job[w]) /\ ~Queued(job[w]) /\ outcome[job[w]] = None
         /\ outcome' = [outcome EXCEPT ![job[w]] = result]
         /\ \A j \in Jobs : (Queued(j)' <=> Queued(j)) /\ (Running(j)' <=> Running(j) /\ j # job[w])
<1>1. /\ worker[w] \in Held /\ result \in {"succeeded", "failed"}
      /\ outcome' = [outcome EXCEPT ![job[w]] = result]
      /\ job' = [job EXCEPT ![w] = None] /\ queue' = queue
  BY DEF Ends, Succeed, CancelBackoff, Fail, Done, Held
<1>2. PICK h \in Jobs : h = job[w] /\ Running(h)
  BY <1>1 DEF Shape, WorkerTypes, Running
<1>3. ~Queued(h) /\ outcome[h] = None
  BY <1>2 DEF Shape, InOnePlace
<1>4. \A j \in Jobs : (Queued(j)' <=> Queued(j)) /\ (Running(j)' <=> Running(j) /\ j # h)
  BY <1>1, <1>2, JobProcessorConstants DEF Queued, Running, Shape, HeldOnce, WorkerTypes
<1> QED
  BY <1>1, <1>2, <1>3, <1>4

LEMMA ShapeInit == Init => Shape
<1> SUFFICES ASSUME Init PROVE Shape
  OBVIOUS
<1>1. ChannelTypes /\ Len(queue) <= QueueDepth /\ JobTypes
  <2>1. queue = <<>> /\ Len(queue) = 0
    BY DEF Init
  <2>2. ChannelTypes
    <3>1. queue \in Seq(Jobs)
      BY <2>1
    <3>2. closed = FALSE /\ canceled = FALSE /\ stop = "before"
      BY DEF Init
    <3> QED
      BY <3>1, <3>2 DEF ChannelTypes
  <2>3. JobTypes
    BY DEF Init, JobTypes, SubmitPlaces
  <2> QED
    BY <2>1, <2>2, <2>3, JobProcessorConstants
<1>2. WorkerTypes
  BY AttemptsArePositive DEF Init, WorkerTypes, WorkerPlaces, Held
<1>3. \A j \in Jobs : InOnePlace(j)
  BY JobProcessorConstants DEF Init, InOnePlace, Submitted, Queued, Running
<1>4. QueuedOnce /\ HeldOnce /\ LeftBehind
  BY DEF Init, QueuedOnce, HeldOnce, LeftBehind
<1> QED
  BY <1>1, <1>2, <1>3, <1>4 DEF Shape

LEMMA ShapeNext == Shape /\ [Next]_vars => Shape'
<1> SUFFICES ASSUME Shape, [Next]_vars PROVE Shape'
  OBVIOUS
<1> USE DEF Shape
<1>1. ASSUME NEW j \in Jobs, SubmitSends(j)
      PROVE  Shape'
  <2>1. /\ submit[j] = "before" /\ ~closed /\ Len(queue) < QueueDepth
        /\ queue' = Append(queue, j)
        /\ submit' = [submit EXCEPT ![j] = "accept"]
        /\ UNCHANGED <<closed, canceled, worker, job, attempt, stop, runs, outcome>>
    BY <1>1, JobProcessorConstants DEF SubmitSends, At, Full, held, history, ChannelTypes
  <2>2. ~Queued(j) /\ ~Running(j) /\ outcome[j] = None
    BY <2>1 DEF InOnePlace, Submitted
  <2>3. /\ queue' \in Seq(Jobs) /\ Len(queue') = Len(queue) + 1
        /\ queue'[Len(queue) + 1] = j
        /\ \A i \in 1 .. Len(queue) : queue'[i] = queue[i]
    BY <2>1 DEF ChannelTypes
  <2>4. ChannelTypes' /\ Len(queue') <= QueueDepth
    BY <2>1, <2>3, JobProcessorConstants DEF ChannelTypes
  <2>5. WorkerTypes' /\ JobTypes' /\ HeldOnce'
    BY <2>1 DEF WorkerTypes, JobTypes, HeldOnce, SubmitPlaces, MayRetry
  <2>6. \A k \in Jobs : (Running(k)' <=> Running(k)) /\ (Queued(k)' <=> Queued(k) \/ k = j)
    BY <1>1, SendMoves
  <2>7. \A k \in Jobs : InOnePlace(k)'
    BY <2>1, <2>2, <2>6 DEF InOnePlace, Submitted, JobTypes
  <2>8. QueuedOnce'
    <3>1. ASSUME NEW i \in 1 .. Len(queue'), NEW k \in 1 .. Len(queue'), queue'[i] = queue'[k], i < k
          PROVE  FALSE
      <4>1. i \in 1 .. Len(queue)
        BY <2>3, <3>1 DEF ChannelTypes
      <4>2. CASE k = Len(queue) + 1
        BY <2>2, <2>3, <3>1, <4>1, <4>2 DEF Queued
      <4>3. CASE k # Len(queue) + 1
        BY <2>3, <3>1, <4>1, <4>3 DEF QueuedOnce, ChannelTypes
      <4> QED
        BY <4>2, <4>3
    <3> QED
      BY <3>1, <2>3 DEF QueuedOnce, ChannelTypes
  <2>9. LeftBehind'
    BY <2>1, <2>3 DEF LeftBehind, Drained, WorkersDone
  <2> QED
    BY <2>4, <2>5, <2>7, <2>8, <2>9
<1>2. ASSUME NEW w \in Workers, Receive(w)
      PROVE  Shape'
  <2>1. /\ worker[w] = "select" /\ queue # <<>>
        /\ queue' = Tail(queue)
        /\ job' = [job EXCEPT ![w] = Head(queue)]
        /\ attempt' = [attempt EXCEPT ![w] = 1]
        /\ runs' = [runs EXCEPT ![Head(queue)] = @ + 1]
        /\ worker' = [worker EXCEPT ![w] = "run"]
        /\ UNCHANGED <<closed, canceled, submit, stop, outcome>>
    BY <1>2 DEF Receive, Goto
  <2>2. PICK h \in Jobs : h = Head(queue) /\ h = queue[1] /\ Queued(h)
    BY <2>1 DEF Queued, ChannelTypes
  <2>3. /\ queue' \in Seq(Jobs) /\ Len(queue') = Len(queue) - 1 /\ Len(queue) \in Nat \ {0}
        /\ \A i \in 1 .. Len(queue') : queue'[i] = queue[i + 1] /\ i + 1 \in 1 .. Len(queue)
    BY <2>1 DEF ChannelTypes
  <2>4. ChannelTypes' /\ Len(queue') <= QueueDepth
    BY <2>1, <2>3, JobProcessorConstants DEF ChannelTypes
  <2>5. ~Running(h) /\ outcome[h] = None /\ runs[h] = 0 /\ submit[h] \in Submitted
    BY <2>2 DEF InOnePlace
  <2>6. WorkerTypes'
    BY <2>1, <2>2, AttemptsArePositive, JobProcessorConstants DEF WorkerTypes, WorkerPlaces, Held, MayRetry
  <2>7. JobTypes'
    BY <2>1, <2>2 DEF JobTypes
  <2>8. job[w] = None
    BY <2>1 DEF WorkerTypes, Held
  <2>9. \A j \in Jobs : (Running(j)' <=> Running(j) \/ j = h) /\ (Queued(j)' <=> Queued(j) /\ j # h)
    BY <1>2, <2>2, ReceiveMoves
  <2>10. \A j \in Jobs : InOnePlace(j)'
    BY <2>1, <2>2, <2>5, <2>9 DEF InOnePlace, JobTypes
  <2>11. QueuedOnce'
    BY <2>3 DEF QueuedOnce
  <2>12. HeldOnce'
    BY <2>1, <2>2, <2>5 DEF HeldOnce, Running, WorkerTypes
  <2>13. LeftBehind'
    <3>1. Drained => FALSE
      BY <2>1 DEF Drained
    <3> QED
      BY <2>1, <3>1 DEF LeftBehind, WorkersDone, WorkerTypes
  <2> QED
    BY <2>4, <2>6, <2>7, <2>10, <2>11, <2>12, <2>13
<1>3. ASSUME NEW w \in Workers, NEW result, Ends(w, result)
      PROVE  Shape'
  <2>1. /\ worker[w] \in Held /\ result \in {"succeeded", "failed"}
        /\ outcome' = [outcome EXCEPT ![job[w]] = result]
        /\ job' = [job EXCEPT ![w] = None]
        /\ attempt' = [attempt EXCEPT ![w] = 0]
        /\ worker' = [worker EXCEPT ![w] = "select"]
        /\ UNCHANGED <<queue, closed, canceled, submit, stop, runs>>
    BY <1>3 DEF Ends, Succeed, CancelBackoff, Fail, Done, Goto, Held
  <2>2. PICK h \in Jobs : h = job[w] /\ Running(h)
    BY <2>1 DEF WorkerTypes, Running
  <2>3. /\ ~Queued(h) /\ outcome[h] = None /\ runs[h] > 0 /\ runs[h] \in Nat
        /\ submit[h] \in Submitted
    BY <2>2 DEF InOnePlace, JobTypes
  <2>4. ChannelTypes' /\ Len(queue') <= QueueDepth /\ QueuedOnce'
    BY <2>1 DEF ChannelTypes, QueuedOnce
  <2>5. WorkerTypes'
    BY <2>1, AttemptsArePositive, JobProcessorConstants DEF WorkerTypes, WorkerPlaces, Held, MayRetry
  <2>6. JobTypes'
    BY <2>1, <2>2 DEF JobTypes
  <2>7. HeldOnce'
    BY <2>1 DEF HeldOnce, WorkerTypes
  <2>8. \A j \in Jobs : (Queued(j)' <=> Queued(j)) /\ (Running(j)' <=> Running(j) /\ j # h)
    BY <1>3, <2>2, EndMoves
  <2>9. \A j \in Jobs : InOnePlace(j)'
    BY <2>1, <2>2, <2>3, <2>8 DEF InOnePlace, JobTypes, None
  <2>10. LeftBehind'
    BY <2>1 DEF LeftBehind, Drained, WorkersDone, WorkerTypes, Held
  <2> QED
    BY <2>4, <2>5, <2>6, <2>7, <2>9, <2>10
(* The steps that change neither the queue nor who holds which job.        *)
<1>4. ASSUME UNCHANGED <<queue, job>>, NEW w \in Workers, NEW j \in Jobs,
             \/ UNCHANGED <<submit, runs, outcome>>
             \/ SubmitCounts(j)
             \/ SubmitSheds(j)
             \/ Retry(w)
      PROVE  (\A k \in Jobs : InOnePlace(k)') /\ QueuedOnce' /\ HeldOnce'
  <2>1. \A k \in Jobs : (Queued(k)' <=> Queued(k)) /\ (Running(k)' <=> Running(k))
    BY <1>4 DEF Queued, Running
  <2>2. QueuedOnce' /\ HeldOnce'
    BY <1>4 DEF QueuedOnce, HeldOnce
  <2>3. CASE UNCHANGED <<submit, runs, outcome>>
    BY <2>1, <2>2, <2>3 DEF InOnePlace
  <2>4. CASE SubmitCounts(j) \/ SubmitSheds(j)
    BY <2>1, <2>2, <2>4
       DEF SubmitCounts, SubmitSheds, At, history, InOnePlace, Submitted, JobTypes
  <2>5. CASE Retry(w)
    <3>1. job[w] \in Jobs /\ Running(job[w])
      BY <2>5 DEF Retry, WorkerTypes, Held, Running
    <3>2. runs' = [runs EXCEPT ![job[w]] = @ + 1] /\ UNCHANGED <<submit, outcome>>
      BY <2>5 DEF Retry
    <3> QED
      BY <2>1, <2>2, <3>1, <3>2 DEF InOnePlace, JobTypes
  <2> QED
    BY <1>4, <2>3, <2>4, <2>5
<1>5. ASSUME NEW j \in Jobs, SubmitCounts(j) \/ SubmitSheds(j)
      PROVE  Shape'
  <2>1. UNCHANGED <<queue, closed, canceled, worker, job, attempt, stop, runs, outcome>>
    BY <1>5 DEF SubmitCounts, SubmitSheds, held, history
  <2>2. ChannelTypes' /\ Len(queue') <= QueueDepth /\ WorkerTypes' /\ LeftBehind'
    BY <2>1 DEF ChannelTypes, WorkerTypes, LeftBehind, Drained, WorkersDone, MayRetry
  <2>3. JobTypes'
    BY <1>5, <2>1 DEF SubmitCounts, SubmitSheds, At, JobTypes, SubmitPlaces
  <2>4. PICK w \in Workers : TRUE
    BY JobProcessorConstants
  <2> QED
    BY <1>4, <1>5, <2>1, <2>2, <2>3
<1>6. ASSUME NEW w \in Workers, Retry(w)
      PROVE  Shape'
  <2>1. /\ worker[w] = "backoff" /\ worker' = [worker EXCEPT ![w] = "run"]
        /\ attempt' = [attempt EXCEPT ![w] = @ + 1]
        /\ runs' = [runs EXCEPT ![job[w]] = @ + 1]
        /\ UNCHANGED <<queue, closed, canceled, job, submit, stop, outcome>>
    BY <1>6 DEF Retry, Goto
  <2>2. job[w] \in Jobs
    BY <2>1 DEF WorkerTypes, Held
  <2>3. ChannelTypes' /\ Len(queue') <= QueueDepth
    BY <2>1 DEF ChannelTypes
  <2>4. WorkerTypes'
    <3>1. attempt[w] \in Nat /\ attempt[w] < Attempts
      BY <2>1, AttemptsArePositive DEF WorkerTypes, MayRetry
    <3>2. attempt[w] + 1 \in 0 .. Attempts
      BY <3>1, AttemptsArePositive
    <3> QED
      BY <2>1, <3>2 DEF WorkerTypes, WorkerPlaces, Held, MayRetry
  <2>5. JobTypes'
    BY <2>1, <2>2 DEF JobTypes
  <2>6. LeftBehind'
    BY <2>1 DEF LeftBehind, Drained, WorkersDone, WorkerTypes
  <2> QED
    BY <1>4, <1>6, <2>1, <2>2, <2>3, <2>4, <2>5, <2>6
<1>7. ASSUME NEW w \in Workers,
             Launch(w) \/ Return(w) \/ Exit(w) \/ \E kind \in Kinds : BackOff(w, kind)
      PROVE  Shape'
  <2>1. UNCHANGED <<queue, closed, canceled, job, attempt, submit, stop, runs, outcome>>
    BY <1>7 DEF Launch, Return, Exit, BackOff, held, history
  <2>2. \/ worker[w] = "new" /\ worker' = [worker EXCEPT ![w] = "select"]
        \/ /\ worker[w] = "select" /\ worker' = [worker EXCEPT ![w] = "exiting"]
           /\ Drained \/ canceled
        \/ worker[w] = "exiting" /\ worker' = [worker EXCEPT ![w] = "exited"]
        \/ worker[w] = "run" /\ worker' = [worker EXCEPT ![w] = "backoff"] /\ MayRetry(w)
    BY <1>7 DEF Launch, Return, Exit, BackOff, Final, Goto
  <2>3. ChannelTypes' /\ Len(queue') <= QueueDepth /\ JobTypes'
    BY <2>1 DEF ChannelTypes, JobTypes
  <2>4. WorkerTypes'
    BY <2>1, <2>2 DEF WorkerTypes, WorkerPlaces, Held, MayRetry
  <2>5. LeftBehind'
    BY <2>1, <2>2 DEF LeftBehind, Drained, WorkersDone, WorkerTypes
  <2>6. (\A k \in Jobs : InOnePlace(k)') /\ QueuedOnce' /\ HeldOnce'
    BY <2>1 DEF InOnePlace, Queued, Running, QueuedOnce, HeldOnce
  <2> QED
    BY <2>3, <2>4, <2>5, <2>6
<1>8. CASE Cancel \/ StopCloses \/ StopReturns \/ UNCHANGED vars
  <2>1. UNCHANGED <<queue, worker, job, attempt, submit, runs, outcome>>
    BY <1>8 DEF Cancel, StopCloses, StopReturns, held, history, vars
  <2>2. \/ canceled' = TRUE /\ UNCHANGED <<closed, stop>>
        \/ stop = "before" /\ closed' = TRUE /\ stop' = "waiting" /\ UNCHANGED canceled
        \/ /\ stop = "waiting" /\ WorkersDone /\ stop' = "returned"
           /\ UNCHANGED <<closed, canceled>>
        \/ UNCHANGED <<closed, canceled, stop>>
    BY <1>8 DEF Cancel, StopCloses, StopReturns, vars
  <2>3. ChannelTypes' /\ Len(queue') <= QueueDepth /\ JobTypes' /\ WorkerTypes'
    BY <2>1, <2>2 DEF ChannelTypes, JobTypes, WorkerTypes, MayRetry
  <2>4. LeftBehind'
    BY <2>1, <2>2 DEF LeftBehind, Drained, WorkersDone
  <2>5. (\A k \in Jobs : InOnePlace(k)') /\ QueuedOnce' /\ HeldOnce'
    BY <2>1 DEF InOnePlace, Queued, Running, QueuedOnce, HeldOnce
  <2> QED
    BY <2>3, <2>4, <2>5
<1> QED
  BY <1>1, <1>2, <1>3, <1>5, <1>6, <1>7, <1>8
     DEF Next, Step, Submit, Ends, Terminated

-----------------------------------------------------------------------------
InPlace(at) == {j \in Jobs : submit[j] = at}
Over(result) == {j \in Jobs : outcome[j] = result}
Busy == {w \in Workers : job[w] # None}
Up == {w \in Workers : worker[w] \in Alive}

(* The metrics against the state, one line per counter. *)
MetricTypes == metrics \in [Counters -> Nat]

AcceptedAddsUp ==
    metrics["Accepted"] + Cardinality(InPlace("accept"))
        = Len(queue) + Cardinality(Busy) + metrics["Succeeded"] + metrics["Failed"]

OutcomesAddUp ==
    /\ metrics["Rejected"] = Cardinality(InPlace("rejected"))
    /\ metrics["Succeeded"] = Cardinality(Over("succeeded"))
    /\ metrics["Failed"] = Cardinality(Over("failed"))
    /\ metrics["InFlight"] = Cardinality(Up)

RetriesAddUp ==
    /\ metrics["Retried"] >= Reruns + Cardinality(Waiting)
    /\ ~canceled => metrics["Retried"] = Reruns + Cardinality(Waiting)

IInv == Shape /\ MetricTypes /\ AcceptedAddsUp /\ OutcomesAddUp /\ RetriesAddUp

(* A counted set that gains or loses an element. *)
LEMMA CountOne ==
  ASSUME NEW S, IsFiniteSet(S), NEW A \in SUBSET S, NEW B \in SUBSET S
  PROVE  /\ Cardinality(A) \in Nat /\ Cardinality(B) \in Nat
         /\ \A x \in B : x \notin A /\ B = A \cup {x} => Cardinality(B) = Cardinality(A) + 1
<1>1. IsFiniteSet(A) /\ IsFiniteSet(B)
  BY FS_Subset
<1>2. Cardinality(A) \in Nat /\ Cardinality(B) \in Nat
  BY <1>1, FS_CardinalityType
<1>3. ASSUME NEW x \in B, x \notin A, B = A \cup {x}
      PROVE  Cardinality(B) = Cardinality(A) + 1
  BY <1>1, <1>3, FS_AddElement
<1> QED
  BY <1>2, <1>3

(* Reruns as a sum over the jobs; a rerun of one job adds one. *)
Extra(r) == [j \in Jobs |-> IF r[j] > 0 THEN r[j] - 1 ELSE 0]

LEMMA RerunsAreTotal ==
  ASSUME NEW r \in [Jobs -> Nat]
  PROVE  /\ Extra(r) \in [Jobs -> Int]
         /\ SumFunction(Extra(r)) = Total(Extra(r), Jobs)
         /\ SumFunction(Extra(r)) \in Int
<1>1. PICK e \in [Jobs -> Int] : e = Extra(r)
  <2>1. Extra(r) \in [Jobs -> Int]
    BY DEF Extra
  <2> QED
    BY <2>1
<1>2. SumFunction(e) = Total(e, Jobs)
  BY SumOfFunction, JobProcessorConstants
<1>3. Total(e, Jobs) \in Int
  BY TotalIsInteger, JobProcessorConstants
<1> QED
  BY <1>1, <1>2, <1>3

LEMMA RunsAddUp ==
  ASSUME NEW r \in [Jobs -> Nat], NEW s \in [Jobs -> Nat], NEW j \in Jobs,
         s = [r EXCEPT ![j] = @ + 1]
  PROVE  /\ r[j] = 0 => SumFunction(Extra(s)) = SumFunction(Extra(r))
         /\ r[j] > 0 => SumFunction(Extra(s)) = SumFunction(Extra(r)) + 1
<1>1. PICK e \in [Jobs -> Int], f \in [Jobs -> Int] : e = Extra(r) /\ f = Extra(s)
  BY RerunsAreTotal
<1>2. SumFunction(Extra(r)) = Total(e, Jobs) /\ SumFunction(Extra(s)) = Total(f, Jobs)
  BY <1>1, RerunsAreTotal
<1>3. /\ \A k \in Jobs \ {j} : e[k] = f[k]
      /\ r[j] = 0 => f[j] = e[j]
      /\ r[j] > 0 => f[j] = e[j] + 1
  BY <1>1 DEF Extra
<1>4. /\ Total(e, Jobs) = e[j] + Total(e, Jobs \ {j})
      /\ Total(f, Jobs) = f[j] + Total(f, Jobs \ {j})
  BY TotalWithout, JobProcessorConstants
<1>5. IsFiniteSet(Jobs \ {j})
  BY FS_RemoveElement, JobProcessorConstants
<1>6. Total(e, Jobs \ {j}) = Total(f, Jobs \ {j}) /\ Total(e, Jobs \ {j}) \in Int
  BY <1>3, <1>5, TotalAgrees, TotalIsInteger
<1>7. e[j] \in Int /\ f[j] \in Int
  OBVIOUS
<1>8. ASSUME r[j] = 0 PROVE Total(f, Jobs) = Total(e, Jobs)
  BY <1>3, <1>4, <1>6, <1>8
<1>9. ASSUME r[j] > 0 PROVE Total(f, Jobs) = Total(e, Jobs) + 1
  BY <1>3, <1>4, <1>6, <1>7, <1>9
<1> QED
  BY <1>2, <1>8, <1>9

LEMMA RerunsNext ==
  /\ JobTypes => Reruns \in Int
  /\ runs' = runs => Reruns' = Reruns
  /\ \A j \in Jobs : JobTypes /\ runs' = [runs EXCEPT ![j] = @ + 1] =>
        /\ runs[j] = 0 => Reruns' = Reruns
        /\ runs[j] > 0 => Reruns' = Reruns + 1
<1>1. Reruns = SumFunction(Extra(runs)) /\ Reruns' = SumFunction(Extra(runs'))
  BY DEF Reruns, Extra
<1>2. JobTypes => Reruns \in Int
  BY <1>1, RerunsAreTotal DEF JobTypes
<1>3. ASSUME NEW j \in Jobs, JobTypes, runs' = [runs EXCEPT ![j] = @ + 1]
      PROVE  /\ runs[j] = 0 => Reruns' = Reruns
             /\ runs[j] > 0 => Reruns' = Reruns + 1
  <2>1. runs \in [Jobs -> Nat] /\ runs' \in [Jobs -> Nat]
    BY <1>3 DEF JobTypes
  <2> QED
    BY <1>1, <1>3, <2>1, RunsAddUp
<1> QED
  BY <1>1, <1>2, <1>3

LEMMA CountsOfState ==
  /\ \A at : InPlace(at) \in SUBSET Jobs /\ InPlace(at)' \in SUBSET Jobs
  /\ \A result : Over(result) \in SUBSET Jobs /\ Over(result)' \in SUBSET Jobs
  /\ Busy \in SUBSET Workers /\ Busy' \in SUBSET Workers
  /\ Up \in SUBSET Workers /\ Up' \in SUBSET Workers
  /\ Waiting \in SUBSET Workers /\ Waiting' \in SUBSET Workers
  BY DEF InPlace, Over, Busy, Up, Waiting

Sized(A) == Cardinality(A) \in Nat

LEMMA Finite ==
  /\ \A A \in SUBSET Jobs : Sized(A)
  /\ \A A \in SUBSET Workers : Sized(A)
  BY FS_Subset, FS_CardinalityType, JobProcessorConstants DEF Sized

(* What each step does to the counted sets, and the counters with them.    *)
LEMMA CountsNext ==
  ASSUME IInv, Shape', [Next]_vars
  PROVE  MetricTypes' /\ AcceptedAddsUp' /\ OutcomesAddUp' /\ RetriesAddUp'
<1> DEFINE Goal == MetricTypes' /\ AcceptedAddsUp' /\ OutcomesAddUp' /\ RetriesAddUp'
<1>1. /\ metrics \in [Counters -> Nat] /\ JobTypes /\ JobTypes'
      /\ WorkerTypes /\ WorkerTypes' /\ queue \in Seq(Jobs) /\ Reruns \in Int
  BY RerunsNext DEF IInv, MetricTypes, Shape, ChannelTypes
<1>A. AcceptedAddsUp
  BY DEF IInv
<1>O. OutcomesAddUp
  BY DEF IInv
<1>R. RetriesAddUp
  BY DEF IInv
<1>J. \A j \in Jobs : InOnePlace(j)
  BY DEF IInv, Shape
<1>2. /\ Sized(InPlace("accept")) /\ Sized(InPlace("rejected")) /\ Sized(Over("succeeded"))
      /\ Sized(Over("failed")) /\ Sized(Busy) /\ Sized(Up) /\ Sized(Waiting)
  BY CountsOfState, Finite
<1>3. ASSUME NEW j \in Jobs, SubmitSends(j)
      PROVE  Goal
  <2>1. /\ submit[j] = "before" /\ queue' = Append(queue, j)
        /\ submit' = [submit EXCEPT ![j] = "accept"]
        /\ canceled' = canceled /\ worker' = worker /\ job' = job /\ runs' = runs
        /\ outcome' = outcome /\ metrics' = metrics
    BY <1>3 DEF SubmitSends, At, held, history
  <2>2. Len(queue') = Len(queue) + 1 /\ Len(queue) \in Nat
    BY <1>1, <2>1
  <2>3. Cardinality(InPlace("accept")') = Cardinality(InPlace("accept")) + 1
    <3>1. j \notin InPlace("accept") /\ InPlace("accept")' = InPlace("accept") \cup {j}
      BY <1>1, <2>1 DEF InPlace, JobTypes
    <3> QED
      BY <3>1, CountsOfState, CountOne, JobProcessorConstants
  <2>4. InPlace("rejected")' = InPlace("rejected")
    BY <1>1, <2>1 DEF InPlace, JobTypes
  <2>5. /\ Busy' = Busy /\ Up' = Up /\ Waiting' = Waiting /\ Reruns' = Reruns
        /\ Over("succeeded")' = Over("succeeded") /\ Over("failed")' = Over("failed")
    BY <2>1, RerunsNext DEF Busy, Up, Waiting, Over
  <2> QED
    <3>1. MetricTypes'
      BY <1>1, <2>1 DEF MetricTypes, Counters
    <3>2. AcceptedAddsUp'
      <4>1. /\ metrics["Accepted"] \in Nat /\ metrics["Succeeded"] \in Nat
            /\ metrics["Failed"] \in Nat
            /\ Cardinality(Busy) \in Nat /\ Cardinality(InPlace("accept")) \in Nat
        BY <1>1, <1>2 DEF Counters, Sized
      <4>2. metrics["Accepted"] + (Cardinality(InPlace("accept")) + 1)
              = (Len(queue) + 1) + Cardinality(Busy) + metrics["Succeeded"] + metrics["Failed"]
        <5>1. metrics["Accepted"] + Cardinality(InPlace("accept"))
                = Len(queue) + Cardinality(Busy) + metrics["Succeeded"] + metrics["Failed"]
          BY <1>A DEF AcceptedAddsUp
        <5>2. PICK a \in Nat, c \in Nat, l \in Nat, b \in Nat, s \in Nat, f \in Nat :
                /\ a = metrics["Accepted"] /\ c = Cardinality(InPlace("accept"))
                /\ l = Len(queue) /\ b = Cardinality(Busy)
                /\ s = metrics["Succeeded"] /\ f = metrics["Failed"]
          BY <2>2, <4>1
        <5>3. a + c = l + b + s + f
          BY <5>1, <5>2
        <5>4. a + (c + 1) = (l + 1) + b + s + f
          BY <5>3
        <5> QED
          BY <5>2, <5>4
      <4> QED
        BY <2>1, <2>2, <2>3, <2>5, <4>2 DEF AcceptedAddsUp
    <3>3. OutcomesAddUp'
      BY <1>O, <1>1, <1>2, <2>1, <2>2, <2>3, <2>4, <2>5 DEF Counters, OutcomesAddUp, Sized
    <3>4. RetriesAddUp'
      BY <1>R, <1>1, <1>2, <2>1, <2>2, <2>3, <2>4, <2>5 DEF Counters, RetriesAddUp, Sized
    <3> QED
      BY <3>1, <3>2, <3>3, <3>4
<1>4. ASSUME NEW j \in Jobs, SubmitCounts(j)
      PROVE  Goal
  <2>1. /\ submit[j] = "accept" /\ submit' = [submit EXCEPT ![j] = "accepted"]
        /\ metrics' = [metrics EXCEPT !["Accepted"] = @ + 1]
        /\ queue' = queue /\ canceled' = canceled /\ worker' = worker /\ job' = job
        /\ runs' = runs /\ outcome' = outcome
    BY <1>4 DEF SubmitCounts, At, Count, held, history
  <2>2. Len(queue') = Len(queue) /\ Len(queue) \in Nat
    BY <1>1, <2>1
  <2>3. /\ Cardinality(InPlace("accept")) = Cardinality(InPlace("accept")') + 1
        /\ Cardinality(InPlace("accept")') \in Nat
    <3>1. j \notin InPlace("accept")' /\ InPlace("accept") = InPlace("accept")' \cup {j}
      BY <1>1, <2>1 DEF InPlace, JobTypes
    <3> QED
      BY <3>1, CountsOfState, CountOne, JobProcessorConstants
  <2>4. InPlace("rejected")' = InPlace("rejected")
    BY <1>1, <2>1 DEF InPlace, JobTypes
  <2>5. /\ Busy' = Busy /\ Up' = Up /\ Waiting' = Waiting /\ Reruns' = Reruns
        /\ Over("succeeded")' = Over("succeeded") /\ Over("failed")' = Over("failed")
    BY <2>1, RerunsNext DEF Busy, Up, Waiting, Over
  <2> QED
    <3>1. MetricTypes'
      BY <1>1, <2>1 DEF MetricTypes, Counters
    <3>2. AcceptedAddsUp'
      BY <1>A, <1>1, <1>2, <2>1, <2>2, <2>3, <2>4, <2>5 DEF Counters, AcceptedAddsUp, Sized
    <3>3. OutcomesAddUp'
      BY <1>O, <1>1, <1>2, <2>1, <2>2, <2>3, <2>4, <2>5 DEF Counters, OutcomesAddUp, Sized
    <3>4. RetriesAddUp'
      BY <1>R, <1>1, <1>2, <2>1, <2>2, <2>3, <2>4, <2>5 DEF Counters, RetriesAddUp, Sized
    <3> QED
      BY <3>1, <3>2, <3>3, <3>4
<1>5. ASSUME NEW j \in Jobs, SubmitSheds(j)
      PROVE  Goal
  <2>1. /\ submit[j] = "before" /\ submit' = [submit EXCEPT ![j] = "rejected"]
        /\ metrics' = [metrics EXCEPT !["Rejected"] = @ + 1]
        /\ queue' = queue /\ canceled' = canceled /\ worker' = worker /\ job' = job
        /\ runs' = runs /\ outcome' = outcome
    BY <1>5 DEF SubmitSheds, At, Count, held, history
  <2>2. Cardinality(InPlace("rejected")') = Cardinality(InPlace("rejected")) + 1
    <3>1. j \notin InPlace("rejected") /\ InPlace("rejected")' = InPlace("rejected") \cup {j}
      BY <1>1, <2>1 DEF InPlace, JobTypes
    <3> QED
      BY <3>1, CountsOfState, CountOne, JobProcessorConstants
  <2>3. InPlace("accept")' = InPlace("accept")
    BY <1>1, <2>1 DEF InPlace, JobTypes
  <2>4. /\ Busy' = Busy /\ Up' = Up /\ Waiting' = Waiting /\ Reruns' = Reruns
        /\ Over("succeeded")' = Over("succeeded") /\ Over("failed")' = Over("failed")
    BY <2>1, RerunsNext DEF Busy, Up, Waiting, Over
  <2> QED
    <3>1. MetricTypes'
      BY <1>1, <2>1 DEF MetricTypes, Counters
    <3>2. AcceptedAddsUp'
      BY <1>A, <1>1, <1>2, <2>1, <2>2, <2>3, <2>4 DEF Counters, AcceptedAddsUp, Sized
    <3>3. OutcomesAddUp'
      BY <1>O, <1>1, <1>2, <2>1, <2>2, <2>3, <2>4 DEF Counters, OutcomesAddUp, Sized
    <3>4. RetriesAddUp'
      BY <1>R, <1>1, <1>2, <2>1, <2>2, <2>3, <2>4 DEF Counters, RetriesAddUp, Sized
    <3> QED
      BY <3>1, <3>2, <3>3, <3>4
<1>6. ASSUME NEW w \in Workers, Receive(w)
      PROVE  Goal
  <2>1. /\ worker[w] = "select" /\ worker' = [worker EXCEPT ![w] = "run"]
        /\ queue # <<>> /\ queue' = Tail(queue)
        /\ job' = [job EXCEPT ![w] = Head(queue)]
        /\ runs' = [runs EXCEPT ![Head(queue)] = @ + 1]
        /\ canceled' = canceled /\ submit' = submit /\ metrics' = metrics
        /\ outcome' = outcome
    BY <1>6 DEF Receive, Goto
  <2>2. PICK h \in Jobs : h = Head(queue) /\ Queued(h)
    BY <1>1, <2>1 DEF Queued
  <2>3. Len(queue) = Len(queue') + 1 /\ Len(queue') \in Nat
    BY <1>1, <2>1
  <2>4. Cardinality(Busy') = Cardinality(Busy) + 1
    <3>1. w \notin Busy /\ Busy' = Busy \cup {w}
      BY <1>1, <2>1, <2>2, JobProcessorConstants DEF Busy, WorkerTypes, Held
    <3> QED
      BY <3>1, CountsOfState, CountOne, JobProcessorConstants
  <2>5. Reruns' = Reruns
    <3>1. runs[h] = 0
      BY <1>J, <2>2 DEF InOnePlace
    <3> QED
      BY <1>1, <2>1, <2>2, <3>1, RerunsNext
  <2>6. Up' = Up /\ Waiting' = Waiting
    BY <1>1, <2>1 DEF Up, Waiting, WorkerTypes, Alive
  <2>7. /\ InPlace("accept")' = InPlace("accept") /\ InPlace("rejected")' = InPlace("rejected")
        /\ Over("succeeded")' = Over("succeeded") /\ Over("failed")' = Over("failed")
    BY <2>1 DEF InPlace, Over
  <2> QED
    <3>1. MetricTypes'
      BY <1>1, <2>1 DEF MetricTypes, Counters
    <3>2. AcceptedAddsUp'
      BY <1>A, <1>1, <1>2, <2>1, <2>3, <2>4, <2>5, <2>6, <2>7 DEF Counters, AcceptedAddsUp, Sized
    <3>3. OutcomesAddUp'
      BY <1>O, <1>1, <1>2, <2>1, <2>3, <2>4, <2>5, <2>6, <2>7 DEF Counters, OutcomesAddUp, Sized
    <3>4. RetriesAddUp'
      BY <1>R, <1>1, <1>2, <2>1, <2>3, <2>4, <2>5, <2>6, <2>7 DEF Counters, RetriesAddUp, Sized
    <3> QED
      BY <3>1, <3>2, <3>3, <3>4
<1>7. ASSUME NEW w \in Workers, NEW result, Ends(w, result)
      PROVE  Goal
  <2>1. /\ worker[w] \in Held /\ worker' = [worker EXCEPT ![w] = "select"]
        /\ outcome' = [outcome EXCEPT ![job[w]] = result]
        /\ job' = [job EXCEPT ![w] = None]
        /\ queue' = queue /\ canceled' = canceled /\ submit' = submit /\ runs' = runs
        /\ worker[w] = "backoff" => canceled
    BY <1>7 DEF Ends, Succeed, CancelBackoff, Fail, Done, Goto, Held
  <2>2. \/ result = "succeeded" /\ metrics' = [metrics EXCEPT !["Succeeded"] = @ + 1]
        \/ result = "failed" /\ metrics' = [metrics EXCEPT !["Failed"] = @ + 1]
    BY <1>7 DEF Ends, Succeed, CancelBackoff, Fail, Done, Count
  <2>3. PICK h \in Jobs : h = job[w] /\ Running(h)
    BY <1>1, <2>1 DEF WorkerTypes, Running
  <2>4. outcome[h] = None
    BY <1>J, <2>3 DEF InOnePlace
  <2>5. /\ Cardinality(Busy) = Cardinality(Busy') + 1
        /\ Cardinality(Busy') \in Nat
    <3>1. w \notin Busy' /\ Busy = Busy' \cup {w}
      BY <1>1, <2>1, <2>3, JobProcessorConstants DEF Busy, WorkerTypes
    <3> QED
      BY <3>1, CountsOfState, CountOne, JobProcessorConstants
  <2>6. /\ Cardinality(Over(result)') = Cardinality(Over(result)) + 1
        /\ result = "succeeded" => Over("failed")' = Over("failed")
        /\ result = "failed" => Over("succeeded")' = Over("succeeded")
    <3>1. h \notin Over(result) /\ Over(result)' = Over(result) \cup {h}
      BY <1>1, <2>1, <2>2, <2>3, <2>4 DEF Over, JobTypes, None
    <3>2. /\ result = "succeeded" => Over("failed")' = Over("failed")
          /\ result = "failed" => Over("succeeded")' = Over("succeeded")
      BY <1>1, <2>1, <2>3, <2>4 DEF Over, JobTypes, None
    <3> QED
      BY <3>1, <3>2, CountsOfState, CountOne, JobProcessorConstants
  <2>7. Up' = Up /\ Reruns' = Reruns
    BY <1>1, <2>1, RerunsNext DEF Up, WorkerTypes, Alive, Held
  <2>8. /\ Cardinality(Waiting') <= Cardinality(Waiting) /\ Cardinality(Waiting') \in Nat
        /\ ~canceled => Waiting' = Waiting
    <3>1. Waiting' = Waiting \ {w} /\ (~canceled => Waiting' = Waiting)
      BY <1>1, <2>1 DEF Waiting, WorkerTypes, Held
    <3>2. IsFiniteSet(Waiting)
      BY CountsOfState, FS_Subset, JobProcessorConstants
    <3>3. Waiting' \in SUBSET Waiting
      BY <3>1
    <3> QED
      BY <3>1, <3>2, <3>3, FS_Subset, FS_CardinalityType
  <2>9. InPlace("accept")' = InPlace("accept") /\ InPlace("rejected")' = InPlace("rejected")
    BY <2>1 DEF InPlace
  <2> QED
    <3>1. MetricTypes'
      BY <1>1, <2>2 DEF MetricTypes, Counters
    <3>2. AcceptedAddsUp'
      <4>1. /\ metrics["Accepted"] \in Nat /\ metrics["Succeeded"] \in Nat
            /\ metrics["Failed"] \in Nat
            /\ Cardinality(Busy) \in Nat /\ Cardinality(InPlace("accept")) \in Nat
            /\ Len(queue) \in Nat
        BY <1>1, <1>2 DEF Counters, Sized
      <4>2. /\ metrics'["Accepted"] = metrics["Accepted"]
            /\ metrics'["Succeeded"] + metrics'["Failed"]
                  = metrics["Succeeded"] + metrics["Failed"] + 1
            /\ metrics'["Succeeded"] \in Nat /\ metrics'["Failed"] \in Nat
        BY <1>1, <2>2, <4>1 DEF Counters
      <4>3. metrics["Accepted"] + Cardinality(InPlace("accept"))
              = Len(queue) + Cardinality(Busy') + metrics'["Succeeded"] + metrics'["Failed"]
        <5>1. metrics["Accepted"] + Cardinality(InPlace("accept"))
                = Len(queue) + Cardinality(Busy) + metrics["Succeeded"] + metrics["Failed"]
          BY <1>A DEF AcceptedAddsUp
        <5>2. PICK a \in Nat, c \in Nat, l \in Nat, b \in Nat, s \in Nat, f \in Nat,
                   e \in Nat, t \in Nat, g \in Nat :
                /\ a = metrics["Accepted"] /\ c = Cardinality(InPlace("accept"))
                /\ l = Len(queue) /\ b = Cardinality(Busy) /\ e = Cardinality(Busy')
                /\ s = metrics["Succeeded"] /\ f = metrics["Failed"]
                /\ t = metrics'["Succeeded"] /\ g = metrics'["Failed"]
          BY <2>5, <4>1, <4>2
        <5>3. a + c = l + b + s + f /\ b = e + 1 /\ t + g = s + f + 1
          BY <2>5, <4>2, <5>1, <5>2
        <5>4. a + c = l + e + t + g
          BY <5>3
        <5> QED
          BY <5>2, <5>4
      <4> QED
        BY <2>1, <2>9, <4>2, <4>3 DEF AcceptedAddsUp
    <3>3. OutcomesAddUp'
      BY <1>O, <1>1, <1>2, <2>1, <2>2, <2>5, <2>6, <2>7, <2>8, <2>9 DEF Counters, OutcomesAddUp, Sized
    <3>4. RetriesAddUp'
      <4>1. metrics'["Retried"] = metrics["Retried"] /\ metrics["Retried"] \in Nat
        BY <1>1, <2>2 DEF Counters
      <4> QED
        BY <1>1, <1>2, <1>R, <2>1, <2>7, <2>8, <4>1 DEF RetriesAddUp, Sized
    <3> QED
      BY <3>1, <3>2, <3>3, <3>4
<1>8. ASSUME NEW w \in Workers, Launch(w)
      PROVE  Goal
  <2>1. /\ worker[w] = "new" /\ worker' = [worker EXCEPT ![w] = "select"]
        /\ metrics' = [metrics EXCEPT !["InFlight"] = @ + 1]
        /\ queue' = queue /\ canceled' = canceled /\ job' = job /\ submit' = submit
        /\ runs' = runs /\ outcome' = outcome
    BY <1>8 DEF Launch, Goto, Count, held, history
  <2>2. Cardinality(Up') = Cardinality(Up) + 1
    <3>1. w \notin Up /\ Up' = Up \cup {w}
      BY <1>1, <2>1 DEF Up, WorkerTypes, Alive
    <3> QED
      BY <3>1, CountsOfState, CountOne, JobProcessorConstants
  <2>3. Waiting' = Waiting /\ Busy' = Busy /\ Reruns' = Reruns
    BY <1>1, <2>1, RerunsNext DEF Waiting, Busy, WorkerTypes
  <2>4. /\ InPlace("accept")' = InPlace("accept") /\ InPlace("rejected")' = InPlace("rejected")
        /\ Over("succeeded")' = Over("succeeded") /\ Over("failed")' = Over("failed")
    BY <2>1 DEF InPlace, Over
  <2> QED
    <3>1. MetricTypes'
      BY <1>1, <2>1 DEF MetricTypes, Counters
    <3>2. AcceptedAddsUp'
      BY <1>A, <1>1, <1>2, <2>1, <2>2, <2>3, <2>4 DEF Counters, AcceptedAddsUp, Sized
    <3>3. OutcomesAddUp'
      BY <1>O, <1>1, <1>2, <2>1, <2>2, <2>3, <2>4 DEF Counters, OutcomesAddUp, Sized
    <3>4. RetriesAddUp'
      BY <1>R, <1>1, <1>2, <2>1, <2>2, <2>3, <2>4 DEF Counters, RetriesAddUp, Sized
    <3> QED
      BY <3>1, <3>2, <3>3, <3>4
<1>9. ASSUME NEW w \in Workers, Return(w)
      PROVE  Goal
  <2>1. /\ worker[w] = "select" /\ worker' = [worker EXCEPT ![w] = "exiting"]
        /\ metrics' = [metrics EXCEPT !["InFlight"] = @ - 1]
        /\ queue' = queue /\ canceled' = canceled /\ job' = job /\ submit' = submit
        /\ runs' = runs /\ outcome' = outcome
    BY <1>9 DEF Return, Goto, held, history
  <2>2. Cardinality(Up) = Cardinality(Up') + 1 /\ Cardinality(Up') \in Nat
    <3>1. w \notin Up' /\ Up = Up' \cup {w}
      BY <1>1, <2>1 DEF Up, WorkerTypes, Alive
    <3> QED
      BY <3>1, CountsOfState, CountOne, JobProcessorConstants
  <2>3. Waiting' = Waiting /\ Busy' = Busy /\ Reruns' = Reruns
    BY <1>1, <2>1, RerunsNext DEF Waiting, Busy, WorkerTypes
  <2>4. /\ InPlace("accept")' = InPlace("accept") /\ InPlace("rejected")' = InPlace("rejected")
        /\ Over("succeeded")' = Over("succeeded") /\ Over("failed")' = Over("failed")
    BY <2>1 DEF InPlace, Over
  <2>5. metrics["InFlight"] - 1 \in Nat
    BY <1>O, <2>2 DEF OutcomesAddUp
  <2> QED
    <3>1. MetricTypes'
      BY <1>1, <2>1, <2>5 DEF MetricTypes, Counters
    <3>2. AcceptedAddsUp'
      BY <1>A, <1>1, <1>2, <2>1, <2>2, <2>3, <2>4 DEF Counters, AcceptedAddsUp, Sized
    <3>3. OutcomesAddUp'
      BY <1>O, <1>1, <1>2, <2>1, <2>2, <2>3, <2>4 DEF Counters, OutcomesAddUp, Sized
    <3>4. RetriesAddUp'
      BY <1>R, <1>1, <1>2, <2>1, <2>2, <2>3, <2>4 DEF Counters, RetriesAddUp, Sized
    <3> QED
      BY <3>1, <3>2, <3>3, <3>4
<1>10. ASSUME NEW w \in Workers, NEW kind \in Kinds, BackOff(w, kind)
       PROVE  Goal
  <2>1. /\ worker[w] = "run" /\ worker' = [worker EXCEPT ![w] = "backoff"]
        /\ metrics' = [metrics EXCEPT !["Retried"] = @ + 1]
        /\ queue' = queue /\ canceled' = canceled /\ job' = job /\ submit' = submit
        /\ runs' = runs /\ outcome' = outcome
    BY <1>10 DEF BackOff, Goto, Count, held, history
  <2>2. Cardinality(Waiting') = Cardinality(Waiting) + 1
    <3>1. w \notin Waiting /\ Waiting' = Waiting \cup {w}
      BY <1>1, <2>1 DEF Waiting, WorkerTypes
    <3> QED
      BY <3>1, CountsOfState, CountOne, JobProcessorConstants
  <2>3. Up' = Up /\ Busy' = Busy /\ Reruns' = Reruns
    BY <1>1, <2>1, RerunsNext DEF Up, Alive, Busy, WorkerTypes
  <2>4. /\ InPlace("accept")' = InPlace("accept") /\ InPlace("rejected")' = InPlace("rejected")
        /\ Over("succeeded")' = Over("succeeded") /\ Over("failed")' = Over("failed")
    BY <2>1 DEF InPlace, Over
  <2> QED
    <3>1. MetricTypes'
      BY <1>1, <2>1 DEF MetricTypes, Counters
    <3>2. AcceptedAddsUp'
      BY <1>A, <1>1, <1>2, <2>1, <2>2, <2>3, <2>4 DEF Counters, AcceptedAddsUp, Sized
    <3>3. OutcomesAddUp'
      BY <1>O, <1>1, <1>2, <2>1, <2>2, <2>3, <2>4 DEF Counters, OutcomesAddUp, Sized
    <3>4. RetriesAddUp'
      <4>2. metrics["Retried"] \in Nat /\ metrics'["Retried"] = metrics["Retried"] + 1
        BY <1>1, <2>1 DEF Counters
      <4>3. PICK n \in Nat, r \in Int, b \in Nat :
              n = metrics["Retried"] /\ r = Reruns /\ b = Cardinality(Waiting)
        BY <1>1, <1>2, <4>2 DEF Sized
      <4>4. n >= r + b /\ (~canceled => n = r + b)
        BY <1>R, <4>3 DEF RetriesAddUp
      <4>5. n + 1 >= r + (b + 1) /\ (~canceled => n + 1 = r + (b + 1))
        BY <4>4
      <4> QED
        BY <2>1, <2>2, <2>3, <4>2, <4>3, <4>5 DEF RetriesAddUp
    <3> QED
      BY <3>1, <3>2, <3>3, <3>4
<1>11. ASSUME NEW w \in Workers, Retry(w)
       PROVE  Goal
  <2>1. /\ worker[w] = "backoff" /\ worker' = [worker EXCEPT ![w] = "run"]
        /\ runs' = [runs EXCEPT ![job[w]] = @ + 1]
        /\ queue' = queue /\ canceled' = canceled /\ job' = job /\ submit' = submit
        /\ metrics' = metrics /\ outcome' = outcome
    BY <1>11 DEF Retry, Goto
  <2>2. Cardinality(Waiting) = Cardinality(Waiting') + 1 /\ Cardinality(Waiting') \in Nat
    <3>1. w \notin Waiting' /\ Waiting = Waiting' \cup {w}
      BY <1>1, <2>1 DEF Waiting, WorkerTypes
    <3> QED
      BY <3>1, CountsOfState, CountOne, JobProcessorConstants
  <2>3. Up' = Up /\ Busy' = Busy
    BY <1>1, <2>1 DEF Up, Alive, Busy, WorkerTypes
  <2>4. Reruns' = Reruns + 1
    <3>1. PICK h \in Jobs : h = job[w] /\ Running(h)
      BY <1>1, <2>1 DEF WorkerTypes, Held, Running
    <3>2. runs[h] > 0
      BY <1>J, <3>1 DEF InOnePlace
    <3> QED
      BY <1>1, <2>1, <3>1, <3>2, RerunsNext
  <2>5. /\ InPlace("accept")' = InPlace("accept") /\ InPlace("rejected")' = InPlace("rejected")
        /\ Over("succeeded")' = Over("succeeded") /\ Over("failed")' = Over("failed")
    BY <2>1 DEF InPlace, Over
  <2> QED
    <3>1. MetricTypes'
      BY <1>1, <2>1 DEF MetricTypes, Counters
    <3>2. AcceptedAddsUp'
      BY <1>A, <1>1, <1>2, <2>1, <2>2, <2>3, <2>4, <2>5 DEF Counters, AcceptedAddsUp, Sized
    <3>3. OutcomesAddUp'
      BY <1>O, <1>1, <1>2, <2>1, <2>2, <2>3, <2>4, <2>5 DEF Counters, OutcomesAddUp, Sized
    <3>4. RetriesAddUp'
      BY <1>R, <1>1, <1>2, <2>1, <2>2, <2>3, <2>4, <2>5 DEF Counters, RetriesAddUp, Sized
    <3> QED
      BY <3>1, <3>2, <3>3, <3>4
<1>12. ASSUME \/ \E w \in Workers : Exit(w)
              \/ Cancel \/ StopCloses \/ StopReturns \/ UNCHANGED vars
       PROVE  Goal
  <2>1. /\ queue' = queue /\ job' = job /\ submit' = submit
        /\ runs' = runs /\ metrics' = metrics /\ outcome' = outcome
        /\ canceled' = canceled \/ canceled' = TRUE
    BY <1>12 DEF Exit, Cancel, StopCloses, StopReturns, held, history, vars
  <2>2. /\ Up' = Up /\ Waiting' = Waiting
    <3>1. CASE worker' = worker
      BY <3>1 DEF Up, Waiting
    <3>2. ASSUME NEW w \in Workers, Exit(w)
          PROVE  Up' = Up /\ Waiting' = Waiting
      BY <1>1, <3>2 DEF Exit, Goto, Up, Alive, Waiting, WorkerTypes
    <3> QED
      BY <1>12, <3>1, <3>2 DEF Cancel, StopCloses, StopReturns, vars
  <2>3. /\ InPlace("accept")' = InPlace("accept") /\ InPlace("rejected")' = InPlace("rejected")
        /\ Over("succeeded")' = Over("succeeded") /\ Over("failed")' = Over("failed")
        /\ Busy' = Busy /\ Reruns' = Reruns
    BY <2>1, RerunsNext DEF InPlace, Over, Busy
  <2> QED
    <3>1. MetricTypes'
      BY <1>1, <2>1 DEF MetricTypes, Counters
    <3>2. AcceptedAddsUp'
      BY <1>A, <1>1, <1>2, <2>1, <2>2, <2>3 DEF Counters, AcceptedAddsUp, Sized
    <3>3. OutcomesAddUp'
      BY <1>O, <1>1, <1>2, <2>1, <2>2, <2>3 DEF Counters, OutcomesAddUp, Sized
    <3>4. RetriesAddUp'
      BY <1>R, <1>1, <1>2, <2>1, <2>2, <2>3 DEF Counters, RetriesAddUp, Sized
    <3> QED
      BY <3>1, <3>2, <3>3, <3>4
<1> QED
  BY <1>3, <1>4, <1>5, <1>6, <1>7, <1>8, <1>9, <1>10, <1>11, <1>12
     DEF Next, Step, Submit, Ends, Terminated

LEMMA InvInit == Init => IInv
<1> SUFFICES ASSUME Init PROVE IInv
  OBVIOUS
<1>1. Shape
  BY ShapeInit
<1>2. MetricTypes /\ \A c \in Counters : metrics[c] = 0
  BY DEF Init, MetricTypes
<1>3. /\ InPlace("accept") = {} /\ InPlace("rejected") = {}
      /\ Over("succeeded") = {} /\ Over("failed") = {}
      /\ Busy = {} /\ Up = {} /\ Waiting = {} /\ Len(queue) = 0
  BY DEF Init, InPlace, Over, Busy, Up, Alive, Waiting, None
<1>4. Cardinality({}) = 0
  BY FS_EmptySet
<1>5. AcceptedAddsUp /\ OutcomesAddUp
  <2>1. /\ metrics["Accepted"] = 0 /\ metrics["Rejected"] = 0 /\ metrics["Succeeded"] = 0
        /\ metrics["Failed"] = 0 /\ metrics["InFlight"] = 0
    BY <1>2 DEF Counters
  <2>2. AcceptedAddsUp
    <3>1. Cardinality(InPlace("accept")) = 0 /\ Cardinality(Busy) = 0
      BY <1>3, <1>4
    <3> QED
      BY <1>3, <2>1, <3>1, SMT DEF AcceptedAddsUp
  <2>3. OutcomesAddUp
    BY <1>3, <1>4, <2>1 DEF OutcomesAddUp
  <2> QED
    BY <2>2, <2>3
<1>6. Reruns = 0
  <2>1. runs \in [Jobs -> Nat] /\ \A j \in Jobs : Extra(runs)[j] = 0
    BY DEF Init, Extra
  <2>2. Reruns = Total(Extra(runs), Jobs)
    BY <2>1, RerunsAreTotal DEF Reruns, Extra
  <2> QED
    BY <2>1, <2>2, TotalOfZeros, JobProcessorConstants
<1>7. RetriesAddUp
  BY <1>2, <1>3, <1>4, <1>6 DEF RetriesAddUp, Counters
<1> QED
  BY <1>1, <1>2, <1>5, <1>7 DEF IInv

LEMMA InvHolds == Spec => []IInv
<1>1. IInv /\ [Next]_vars => IInv'
  BY ShapeNext, CountsNext DEF IInv
<1> QED
  BY <1>1, InvInit, PTL DEF Spec

(* The types hold. *)
THEOREM TypeCorrect == Spec => []TypeOK
<1>1. IInv => TypeOK
  BY DEF IInv, Shape, ChannelTypes, WorkerTypes, JobTypes, MetricTypes, TypeOK, Held
<1> QED
  BY <1>1, InvHolds, PTL

(* The metrics account for every job at every moment, however Submits,     *)
(* workers, retries and a cancellation interleave.                         *)
THEOREM MetricsTellTheState == Spec => []MetricsAddUp
<1>1. IInv => MetricsAddUp
  BY DEF IInv, AcceptedAddsUp, OutcomesAddUp, RetriesAddUp, MetricsAddUp, InPlace, Over, Busy
<1> QED
  BY <1>1, InvHolds, PTL

(* When Stop has returned nothing is in a worker's hands, and without a    *)
(* cancellation no accepted job is without an outcome.                     *)
THEOREM StopLeavesNothing == Spec => []StopDrains
<1>1. ASSUME IInv PROVE StopDrains
  <2> SUFFICES ASSUME stop = "returned" PROVE StopDrains
    BY DEF StopDrains
  <2>1. Shape /\ OutcomesAddUp
    BY <1>1 DEF IInv
  <2>2. \A w \in Workers : worker[w] = "exited"
    BY <2>1 DEF Shape, LeftBehind, WorkersDone
  <2>3. Up = {} /\ metrics["InFlight"] = 0
    <3>1. Up = {}
      BY <2>2 DEF Up, Alive
    <3> QED
      BY <2>1, <3>1, FS_EmptySet DEF OutcomesAddUp
  <2>4. \A j \in Jobs : ~Running(j)
    BY <2>1, <2>2, JobProcessorConstants DEF Shape, WorkerTypes, Held, Running
  <2>5. ~canceled => queue = <<>>
    <3>1. PICK w \in Workers : TRUE
      BY JobProcessorConstants
    <3> QED
      BY <2>1, <2>2, <3>1 DEF Shape, LeftBehind, Drained
  <2>6. \A j \in Jobs : submit[j] = "accepted" /\ outcome[j] = None => canceled
    BY <2>1, <2>4, <2>5 DEF Shape, InOnePlace, Submitted, Queued
  <2>7. \A j \in Jobs : runs[j] > 0 => outcome[j] # None
    BY <2>1, <2>4 DEF Shape, InOnePlace
  <2> QED
    BY <2>3, <2>4, <2>6, <2>7 DEF StopDrains
<1> QED
  BY <1>1, InvHolds, PTL

-----------------------------------------------------------------------------
(* Where a job is, as the abstract work queue sees it, before and after.   *)
LEMMA StatusIs ==
  ASSUME Shape, NEW j \in Jobs
  PROVE  /\ StatusOf(j) = "acked" <=> outcome[j] = "succeeded"
         /\ StatusOf(j) = "dead" <=> outcome[j] = "failed"
         /\ StatusOf(j) = "held" <=> Running(j)
         /\ StatusOf(j) = "queued" <=> Queued(j)
         /\ StatusOf(j) = "new" <=> (outcome[j] = None /\ ~Running(j) /\ ~Queued(j))
<1>1. outcome[j] \in {None, "succeeded", "failed"} /\ InOnePlace(j)
  BY DEF Shape, JobTypes
<1> QED
  BY <1>1 DEF StatusOf, InOnePlace, None

LEMMA StatusBecomes ==
  ASSUME Shape', NEW j \in Jobs
  PROVE  /\ StatusOf(j)' = "acked" <=> outcome'[j] = "succeeded"
         /\ StatusOf(j)' = "dead" <=> outcome'[j] = "failed"
         /\ StatusOf(j)' = "held" <=> Running(j)'
         /\ StatusOf(j)' = "queued" <=> Queued(j)'
         /\ StatusOf(j)' = "new" <=> (outcome'[j] = None /\ ~Running(j)' /\ ~Queued(j)')
<1>1. outcome'[j] \in {None, "succeeded", "failed"} /\ InOnePlace(j)'
  BY DEF Shape, JobTypes
<1> QED
  BY <1>1 DEF StatusOf, InOnePlace, None

(* Every step hands a job over as the work queue would, or moves none.     *)
LEMMA QueueNextHolds ==
  ASSUME Shape, Shape', [Next]_vars
  PROVE  [WQ!QueueNext]_WQ!queueVars
<1> DEFINE Status == [j \in Jobs |-> StatusOf(j)]
           Left == [j \in Jobs |-> IF StatusOf(j) = "queued" THEN 1 ELSE 0]
<1>1. ASSUME \A j \in Jobs : StatusOf(j)' = StatusOf(j)
      PROVE  Status' = Status /\ Left' = Left
  BY <1>1
<1>2. ASSUME NEW j \in Jobs, SubmitSends(j)
      PROVE  WQ!Enqueue(j)
  <2>1. StatusOf(j) = "new" /\ StatusOf(j)' = "queued"
    BY <1>2, SendMoves, StatusIs, StatusBecomes
  <2>2. \A k \in Jobs \ {j} : StatusOf(k)' = StatusOf(k)
    BY <1>2, SendMoves DEF StatusOf
  <2>3. Status' = [Status EXCEPT ![j] = "queued"] /\ Left' = [Left EXCEPT ![j] = 1]
    BY <2>1, <2>2
  <2>4. Status[j] = "new" /\ 1 \in 1 .. 1
    BY <2>1
  <2> HIDE DEF Status, Left
  <2> QED
    BY <2>3, <2>4 DEF WQ!Enqueue, WQ!Move, Status, Left
<1>3. ASSUME NEW w \in Workers, Receive(w)
      PROVE  \E j \in Jobs : WQ!Deliver(j)
  <2>0. PICK j \in Jobs : j = Head(queue)
    BY <1>3, ReceiveMoves
  <2>1. StatusOf(j) = "queued" /\ StatusOf(j)' = "held"
    <3>1. Queued(j) /\ Running(j)'
      BY <1>3, <2>0, ReceiveMoves
    <3> QED
      BY <3>1, StatusIs, StatusBecomes
  <2>2. \A k \in Jobs \ {j} : StatusOf(k)' = StatusOf(k)
    BY <1>3, <2>0, ReceiveMoves DEF StatusOf
  <2>3. Status' = [Status EXCEPT ![j] = "held"] /\ Left' = [Left EXCEPT ![j] = 0]
    BY <2>1, <2>2
  <2>4. Status[j] = "queued" /\ Left[j] = 1 /\ 1 > 0 /\ 0 = 1 - 1
    BY <2>1
  <2> HIDE DEF Status, Left
  <2> QED
    BY <2>1, <2>3, <2>4 DEF WQ!Deliver, WQ!Move, Status, Left
<1>4. ASSUME NEW w \in Workers, NEW result, Ends(w, result)
      PROVE  \E j \in Jobs : WQ!Settle(j)
  <2>1. PICK j \in Jobs : j = job[w]
    BY <1>4, EndMoves
  <2>2. PICK to \in {"acked", "dead"} : to = IF result = "succeeded" THEN "acked" ELSE "dead"
    OBVIOUS
  <2>3. outcome' = [outcome EXCEPT ![j] = result] /\ outcome \in [Jobs -> {None, "succeeded", "failed"}]
    BY <1>4, <2>1, EndMoves DEF Shape, JobTypes
  <2>4. StatusOf(j) = "held" /\ StatusOf(j)' = to
    BY <1>4, <2>1, <2>2, <2>3, EndMoves, StatusIs, StatusBecomes
  <2>5. \A k \in Jobs \ {j} : StatusOf(k)' = StatusOf(k)
    BY <1>4, <2>1, <2>3, EndMoves DEF StatusOf
  <2>6. Status' = [Status EXCEPT ![j] = to] /\ Left' = Left
    BY <2>2, <2>4, <2>5
  <2>7. Status[j] = "held"
    BY <2>4
  <2> HIDE DEF Status, Left
  <2> QED
    BY <2>2, <2>6, <2>7 DEF WQ!Settle, WQ!Move, Status, Left
<1>5. ASSUME UNCHANGED <<queue, job, outcome>>
      PROVE  UNCHANGED WQ!queueVars
  <2>1. \A j \in Jobs : StatusOf(j)' = StatusOf(j)
    BY <1>5 DEF StatusOf, Queued, Running
  <2> HIDE DEF Status, Left
  <2>2. Status' = Status /\ Left' = Left
    BY <1>1, <2>1
  <2> QED
    BY <2>2 DEF WQ!queueVars, Status, Left
<1>6. CASE \E j \in Jobs : SubmitSends(j)
  BY <1>2, <1>6 DEF WQ!QueueNext
<1>7. CASE \E w \in Workers : Receive(w)
  BY <1>3, <1>7 DEF WQ!QueueNext
<1>8. CASE \E w \in Workers : \E result \in {"succeeded", "failed"} : Ends(w, result)
  BY <1>4, <1>8 DEF WQ!QueueNext
<1>9. CASE UNCHANGED <<queue, job, outcome>>
  BY <1>5, <1>9
<1>10. \/ \E j \in Jobs : SubmitSends(j)
       \/ \E w \in Workers : Receive(w)
       \/ \E w \in Workers : \E result \in {"succeeded", "failed"} : Ends(w, result)
       \/ UNCHANGED <<queue, job, outcome>>
  <2>1. ASSUME NEW j \in Jobs, SubmitCounts(j) \/ SubmitSheds(j)
        PROVE  UNCHANGED <<queue, job, outcome>>
    BY <2>1 DEF SubmitCounts, SubmitSheds, held, history
  <2>2. ASSUME NEW w \in Workers, NEW kind,
               Launch(w) \/ Return(w) \/ Exit(w) \/ Retry(w) \/ BackOff(w, kind)
        PROVE  UNCHANGED <<queue, job, outcome>>
    BY <2>2 DEF Launch, Return, Exit, Retry, BackOff, held, history
  <2>3. ASSUME Cancel \/ StopCloses \/ StopReturns \/ UNCHANGED vars
        PROVE  UNCHANGED <<queue, job, outcome>>
    BY <2>3 DEF Cancel, StopCloses, StopReturns, held, history, vars
  <2> QED
    BY <2>1, <2>2, <2>3 DEF Next, Step, Submit, Ends, Terminated
<1> QED
  BY <1>6, <1>7, <1>8, <1>9, <1>10

(* Every accepted job is handed to one worker, once, and gets one outcome. *)
THEOREM JobsAreAQueue == Spec => ImplementsWorkQueue
<1>1. Init => WQ!QueueInit
  <2> SUFFICES ASSUME Init PROVE WQ!QueueInit
    OBVIOUS
  <2>1. \A j \in Jobs : StatusOf(j) = "new"
    <3>1. Shape /\ \A j \in Jobs : outcome[j] = None /\ ~Running(j) /\ ~Queued(j)
      BY ShapeInit, JobProcessorConstants DEF Init, Running, Queued
    <3> QED
      BY <3>1, StatusIs
  <2> QED
    BY <2>1 DEF WQ!QueueInit
<1>2. IInv /\ IInv' /\ [Next]_vars => [WQ!QueueNext]_WQ!queueVars
  BY QueueNextHolds DEF IInv
<1> QED
  BY <1>1, <1>2, InvHolds, PTL DEF Spec, ImplementsWorkQueue, WQ!QueueSpec

-----------------------------------------------------------------------------
(* The pools of stages 2 to 4. *)

(* A channel that holds no job twice. *)
NoRepeat(channel) ==
    \A i, k \in 1 .. Len(channel) : channel[i] = channel[k] => i = k

InHand(j) == \E w \in crew : hand[w] = j

(* The jobs stage 4 has accepted, wherever they are. *)
Kept == {j \in P!AllJobs : j \in P!Buffered(in) \/ InHand(j) \/ j \in finished}

PoolTypes ==
    /\ stage \in P!Stages /\ crew \subseteq PoolWorkers
    /\ reads \in BOOLEAN /\ (stage = "shed" => ~reads) /\ ends \in BOOLEAN
    /\ in \in Seq(P!AllJobs) /\ Len(in) <= Depth
    /\ out \in Seq(P!AllJobs) /\ Len(out) <= Backlog
    /\ offered \in 0 .. Backlog
    /\ inClosed \in BOOLEAN /\ counting \in BOOLEAN
    /\ over \in BOOLEAN /\ stopped \in BOOLEAN
    /\ place \in [PoolWorkers -> P!Places]
    /\ hand \in [PoolWorkers -> 0 .. Backlog]
    /\ finished \subseteq P!AllJobs
    /\ counts \in [accepted : Nat, rejected : Nat]
    /\ \A w \in crew : hand[w] # 0 <=> place[w] \in {"process", "send"}

(* A job that was offered is in one place; stages 2 and 3 drop none. *)
PoolPlaces ==
    /\ NoRepeat(in) /\ NoRepeat(out)
    /\ \A v, w \in crew : hand[v] = hand[w] /\ hand[v] # 0 => v = w
    /\ \A j \in P!AllJobs :
        LET R == P!Buffered(out) IN
        /\ j \in P!Buffered(in) \/ InHand(j) \/ j \in R \/ j \in finished => j <= offered
        /\ stage # "shed" /\ j <= offered => InHand(j) \/ j \in R \/ j \in finished
        /\ InHand(j) => j \notin P!Buffered(in) /\ j \notin R

(* The closing order, and who uses which channel. *)
PoolClosing ==
    /\ inClosed => offered = Backlog /\ ~counting
    /\ \A w \in crew : place[w] = "done" => stopped \/ (inClosed /\ in = <<>>)
    /\ over => P!CrewGone /\ (stage = "shed" => inClosed)
    /\ stage # "shed" => in = <<>> /\ ~counting
    /\ stage # "pool" => out = <<>>
    /\ stage = "shed" => \A w \in crew : place[w] # "send"

(* Submit's counters; one job may be sent and not counted yet. *)
PoolCounts ==
    LET sent == counts.accepted + (IF counting THEN 1 ELSE 0) IN
    IF stage = "shed"
    THEN sent + counts.rejected = offered /\ Cardinality(Kept) = sent
    ELSE counts.accepted = 0 /\ counts.rejected = 0

(* The inductive strengthening of the pool's invariants. *)
PoolIInv == PoolTypes /\ PoolPlaces /\ PoolClosing /\ PoolCounts

(* What a send and a receive do to the jobs in a channel. *)
LEMMA ChannelSend ==
  ASSUME NEW S, NEW s \in Seq(S), NEW x \in S, NoRepeat(s), x \notin P!Buffered(s)
  PROVE  /\ NoRepeat(Append(s, x)) /\ Append(s, x) \in Seq(S)
         /\ P!Buffered(Append(s, x)) = P!Buffered(s) \cup {x}
<1> DEFINE t == Append(s, x)
<1>1. /\ t \in Seq(S) /\ Len(t) = Len(s) + 1 /\ Len(s) \in Nat /\ t[Len(s) + 1] = x
      /\ \A i \in 1 .. Len(s) : t[i] = s[i]
  OBVIOUS
<1> HIDE DEF t
<1>2. \A i \in 1 .. Len(t) : i = Len(s) + 1 \/ i \in 1 .. Len(s)
  BY <1>1
<1>3. P!Buffered(t) = P!Buffered(s) \cup {x}
  <2>1. \A i \in 1 .. Len(s) : i \in 1 .. Len(t)
    BY <1>1
  <2>2. Len(s) + 1 \in 1 .. Len(t)
    BY <1>1
  <2> QED
    BY <1>1, <1>2, <2>1, <2>2 DEF P!Buffered
<1>4. NoRepeat(t)
  BY <1>1, <1>2 DEF NoRepeat, P!Buffered
<1> QED
  BY <1>1, <1>3, <1>4 DEF t

LEMMA ChannelReceive ==
  ASSUME NEW S, NEW s \in Seq(S), s # <<>>, NoRepeat(s)
  PROVE  /\ Head(s) \in S /\ Head(s) \in P!Buffered(s)
         /\ NoRepeat(Tail(s)) /\ Tail(s) \in Seq(S) /\ Len(Tail(s)) = Len(s) - 1
         /\ P!Buffered(Tail(s)) = P!Buffered(s) \ {Head(s)}
<1> DEFINE t == Tail(s)  n == Len(s)
<1>1. /\ n \in Nat \ {0} /\ Len(t) = n - 1 /\ t \in Seq(S) /\ Head(s) = s[1] /\ Head(s) \in S
      /\ \A i \in 1 .. Len(t) : t[i] = s[i + 1]
  OBVIOUS
<1> HIDE DEF t, n
<1>2. \A i \in 1 .. Len(t) : i + 1 \in 1 .. n
  BY <1>1
<1>3. \A i \in 1 .. n : i = 1 \/ (i - 1 \in 1 .. Len(t) /\ (i - 1) + 1 = i)
  BY <1>1
<1>4. 1 \in 1 .. n
  BY <1>1
<1>5. NoRepeat(t)
  BY <1>1, <1>2 DEF NoRepeat, n
<1>6. P!Buffered(t) = P!Buffered(s) \ {Head(s)}
  <2>1. ASSUME NEW x \in P!Buffered(t) PROVE x \in P!Buffered(s) \ {Head(s)}
    <3>1. PICK i \in 1 .. Len(t) : x = t[i]
      BY <2>1 DEF P!Buffered
    <3>2. i + 1 \in 1 .. n /\ x = s[i + 1] /\ i + 1 # 1
      BY <1>1, <1>2, <3>1
    <3> QED
      BY <1>1, <1>4, <3>2 DEF P!Buffered, NoRepeat, n
  <2>2. ASSUME NEW x \in P!Buffered(s) \ {Head(s)} PROVE x \in P!Buffered(t)
    <3>1. PICK i \in 1 .. n : x = s[i]
      BY <2>2 DEF P!Buffered, n
    <3>2. i - 1 \in 1 .. Len(t) /\ (i - 1) + 1 = i
      BY <1>1, <1>3, <2>2, <3>1
    <3>3. t[i - 1] = x
      BY <1>1, <3>1, <3>2
    <3> QED
      BY <3>2, <3>3 DEF P!Buffered
  <2> QED
    BY <2>1, <2>2
<1> QED
  BY <1>1, <1>4, <1>5, <1>6 DEF P!Buffered, t, n

(* No job has been offered. *)
LEMMA PoolInit == P!WorkerPoolConstants /\ P!Init => PoolIInv
<1> SUFFICES ASSUME P!WorkerPoolConstants, P!Init PROVE PoolIInv
  OBVIOUS
<1>1. PoolTypes
  <2>1. /\ stage \in P!Stages /\ crew \subseteq PoolWorkers
        /\ reads \in BOOLEAN /\ (stage = "shed" => ~reads) /\ ends \in BOOLEAN
    BY DEF P!Init
  <2>2. in \in Seq(P!AllJobs) /\ out \in Seq(P!AllJobs) /\ Len(in) = 0 /\ Len(out) = 0
    BY DEF P!Init
  <2>3. /\ place \in [PoolWorkers -> P!Places] /\ hand \in [PoolWorkers -> 0 .. Backlog]
        /\ \A w \in PoolWorkers : hand[w] = 0 /\ place[w] = "select"
    BY DEF P!Init, P!Places, P!WorkerPoolConstants
  <2>4. /\ offered \in 0 .. Backlog /\ finished \subseteq P!AllJobs
    BY DEF P!Init, P!WorkerPoolConstants
  <2>5. counts \in [accepted : Nat, rejected : Nat]
    BY DEF P!Init
  <2>6. /\ inClosed \in BOOLEAN /\ counting \in BOOLEAN
        /\ over \in BOOLEAN /\ stopped \in BOOLEAN
    BY DEF P!Init
  <2> QED
    BY <2>1, <2>2, <2>3, <2>4, <2>5, <2>6 DEF PoolTypes, P!WorkerPoolConstants
<1>2. in = <<>> /\ out = <<>> /\ P!Buffered(in) = {} /\ P!Buffered(out) = {}
  BY DEF P!Init, P!Buffered
<1>3. PoolPlaces
  <2>1. \A j \in P!AllJobs : ~(j <= offered) /\ j # 0
    BY DEF P!WorkerPoolConstants, P!Init, P!AllJobs
  <2>2. crew \subseteq PoolWorkers /\ \A w \in crew : hand[w] = 0
    BY DEF P!Init
  <2>3. NoRepeat(in) /\ NoRepeat(out)
    BY <1>2 DEF NoRepeat
  <2>4. finished = {}
    BY DEF P!Init
  <2> QED
    BY <1>2, <2>1, <2>2, <2>3, <2>4 DEF PoolPlaces, InHand
<1>4. PoolClosing
  BY <1>1 DEF P!Init, PoolClosing, PoolTypes
<1>5. PoolCounts
  <2>1. Kept = {}
    BY <1>2 DEF P!WorkerPoolConstants, P!Init, Kept, InHand, P!AllJobs
  <2> QED
    BY <2>1, FS_EmptySet DEF P!Init, PoolCounts
<1> QED
  BY <1>1, <1>3, <1>4, <1>5 DEF PoolIInv


(* A worker takes job h: the next one offered, or the first in the queue.  *)
Takes(w, h) ==
    /\ hand' = [hand EXCEPT ![w] = h] /\ place' = [place EXCEPT ![w] = "process"]
    /\ ~InHand(h) /\ h \notin P!Buffered(out)
    /\ offered' \in Nat /\ offered <= offered' /\ offered' <= Backlog /\ h <= offered'
    /\ offered' # offered => offered' = h /\ h = offered + 1 /\ stage # "shed" /\ ~inClosed
    /\ in' \in Seq(P!AllJobs) /\ Len(in') <= Depth /\ NoRepeat(in')
    /\ P!Buffered(in') = P!Buffered(in) \ {h}
    /\ in = <<>> => in' = <<>>
    /\ h \in P!Buffered(in) \/ stage # "shed"

(* A worker gets a job that was nowhere but in the intake. *)
LEMMA PoolTakes ==
  ASSUME P!WorkerPoolConstants, PoolIInv, NEW w \in crew, P!Meet(w) \/ P!Receive(w)
  PROVE  PoolIInv'
<1>0. /\ PoolTypes /\ PoolPlaces /\ PoolClosing /\ PoolCounts
      /\ Backlog \in Nat /\ offered \in Nat /\ w \in PoolWorkers /\ hand[w] = 0
      /\ place[w] = "select"
      /\ UNCHANGED <<stage, crew, reads, ends, inClosed, counting, counts, out, over, stopped,
                     finished>>
  <2>1. place[w] = "select"
    BY DEF P!Meet, P!Receive
  <2>2. UNCHANGED <<stage, crew, reads, ends, inClosed, counting, counts, out, over, stopped,
                    finished>>
    BY DEF P!Meet, P!Receive, P!pool
  <2> QED
    BY <2>1, <2>2 DEF PoolIInv, PoolTypes, P!WorkerPoolConstants
<1>1. PICK h \in P!AllJobs : Takes(w, h)
  <2>1. CASE P!Meet(w)
    <3>1. /\ offered < Backlog /\ offered' = offered + 1 /\ hand' = [hand EXCEPT ![w] = offered + 1]
          /\ place' = [place EXCEPT ![w] = "process"] /\ in' = in
          /\ stage \in {"pool", "cancel"}
      BY <2>1 DEF P!Meet, P!Holds, P!Goto
    <3>2. offered + 1 \in P!AllJobs /\ ~(offered + 1 <= offered)
      BY <1>0, <3>1 DEF P!AllJobs
    <3>3. /\ ~InHand(offered + 1) /\ offered + 1 \notin P!Buffered(out)
          /\ offered + 1 \notin P!Buffered(in)
      BY <1>0, <3>2 DEF PoolPlaces
    <3>4. inClosed => FALSE
      BY <1>0, <3>1 DEF PoolClosing
    <3>5. P!Buffered(in) = P!Buffered(in) \ {offered + 1} /\ offered + 1 <= Backlog
      BY <1>0, <3>1, <3>3
    <3>6. Takes(w, offered + 1)
      BY <1>0, <3>1, <3>2, <3>3, <3>4, <3>5 DEF PoolTypes, PoolPlaces, Takes
    <3> QED
      BY <3>2, <3>6
  <2>2. CASE P!Receive(w)
    <3>1. /\ in # <<>> /\ in' = Tail(in) /\ hand' = [hand EXCEPT ![w] = Head(in)]
          /\ place' = [place EXCEPT ![w] = "process"] /\ offered' = offered
      BY <2>2 DEF P!Receive, P!Holds, P!Goto
    <3>2. /\ Head(in) \in P!AllJobs /\ Head(in) \in P!Buffered(in)
          /\ NoRepeat(Tail(in)) /\ Tail(in) \in Seq(P!AllJobs) /\ Len(Tail(in)) = Len(in) - 1
          /\ P!Buffered(Tail(in)) = P!Buffered(in) \ {Head(in)}
      BY <1>0, <3>1, ChannelReceive DEF PoolTypes, PoolPlaces
    <3>3. ~InHand(Head(in)) /\ Head(in) <= offered
      BY <1>0, <3>2 DEF PoolPlaces
    <3>4. Head(in) \notin P!Buffered(out)
      <4>1. out = <<>>
        BY <1>0, <3>1 DEF PoolClosing
      <4> QED
        BY <4>1 DEF P!Buffered
    <3>5. Len(Tail(in)) <= Depth /\ offered <= Backlog
      BY <1>0, <3>2 DEF PoolTypes, P!WorkerPoolConstants
    <3>6. Takes(w, Head(in))
      BY <1>0, <3>1, <3>2, <3>3, <3>4, <3>5 DEF Takes
    <3> QED
      BY <3>2, <3>6
  <2> QED
    BY <2>1, <2>2
<1>2. h # 0 /\ h \in 0 .. Backlog
  BY <1>0 DEF P!AllJobs
<1>3. \A v \in crew : hand'[v] = (IF v = w THEN h ELSE hand[v])
                      /\ place'[v] = (IF v = w THEN "process" ELSE place[v])
  BY <1>0, <1>1 DEF PoolTypes, Takes
<1>4. \A j \in P!AllJobs : InHand(j)' <=> InHand(j) \/ j = h
  BY <1>0, <1>1, <1>2, <1>3 DEF InHand, P!AllJobs, Takes
<1>5. PoolTypes'
  <2>1. hand' \in [PoolWorkers -> 0 .. Backlog] /\ place' \in [PoolWorkers -> P!Places]
    BY <1>0, <1>1, <1>2 DEF PoolTypes, P!Places, Takes
  <2> QED
    BY <1>0, <1>1, <1>2, <1>3, <2>1 DEF PoolTypes, Takes
<1>6. PoolPlaces'
  <2>1. ASSUME NEW j \in P!AllJobs
        PROVE  LET R == P!Buffered(out)' IN
               /\ (j \in P!Buffered(in)' \/ InHand(j)' \/ j \in R \/ j \in finished')
                    => j <= offered'
               /\ stage' # "shed" /\ j <= offered' => InHand(j)' \/ j \in R \/ j \in finished'
               /\ InHand(j)' => j \notin P!Buffered(in)' /\ j \notin R
    <3>1. P!Buffered(out)' = P!Buffered(out) /\ P!Buffered(in)' = P!Buffered(in) \ {h}
      BY <1>0, <1>1 DEF P!Buffered, Takes
    <3>2. j \in Nat /\ h \in Nat
      BY DEF P!AllJobs
    <3>3. /\ j \in P!Buffered(in) \/ InHand(j) \/ j \in P!Buffered(out) \/ j \in finished
                => j <= offered
          /\ stage # "shed" /\ j <= offered
                => InHand(j) \/ j \in P!Buffered(out) \/ j \in finished
          /\ InHand(j) => j \notin P!Buffered(in) /\ j \notin P!Buffered(out)
      BY <1>0 DEF PoolPlaces
    <3>4. j <= offered' => j <= offered \/ j = h
      BY <1>0, <1>1, <3>2 DEF Takes
    <3> QED
      BY <1>0, <1>1, <1>4, <3>1, <3>2, <3>3, <3>4 DEF Takes
  <2>2. \A v, u \in crew' : hand'[v] = hand'[u] /\ hand'[v] # 0 => v = u
    BY <1>0, <1>1, <1>3 DEF PoolPlaces, InHand, Takes
  <2>3. NoRepeat(in)' /\ NoRepeat(out)'
    BY <1>0, <1>1 DEF PoolPlaces, NoRepeat, Takes
  <2> QED
    BY <2>1, <2>2, <2>3 DEF PoolPlaces
<1>7. PoolClosing'
  <2>1. ~P!CrewGone
    BY <1>0 DEF P!CrewGone
  <2> QED
    BY <1>0, <1>1, <1>3, <2>1 DEF PoolClosing, P!CrewGone, Takes
<1>8. PoolCounts'
  <2>1. stage = "shed" => Kept' = Kept
    <3>1. Kept' = {j \in P!AllJobs : j \in P!Buffered(in') \/ InHand(j)' \/ j \in finished}
      BY <1>0 DEF Kept, P!AllJobs, P!Buffered
    <3> QED
      BY <1>1, <1>4, <3>1 DEF Kept, Takes
  <2> QED
    BY <1>0, <1>1, <2>1 DEF PoolCounts, Takes
<1> QED
  BY <1>5, <1>6, <1>7, <1>8 DEF PoolIInv


(* A worker is rid of its job: the result is buffered, or with the caller,  *)
(* or there is none.                                                        *)
Gives(w, h) ==
    /\ hand' = [hand EXCEPT ![w] = 0] /\ place' = [place EXCEPT ![w] = "select"]
    /\ \/ /\ out' = Append(out, h) /\ finished' = finished
          /\ stage = "pool" /\ Len(out) < Backlog
       \/ out' = out /\ finished' = finished \cup {h}
    /\ UNCHANGED <<stage, crew, reads, ends, in, inClosed, offered, counting, counts, over,
                   stopped>>

LEMMA PoolGives ==
  ASSUME P!WorkerPoolConstants, PoolIInv, NEW w \in crew, Gives(w, hand[w]),
         place[w] \in {"process", "send"}
  PROVE  PoolIInv'
<1> DEFINE h == hand[w]
<1>0. /\ PoolTypes /\ PoolPlaces /\ PoolClosing /\ PoolCounts
      /\ Backlog \in Nat /\ offered \in Nat /\ w \in PoolWorkers
      /\ h \in P!AllJobs /\ InHand(h)
  BY DEF PoolIInv, PoolTypes, P!WorkerPoolConstants, P!AllJobs, InHand
<1> HIDE DEF h
<1>1. /\ hand' = [hand EXCEPT ![w] = 0] /\ place' = [place EXCEPT ![w] = "select"]
      /\ UNCHANGED <<stage, crew, reads, ends, in, inClosed, offered, counting, counts, over,
                     stopped>>
      /\ h = hand[w] /\ h \in Nat /\ h # 0
  BY <1>0 DEF Gives, h, P!AllJobs
<1>2. \A v \in crew : hand'[v] = (IF v = w THEN 0 ELSE hand[v])
                      /\ place'[v] = (IF v = w THEN "select" ELSE place[v])
  BY <1>0, <1>1 DEF PoolTypes
<1>3. \A j \in P!AllJobs : InHand(j)' <=> InHand(j) /\ j # h
  <2>1. \A v \in crew : hand[v] = h => v = w
    BY <1>0, <1>1 DEF PoolPlaces
  <2> QED
    BY <1>0, <1>1, <1>2, <2>1 DEF InHand, P!AllJobs
<1>4. /\ out' \in Seq(P!AllJobs) /\ Len(out') <= Backlog /\ NoRepeat(out')
      /\ finished' \subseteq P!AllJobs
      /\ stage # "pool" => out' = <<>>
      /\ finished \subseteq finished' /\ finished' \subseteq finished \cup {h}
      /\ P!Buffered(out) \subseteq P!Buffered(out')
      /\ P!Buffered(out') \subseteq P!Buffered(out) \cup {h}
      /\ h \in finished' \/ h \in P!Buffered(out')
      /\ stage = "shed" => h \in finished'
  <2>1. CASE out' = out /\ finished' = finished \cup {h}
    BY <1>0, <2>1 DEF PoolTypes, PoolPlaces, PoolClosing
  <2>2. CASE /\ out' = Append(out, h) /\ finished' = finished
             /\ stage = "pool" /\ Len(out) < Backlog
    <3>1. h \notin P!Buffered(out) /\ NoRepeat(out) /\ out \in Seq(P!AllJobs)
      BY <1>0 DEF PoolPlaces, PoolTypes
    <3>2. /\ NoRepeat(Append(out, h)) /\ Append(out, h) \in Seq(P!AllJobs)
          /\ P!Buffered(Append(out, h)) = P!Buffered(out) \cup {h}
      BY <1>0, <3>1, ChannelSend
    <3>3. Len(Append(out, h)) <= Backlog
      BY <1>0, <2>2, <3>1
    <3> QED
      BY <1>0, <2>2, <3>2, <3>3 DEF PoolTypes
  <2> QED
    BY <2>1, <2>2 DEF Gives, h
<1>5. PoolTypes'
  <2>1. hand' \in [PoolWorkers -> 0 .. Backlog] /\ place' \in [PoolWorkers -> P!Places]
    BY <1>0, <1>1 DEF PoolTypes, P!Places
  <2> QED
    BY <1>0, <1>1, <1>2, <1>4, <2>1 DEF PoolTypes
<1>6. PoolPlaces'
  <2>1. ASSUME NEW j \in P!AllJobs
        PROVE  LET R == P!Buffered(out)' IN
               /\ (j \in P!Buffered(in)' \/ InHand(j)' \/ j \in R \/ j \in finished')
                    => j <= offered'
               /\ stage' # "shed" /\ j <= offered' => InHand(j)' \/ j \in R \/ j \in finished'
               /\ InHand(j)' => j \notin P!Buffered(in)' /\ j \notin R
    <3>1. P!Buffered(out)' = P!Buffered(out') /\ P!Buffered(in)' = P!Buffered(in)
      BY <1>1 DEF P!Buffered
    <3>2. h <= offered
      BY <1>0 DEF PoolPlaces
    <3>3. /\ j \in P!Buffered(in) \/ InHand(j) \/ j \in P!Buffered(out) \/ j \in finished
                => j <= offered
          /\ stage # "shed" /\ j <= offered
                => InHand(j) \/ j \in P!Buffered(out) \/ j \in finished
          /\ InHand(j) => j \notin P!Buffered(in) /\ j \notin P!Buffered(out)
      BY <1>0 DEF PoolPlaces
    <3> QED
      BY <1>1, <1>3, <1>4, <3>1, <3>2, <3>3
  <2>2. \A v, u \in crew' : hand'[v] = hand'[u] /\ hand'[v] # 0 => v = u
    BY <1>0, <1>1, <1>2 DEF PoolPlaces
  <2>3. NoRepeat(in)' /\ NoRepeat(out)'
    BY <1>0, <1>1, <1>4 DEF PoolPlaces, NoRepeat
  <2> QED
    BY <2>1, <2>2, <2>3 DEF PoolPlaces
<1>7. PoolClosing'
  <2>1. ~P!CrewGone
    BY DEF P!CrewGone
  <2> QED
    BY <1>0, <1>1, <1>2, <1>4, <2>1 DEF PoolClosing, P!CrewGone
<1>8. PoolCounts'
  <2>1. stage = "shed" => Kept' = Kept
    <3>1. Kept' = {j \in P!AllJobs : j \in P!Buffered(in) \/ InHand(j)' \/ j \in finished'}
      BY <1>1 DEF Kept, P!AllJobs, P!Buffered
    <3> QED
      BY <1>0, <1>3, <1>4, <3>1 DEF Kept
  <2> QED
    BY <1>0, <1>1, <2>1 DEF PoolCounts
<1> QED
  BY <1>5, <1>6, <1>7, <1>8 DEF PoolIInv

(* A job goes into the queue of stage 4, to be counted next. *)
LEMMA PoolSubmit == ASSUME P!WorkerPoolConstants, PoolIInv, P!Submit PROVE PoolIInv'
<1> DEFINE j == offered + 1
<1>0. /\ PoolTypes /\ PoolPlaces /\ PoolClosing /\ PoolCounts
      /\ Backlog \in Nat /\ Depth \in Nat /\ offered \in Nat
  BY DEF PoolIInv, PoolTypes, P!WorkerPoolConstants
<1>1. /\ stage = "shed" /\ ~counting /\ offered < Backlog /\ Len(in) < Depth
      /\ in' = Append(in, j) /\ offered' = j /\ counting' = TRUE
      /\ UNCHANGED <<stage, crew, reads, ends, inClosed, counts, place, hand, out, over,
                     stopped, finished>>
  BY DEF P!Submit, P!pool
<1>2. j \in P!AllJobs /\ ~(j <= offered) /\ offered <= j /\ j \in Nat
  BY <1>0, <1>1 DEF P!AllJobs
<1> HIDE DEF j
<1>3. ~InHand(j) /\ j \notin P!Buffered(in) /\ j \notin P!Buffered(out) /\ j \notin finished
  BY <1>0, <1>2 DEF PoolPlaces
<1>4. /\ NoRepeat(in') /\ in' \in Seq(P!AllJobs) /\ P!Buffered(in') = P!Buffered(in) \cup {j}
      /\ Len(in') <= Depth
  <2>1. in \in Seq(P!AllJobs) /\ NoRepeat(in)
    BY <1>0 DEF PoolTypes, PoolPlaces
  <2>2. Len(Append(in, j)) = Len(in) + 1 /\ Len(in) \in Nat
    BY <2>1
  <2> QED
    BY <1>0, <1>1, <1>2, <1>3, <2>1, <2>2, ChannelSend
<1>5. \A k \in P!AllJobs : InHand(k)' <=> InHand(k)
  BY <1>1 DEF InHand
<1>6. PoolTypes'
  BY <1>0, <1>1, <1>2, <1>4 DEF PoolTypes, P!AllJobs
<1>7. PoolPlaces'
  <2>1. ASSUME NEW k \in P!AllJobs
        PROVE  LET R == P!Buffered(out)' IN
               /\ (k \in P!Buffered(in)' \/ InHand(k)' \/ k \in R \/ k \in finished')
                    => k <= offered'
               /\ stage' # "shed" /\ k <= offered' => InHand(k)' \/ k \in R \/ k \in finished'
               /\ InHand(k)' => k \notin P!Buffered(in)' /\ k \notin R
    <3>1. P!Buffered(out)' = P!Buffered(out) /\ P!Buffered(in)' = P!Buffered(in')
      BY <1>1 DEF P!Buffered
    <3>2. k \in Nat
      BY DEF P!AllJobs
    <3>3. /\ k \in P!Buffered(in) \/ InHand(k) \/ k \in P!Buffered(out) \/ k \in finished
                => k <= offered
          /\ InHand(k) => k \notin P!Buffered(in) /\ k \notin P!Buffered(out)
      BY <1>0 DEF PoolPlaces
    <3> QED
      BY <1>0, <1>1, <1>2, <1>3, <1>4, <1>5, <3>1, <3>2, <3>3
  <2> QED
    BY <1>0, <1>1, <1>4, <2>1 DEF PoolPlaces, NoRepeat
<1>8. PoolClosing'
  <2>1. ~inClosed
    BY <1>0, <1>1 DEF PoolClosing
  <2>2. over => P!CrewGone /\ (stage = "shed" => inClosed)
    BY <1>0 DEF PoolClosing
  <2>3. ~over
    BY <1>1, <2>1, <2>2
  <2>4. ~inClosed' /\ ~over'
    BY <1>1, <2>1, <2>3
  <2>5. stage' = "shed" /\ \A w \in crew' : place'[w] = place[w]
    BY <1>1
  <2>6. \A w \in crew : (place[w] = "done" => stopped) /\ place[w] # "send"
    BY <1>0, <1>1, <2>1 DEF PoolClosing
  <2>7. out' = <<>>
    BY <1>0, <1>1 DEF PoolClosing
  <2> QED
    <3>1. \A w \in crew' : (place'[w] = "done" => stopped') /\ place'[w] # "send"
      BY <1>1, <2>5, <2>6
    <3> QED
      BY <2>4, <2>5, <2>7, <3>1 DEF PoolClosing
<1>9. PoolCounts'
  <2>1. Kept' = Kept \cup {j} /\ j \notin Kept
    <3>1. Kept' = {k \in P!AllJobs : k \in P!Buffered(in') \/ InHand(k)' \/ k \in finished}
      BY <1>1 DEF Kept, P!AllJobs, P!Buffered
    <3> QED
      BY <1>2, <1>3, <1>4, <1>5, <3>1 DEF Kept
  <2>2. IsFiniteSet(Kept)
    <3>1. IsFiniteSet(1 .. Backlog)
      BY <1>0, FS_Interval
    <3>2. Kept \subseteq 1 .. Backlog
      BY DEF Kept, P!AllJobs
    <3> QED
      BY <3>1, <3>2, FS_Subset
  <2>3. Cardinality(Kept') = Cardinality(Kept) + 1
    BY <2>1, <2>2, FS_AddElement
  <2> QED
    <3>1. /\ counts.accepted \in Nat /\ counts.rejected \in Nat /\ counts' = counts
          /\ stage' = "shed" /\ counting' /\ offered' = offered + 1
      BY <1>0, <1>1 DEF PoolTypes, j
    <3>2. /\ counts.accepted + counts.rejected = offered
          /\ Cardinality(Kept) = counts.accepted
      BY <1>0, <1>1, <3>1 DEF PoolCounts
    <3>3. (IF counting' THEN 1 ELSE 0) = 1
      BY <3>1
    <3>4. Cardinality(Kept') = counts'.accepted + 1
      BY <2>3, <3>1, <3>2
    <3> QED
      BY <1>0, <3>1, <3>2, <3>3, <3>4 DEF PoolCounts
<1> QED
  BY <1>6, <1>7, <1>8, <1>9 DEF PoolIInv


(* The caller receives a buffered result. *)
LEMMA PoolCollect == ASSUME P!WorkerPoolConstants, PoolIInv, P!Collect PROVE PoolIInv'
<1>0. /\ PoolTypes /\ PoolPlaces /\ PoolClosing /\ PoolCounts
  BY DEF PoolIInv
<1>1. /\ out # <<>> /\ out' = Tail(out) /\ finished' = finished \cup {Head(out)}
      /\ UNCHANGED <<stage, crew, reads, ends, in, inClosed, offered, counting, counts, place,
                     hand, over, stopped>>
  BY DEF P!Collect, P!pool, P!intake
<1>2. /\ Head(out) \in P!AllJobs /\ Head(out) \in P!Buffered(out)
      /\ NoRepeat(out') /\ out' \in Seq(P!AllJobs) /\ Len(out') = Len(out) - 1
      /\ P!Buffered(out') = P!Buffered(out) \ {Head(out)}
  BY <1>0, <1>1, ChannelReceive DEF PoolTypes, PoolPlaces
<1>3. stage = "pool"
  BY <1>0, <1>1 DEF PoolClosing
<1>4. PoolTypes'
  <2>1. Len(out') <= Backlog
    <3>1. Len(out) <= Backlog /\ Len(out) \in Nat /\ offered \in 0 .. Backlog
      BY <1>0 DEF PoolTypes
    <3> QED
      BY <1>2, <3>1 DEF P!WorkerPoolConstants
  <2>2. finished' \subseteq P!AllJobs
    BY <1>0, <1>1, <1>2 DEF PoolTypes
  <2> QED
    BY <1>0, <1>1, <1>2, <2>1, <2>2 DEF PoolTypes
<1>5. PoolPlaces'
  <2>1. ASSUME NEW j \in P!AllJobs
        PROVE  LET R == P!Buffered(out)' IN
               /\ (j \in P!Buffered(in)' \/ InHand(j)' \/ j \in R \/ j \in finished')
                    => j <= offered'
               /\ stage' # "shed" /\ j <= offered' => InHand(j)' \/ j \in R \/ j \in finished'
               /\ InHand(j)' => j \notin P!Buffered(in)' /\ j \notin R
    <3>1. /\ P!Buffered(out)' = P!Buffered(out') /\ P!Buffered(in)' = P!Buffered(in)
          /\ InHand(j)' = InHand(j)
      BY <1>1 DEF P!Buffered, InHand
    <3>2. /\ j \in P!Buffered(in) \/ InHand(j) \/ j \in P!Buffered(out) \/ j \in finished
                => j <= offered
          /\ stage # "shed" /\ j <= offered
                => InHand(j) \/ j \in P!Buffered(out) \/ j \in finished
          /\ InHand(j) => j \notin P!Buffered(in) /\ j \notin P!Buffered(out)
      BY <1>0 DEF PoolPlaces
    <3> QED
      BY <1>1, <1>2, <3>1, <3>2
  <2> QED
    BY <1>0, <1>1, <1>2, <2>1 DEF PoolPlaces, NoRepeat
<1>6. PoolClosing' /\ PoolCounts'
  BY <1>0, <1>1, <1>3 DEF PoolClosing, PoolCounts, P!CrewGone
<1> QED
  BY <1>4, <1>5, <1>6 DEF PoolIInv

(* Steps that move no job: a worker goes on to its send or leaves, a job    *)
(* is shed or counted, a channel is closed, the context is canceled.        *)
LEMMA PoolStays ==
  ASSUME P!WorkerPoolConstants, PoolIInv,
         UNCHANGED <<stage, crew, in, out, hand, finished>>,
         (PoolTypes /\ PoolClosing /\ PoolCounts)',
         offered' = offered \/ stage = "shed", offered' \in Nat, offered <= offered'
  PROVE  PoolIInv'
<1>0. PoolPlaces /\ offered \in Nat
  BY DEF PoolIInv, PoolTypes
<1>1. ASSUME NEW j \in P!AllJobs
      PROVE  LET R == P!Buffered(out)' IN
             /\ (j \in P!Buffered(in)' \/ InHand(j)' \/ j \in R \/ j \in finished')
                  => j <= offered'
             /\ stage' # "shed" /\ j <= offered' => InHand(j)' \/ j \in R \/ j \in finished'
             /\ InHand(j)' => j \notin P!Buffered(in)' /\ j \notin R
  <2>1. /\ P!Buffered(out)' = P!Buffered(out) /\ P!Buffered(in)' = P!Buffered(in)
        /\ InHand(j)' = InHand(j) /\ j \in Nat
    BY DEF P!Buffered, InHand, P!AllJobs
  <2>2. /\ j \in P!Buffered(in) \/ InHand(j) \/ j \in P!Buffered(out) \/ j \in finished
              => j <= offered
        /\ stage # "shed" /\ j <= offered
              => InHand(j) \/ j \in P!Buffered(out) \/ j \in finished
        /\ InHand(j) => j \notin P!Buffered(in) /\ j \notin P!Buffered(out)
    BY <1>0 DEF PoolPlaces
  <2> QED
    BY <1>0, <2>1, <2>2
<1> QED
  BY <1>0, <1>1 DEF PoolPlaces, NoRepeat, PoolIInv

(* Every step keeps the pool's invariant. *)
LEMMA PoolNext == ASSUME P!WorkerPoolConstants, PoolIInv, [P!Next]_(P!vars) PROVE PoolIInv'
<1>0. /\ PoolTypes /\ PoolPlaces /\ PoolClosing /\ PoolCounts
      /\ Backlog \in Nat /\ offered \in Nat /\ offered <= Backlog
  BY DEF PoolIInv, PoolTypes, P!WorkerPoolConstants
<1>1. ASSUME NEW w \in crew, P!Step(w) PROVE PoolIInv'
  <2>0. w \in PoolWorkers /\ hand[w] \in 0 .. Backlog
    BY <1>0 DEF PoolTypes
  <2>1. CASE P!Meet(w) \/ P!Receive(w)
    BY <2>1, PoolTakes
  <2>2. CASE (stage = "shed" /\ P!Process(w)) \/ P!Buffer(w) \/ P!Deliver(w)
    <3>1. place[w] \in {"process", "send"}
      BY <2>2 DEF P!Process, P!Buffer, P!Deliver
    <3>2. Gives(w, hand[w])
      BY <2>2 DEF P!Process, P!Buffer, P!Deliver, P!Holds, P!Goto, P!pool, P!intake, Gives
    <3> QED
      BY <3>1, <3>2, PoolGives
  <2>3. CASE (stage # "shed" /\ P!Process(w)) \/ P!Leave(w)
    <3>1. PICK p \in {"send", "done"} :
            /\ place' = [place EXCEPT ![w] = p]
            /\ p = "send" => place[w] = "process" /\ stage # "shed"
            /\ p = "done" => place[w] = "select" /\ (P!Drained \/ stopped)
      BY <2>3 DEF P!Process, P!Leave, P!Goto
    <3>2. UNCHANGED <<stage, crew, reads, ends, in, inClosed, offered, counting, counts, hand,
                      out, over, stopped, finished>>
      BY <2>3 DEF P!Process, P!Leave, P!pool, P!intake
    <3>3. \A v \in crew : place'[v] = (IF v = w THEN p ELSE place[v])
      BY <1>0, <3>1 DEF PoolTypes
    <3>4. PoolTypes'
      <4>1. place' \in [PoolWorkers -> P!Places]
        BY <1>0, <3>1 DEF PoolTypes, P!Places
      <4> QED
        BY <1>0, <3>1, <3>2, <3>3, <4>1 DEF PoolTypes
    <3>5. PoolClosing'
      <4>1. ~P!CrewGone
        BY <3>1 DEF P!CrewGone
      <4> QED
        BY <1>0, <3>1, <3>2, <3>3, <4>1 DEF PoolClosing, P!CrewGone, P!Drained
    <3>6. PoolCounts'
      BY <1>0, <3>2 DEF PoolCounts, Kept, InHand, P!Buffered, P!AllJobs
    <3> QED
      BY <1>0, <3>2, <3>4, <3>5, <3>6, PoolStays
  <2> QED
    BY <1>1, <2>1, <2>2, <2>3 DEF P!Step
<1>2. CASE P!Submit
  BY <1>2, PoolSubmit
<1>3. CASE P!Shed
  <2>1. /\ stage = "shed" /\ ~counting /\ offered < Backlog /\ offered' = offered + 1
        /\ counts' = [counts EXCEPT !.rejected = @ + 1]
        /\ UNCHANGED <<stage, crew, reads, ends, in, inClosed, counting, place, hand, out, over,
                       stopped, finished>>
    BY <1>3 DEF P!Shed, P!pool
  <2>2. /\ counts' \in [accepted : Nat, rejected : Nat]
        /\ counts'.accepted = counts.accepted /\ counts'.rejected = counts.rejected + 1
        /\ counts.accepted \in Nat /\ counts.rejected \in Nat
    BY <1>0, <2>1 DEF PoolTypes
  <2>3. PoolTypes'
    BY <1>0, <2>1, <2>2 DEF PoolTypes
  <2>4. PoolClosing'
    <3>1. ~inClosed
      BY <1>0, <2>1 DEF PoolClosing
    <3> QED
      BY <1>0, <2>1, <3>1 DEF PoolClosing, P!CrewGone
  <2>5. PoolCounts'
    <3>1. Kept' = Kept
      BY <2>1 DEF Kept, InHand, P!Buffered, P!AllJobs
    <3>2. /\ counts.accepted + counts.rejected = offered
          /\ Cardinality(Kept) = counts.accepted
      BY <1>0, <2>1, <2>2 DEF PoolCounts
    <3>3. (IF counting' THEN 1 ELSE 0) = 0
      BY <2>1
    <3> QED
      BY <1>0, <2>1, <2>2, <3>1, <3>2, <3>3 DEF PoolCounts
  <2> QED
    BY <1>0, <2>1, <2>3, <2>4, <2>5, PoolStays
<1>4. CASE P!CountAccepted
  <2>1. /\ counting /\ counting' = FALSE /\ counts' = [counts EXCEPT !.accepted = @ + 1]
        /\ UNCHANGED <<stage, crew, reads, ends, in, inClosed, offered, place, hand, out, over,
                       stopped, finished>>
    BY <1>4 DEF P!CountAccepted, P!pool
  <2>2. /\ counts' \in [accepted : Nat, rejected : Nat]
        /\ counts'.accepted = counts.accepted + 1 /\ counts'.rejected = counts.rejected
        /\ counts.accepted \in Nat /\ counts.rejected \in Nat
    BY <1>0, <2>1 DEF PoolTypes
  <2>3. PoolTypes'
    BY <1>0, <2>1, <2>2 DEF PoolTypes
  <2>4. PoolClosing'
    BY <1>0, <2>1 DEF PoolClosing, P!CrewGone
  <2>5. PoolCounts'
    <3>1. Kept' = Kept
      BY <2>1 DEF Kept, InHand, P!Buffered, P!AllJobs
    <3>2. stage = "shed"
      BY <1>0, <2>1 DEF PoolClosing
    <3>3. /\ counts.accepted + 1 + counts.rejected = offered
          /\ Cardinality(Kept) = counts.accepted + 1
      BY <1>0, <2>1, <2>2, <3>2 DEF PoolCounts
    <3>4. (IF counting' THEN 1 ELSE 0) = 0
      BY <2>1
    <3> QED
      BY <1>0, <2>1, <2>2, <3>1, <3>2, <3>3, <3>4 DEF PoolCounts
  <2> QED
    BY <1>0, <2>1, <2>3, <2>4, <2>5, PoolStays
<1>5. CASE P!CloseIn \/ P!Finish \/ P!Cancel
  <2>1. UNCHANGED <<stage, crew, reads, ends, in, offered, counting, counts, place, hand, out,
                    finished>>
    BY <1>5 DEF P!CloseIn, P!Finish, P!Cancel, P!pool, P!intake
  <2>2. PoolTypes' /\ PoolClosing'
    <3>1. CASE P!CloseIn
      BY <1>0, <2>1, <3>1 DEF P!CloseIn, PoolTypes, PoolClosing, P!CrewGone
    <3>2. CASE P!Finish
      BY <1>0, <2>1, <3>2 DEF P!Finish, PoolTypes, PoolClosing, P!CrewGone, P!intake
    <3>3. CASE P!Cancel
      BY <1>0, <2>1, <3>3 DEF P!Cancel, PoolTypes, PoolClosing, P!CrewGone, P!intake
    <3> QED
      BY <1>5, <3>1, <3>2, <3>3
  <2>3. PoolCounts'
    BY <1>0, <2>1 DEF PoolCounts, Kept, InHand, P!Buffered, P!AllJobs
  <2> QED
    BY <1>0, <2>1, <2>2, <2>3, PoolStays
<1>6. CASE P!StopReading
  <2>1. /\ reads' = FALSE
        /\ UNCHANGED <<stage, crew, ends, in, inClosed, offered, counting, counts, place, hand,
                       out, over, stopped, finished>>
    BY <1>6 DEF P!StopReading, P!intake
  <2>2. PoolTypes' /\ PoolClosing'
    BY <1>0, <2>1 DEF PoolTypes, PoolClosing, P!CrewGone
  <2>3. PoolCounts'
    BY <1>0, <2>1 DEF PoolCounts, Kept, InHand, P!Buffered, P!AllJobs
  <2> QED
    BY <1>0, <2>1, <2>2, <2>3, PoolStays
<1>7. CASE P!Rest \/ UNCHANGED P!vars
  <2>1. UNCHANGED <<stage, crew, reads, ends, in, inClosed, offered, counting, counts, place,
                    hand, out, over, stopped, finished>>
    BY <1>7 DEF P!Rest, P!vars, P!pool, P!intake
  <2>2. PoolTypes' /\ PoolClosing'
    BY <1>0, <2>1 DEF PoolTypes, PoolClosing, P!CrewGone
  <2>3. PoolCounts'
    BY <1>0, <2>1 DEF PoolCounts, Kept, InHand, P!Buffered, P!AllJobs
  <2> QED
    BY <1>0, <2>1, <2>2, <2>3, PoolStays
<1> QED
  BY <1>1, <1>2, <1>3, <1>4, <1>5, <1>6, <1>7, PoolCollect DEF P!Next, P!Feed


(* The inductive invariant of the pool holds in every reachable state. *)
LEMMA AlwaysPoolIInv == P!Spec => []PoolIInv
<1>1. P!Init => PoolIInv
  BY PoolAssumption, PoolInit
<1>2. PoolIInv /\ [P!Next]_(P!vars) => PoolIInv'
  BY PoolAssumption, PoolNext
<1> QED BY <1>1, <1>2, PTL DEF P!Spec

(* "workers never block" on a result (02-workerpool line 30), and none is  *)
(* left to send once the results are closed ("all sends on out are done",  *)
(* line 49).                                                               *)
THEOREM WorkersNeverBlock == P!Spec => []P!SendsFindRoom
<1>1. PoolIInv => P!SendsFindRoom
  <2> SUFFICES ASSUME PoolIInv, NEW w \in crew, place[w] = "send"
               PROVE  ~over /\ (stage = "pool" => Len(out) < Backlog)
    BY DEF P!SendsFindRoom
  <2>0. PoolTypes /\ PoolPlaces /\ PoolClosing /\ Backlog \in Nat
    BY PoolAssumption DEF PoolIInv, P!WorkerPoolConstants
  <2>1. ~over
    BY <2>0 DEF PoolClosing, P!CrewGone
  <2>2. /\ hand[w] \in P!AllJobs /\ hand[w] \notin P!Buffered(out)
        /\ NoRepeat(out) /\ out \in Seq(P!AllJobs) /\ Len(out) <= Backlog
    BY <2>0 DEF PoolTypes, PoolPlaces, InHand, P!AllJobs
  <2>3. ASSUME Len(out) = Backlog PROVE FALSE
    <3> DEFINE t == Append(out, hand[w])
    <3>1. NoRepeat(t) /\ t \in Seq(P!AllJobs)
      BY <2>2, ChannelSend
    <3>2. Len(t) = Backlog + 1
      BY <2>2, <2>3
    <3> HIDE DEF t
    <3>3. t \in [1 .. Backlog + 1 -> 1 .. Backlog]
      <4>1. t \in [1 .. Len(t) -> P!AllJobs]
        BY <3>1
      <4> QED
        BY <3>2, <4>1 DEF P!AllJobs
    <3>4. \A i, k \in 1 .. Backlog + 1 : t[i] = t[k] => i = k
      BY <3>1, <3>2 DEF NoRepeat
    <3>5. t \in Injection(1 .. Backlog + 1, 1 .. Backlog)
      BY <3>3, <3>4 DEF Injection, IsInjective
    <3>6. /\ IsFiniteSet(1 .. Backlog) /\ Cardinality(1 .. Backlog) = Backlog
          /\ IsFiniteSet(1 .. Backlog + 1) /\ Cardinality(1 .. Backlog + 1) = Backlog + 1
      BY <2>0, FS_Interval
    <3>7. Cardinality(1 .. Backlog + 1) <= Cardinality(1 .. Backlog)
      BY <3>5, <3>6, FS_Injection
    <3> QED
      BY <2>0, <3>6, <3>7
  <2> QED
    BY <2>0, <2>1, <2>2, <2>3
<1> QED BY <1>1, AlwaysPoolIInv, PTL

(* Whatever is canceled and whoever stops reading: when the results close, *)
(* or Stop returns, no worker has a job, no result is lost, and without a  *)
(* cancellation all accepted jobs have run ("the returned channel is       *)
(* closed after all results are delivered", 03-workerpool-cancel lines     *)
(* 30-31; "waits for workers to drain the queue", 04-backpressure line 75).*)
THEOREM ClosingIsComplete == P!Spec => []P!ClosedIsComplete
<1>1. PoolIInv => P!ClosedIsComplete
  <2> SUFFICES ASSUME PoolIInv, over
               PROVE  /\ P!CrewGone
                      /\ crew # {} /\ ~stopped => offered = Backlog
                      /\ stage # "shed" => finished \cup P!Buffered(out) = 1 .. offered
                      /\ stage = "shed" =>
                          /\ counts.accepted + counts.rejected = Backlog
                          /\ crew # {} /\ ~stopped => P!Cardinality(finished) = counts.accepted
    BY DEF P!ClosedIsComplete
  <2>0. /\ PoolTypes /\ PoolPlaces /\ PoolClosing /\ PoolCounts
        /\ Backlog \in Nat /\ offered \in 0 .. Backlog
    BY PoolAssumption DEF PoolIInv, PoolTypes, P!WorkerPoolConstants
  <2>1. P!CrewGone /\ (stage = "shed" => inClosed)
    BY <2>0 DEF PoolClosing
  <2>2. \A j : ~(j \in P!AllJobs /\ InHand(j))
    <3>1. \A w \in crew : hand[w] = 0
      BY <2>0, <2>1 DEF P!CrewGone, PoolTypes
    <3> QED
      BY <3>1 DEF InHand, P!AllJobs
  <2>3. crew # {} /\ ~stopped => inClosed /\ in = <<>>
    BY <2>0, <2>1 DEF PoolClosing, P!CrewGone
  <2>4. inClosed => offered = Backlog /\ ~counting
    BY <2>0 DEF PoolClosing
  <2>5. ASSUME stage # "shed" PROVE finished \cup P!Buffered(out) = 1 .. offered
    <3>1. P!Buffered(out) \subseteq P!AllJobs /\ finished \subseteq P!AllJobs
      BY <2>0 DEF PoolTypes, P!Buffered
    <3>2. \A j \in P!AllJobs : j \in finished \/ j \in P!Buffered(out) <=> j <= offered
      <4> SUFFICES ASSUME NEW j \in P!AllJobs
                   PROVE  j \in finished \/ j \in P!Buffered(out) <=> j <= offered
        OBVIOUS
      <4>1. /\ j \in P!Buffered(out) \/ j \in finished => j <= offered
            /\ j <= offered => InHand(j) \/ j \in P!Buffered(out) \/ j \in finished
        BY <2>0, <2>5 DEF PoolPlaces
      <4> QED
        BY <2>2, <4>1
    <3>3. 1 .. offered = {j \in P!AllJobs : j <= offered}
      BY <2>0 DEF P!AllJobs
    <3>4. finished \cup P!Buffered(out) = {j \in P!AllJobs : j <= offered}
      BY <3>1, <3>2
    <3> QED
      BY <3>3, <3>4
  <2>6. ASSUME stage = "shed" PROVE counts.accepted + counts.rejected = Backlog
    BY <2>0, <2>1, <2>4, <2>6 DEF PoolCounts, PoolTypes
  <2>7. ASSUME stage = "shed", crew # {}, ~stopped
        PROVE  P!Cardinality(finished) = counts.accepted
    <3>1. P!Buffered(in) = {}
      BY <2>3, <2>7 DEF P!Buffered
    <3>2. Kept = finished
      BY <2>0, <2>2, <3>1 DEF Kept, PoolTypes
    <3>3. Cardinality(Kept) = counts.accepted
      BY <2>0, <2>3, <2>4, <2>7 DEF PoolCounts, PoolTypes
    <3>4. P!Cardinality(finished) = Cardinality(finished)
      BY DEF P!Cardinality, Cardinality
    <3> QED
      BY <3>2, <3>3, <3>4
  <2> QED
    BY <2>1, <2>3, <2>4, <2>5, <2>6, <2>7
<1> QED BY <1>1, AlwaysPoolIInv, PTL

-----------------------------------------------------------------------------
(* A behaviour of the two is one of each: the other one stands still. *)
LEMMA ConcurrencyIsBoth == ConcurrencySpec => Spec /\ P!Spec
<1>1. ConcurrencyInit => Init /\ P!Init
  BY DEF ConcurrencyInit
<1>2. [ConcurrencyNext]_all => [Next]_vars /\ [P!Next]_(P!vars)
  BY DEF ConcurrencyNext, Processor, Pool, all, poolVars, vars, P!vars, P!pool, P!intake
<1> QED BY <1>1, <1>2, PTL DEF ConcurrencySpec, Spec, P!Spec

(* Types of both; a worker holds a job exactly while it has it to run or   *)
(* to deliver.                                                             *)
THEOREM TypesCorrect == ConcurrencySpec => []TypesOK
<1>1. PoolIInv => P!TypeOK
  <2> SUFFICES ASSUME PoolIInv PROVE P!TypeOK
    OBVIOUS
  <2>0. PoolTypes /\ PoolPlaces /\ PoolClosing /\ PoolCounts /\ Backlog \in Nat
    BY PoolAssumption DEF PoolIInv, P!WorkerPoolConstants
  <2>1. counts.accepted \in 0 .. Backlog /\ counts.rejected \in 0 .. Backlog
    BY <2>0 DEF PoolTypes, PoolCounts
  <2>2. counts \in [accepted : 0 .. Backlog, rejected : 0 .. Backlog]
    BY <2>0, <2>1 DEF PoolTypes
  <2> QED
    BY <2>0, <2>2 DEF PoolTypes, P!TypeOK
<1> QED BY <1>1, ConcurrencyIsBoth, TypeCorrect, AlwaysPoolIInv, PTL DEF TypesOK
=============================================================================
