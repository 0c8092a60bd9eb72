----------------------------- MODULE WorkerPool -----------------------------
(***************************************************************************)
(* Stages 2 to 4 of the concurrency progression of 08-concurrency/examples *)
(* as the workers, the channels and their closing order:                   *)
(*   "pool"    02-workerpool: results buffered, no context                 *)
(*   "cancel"  03-workerpool-cancel: results unbuffered, a context         *)
(*   "shed"    04-backpressure: bounded intake, no results channel         *)
(*                                                                         *)
(* A rendezvous on an unbuffered channel is one step of both sides.  A     *)
(* select with several ready cases picks any of them.                      *)
(***************************************************************************)
EXTENDS Naturals, Sequences, FiniteSets

CONSTANTS
    Backlog,       \* the jobs are 1 .. Backlog, offered in that order
    PoolWorkers,   \* a pool runs on a subset of these goroutines
    Depth          \* New's queueDepth

WorkerPoolConstants ==
    /\ Backlog \in Nat
    /\ Depth \in Nat \ {0}   \* an unbuffered intake behaves differently

VARIABLES
    stage,      \* which of the three programs this is
    crew,       \* the n workers launched; none when n is zero or negative
    reads,      \* the caller still ranges over the results
    ends,       \* whoever feeds the pool closes its channel after the last job
    in,         \* p.queue; the other stages' intake is unbuffered
    inClosed,   \* close(in), close(jobs) or close(p.queue) happened
    offered,    \* the last job the feeder or submitter got rid of
    counting,   \* Submit sent a job and has not counted it yet
    place,      \* worker -> where its goroutine is, see Places
    hand,       \* worker -> the job in hand, 0 for none
    out,        \* the results buffered in out
    over,       \* close(out) happened, or Stop returned
    stopped,    \* ctx.Done() is closed
    finished,   \* jobs whose result was received; stage 4: processed
    counts      \* p.accepted and p.rejected

pool == <<crew, reads, ends, stage>>
intake == <<in, inClosed, offered, counting, counts>>
vars == <<pool, intake, place, hand, out, over, stopped, finished>>

Stages == {"pool", "cancel", "shed"}
Places == {"select", "process", "send", "done"}
AllJobs == 1 .. Backlog

-----------------------------------------------------------------------------
Init ==
    /\ stage \in Stages
    /\ crew \in SUBSET PoolWorkers
    /\ reads = (stage # "shed")
    /\ ends \in (IF stage = "cancel" THEN BOOLEAN ELSE {TRUE})
    /\ in = <<>>
    /\ inClosed = FALSE
    /\ offered = 0
    /\ counting = FALSE
    /\ place = [w \in PoolWorkers |-> "select"]
    /\ hand = [w \in PoolWorkers |-> 0]
    /\ out = <<>>
    /\ over = FALSE
    /\ stopped = FALSE
    /\ finished = {}
    /\ counts = [accepted |-> 0, rejected |-> 0]

Goto(w, p) == place' = [place EXCEPT ![w] = p]
Holds(w, j) == hand' = [hand EXCEPT ![w] = j]

(* Stages 2 and 3: the feeder's send meets a worker's receive. *)
Meet(w) ==
    /\ stage \in {"pool", "cancel"}
    /\ place[w] = "select"
    /\ offered < Backlog
    /\ offered' = offered + 1
    /\ Holds(w, offered + 1)
    /\ Goto(w, "process")
    /\ UNCHANGED <<pool, in, inClosed, counting, counts, out, over, stopped, finished>>

(* Stage 4: Submit finds room and sends ... *)
Submit ==
    /\ stage = "shed" /\ ~counting
    /\ offered < Backlog
    /\ Len(in) < Depth
    /\ in' = Append(in, offered + 1)
    /\ offered' = offered + 1
    /\ counting' = TRUE
    /\ UNCHANGED <<pool, inClosed, counts, place, hand, out, over, stopped, finished>>

(* ... and counts in a second step, which the workers may overtake. *)
CountAccepted ==
    /\ counting
    /\ counting' = FALSE
    /\ counts' = [counts EXCEPT !.accepted = @ + 1]
    /\ UNCHANGED <<pool, in, inClosed, offered, place, hand, out, over, stopped, finished>>

(* A full queue: ErrOverloaded. *)
Shed ==
    /\ stage = "shed" /\ ~counting
    /\ offered < Backlog
    /\ Len(in) >= Depth
    /\ offered' = offered + 1
    /\ counts' = [counts EXCEPT !.rejected = @ + 1]
    /\ UNCHANGED <<pool, in, inClosed, counting, place, hand, out, over, stopped, finished>>

(* The feeder's deferred close, or Stop's after the last Submit. *)
CloseIn ==
    /\ ends /\ ~inClosed
    /\ offered = Backlog /\ ~counting
    /\ inClosed' = TRUE
    /\ UNCHANGED <<pool, in, offered, counting, counts, place, hand, out, over,
                   stopped, finished>>

(* Stage 4: a worker receives from the queue. *)
Receive(w) ==
    /\ place[w] = "select"
    /\ in # <<>>
    /\ in' = Tail(in)
    /\ Holds(w, Head(in))
    /\ Goto(w, "process")
    /\ UNCHANGED <<pool, inClosed, offered, counting, counts, out, over, stopped, finished>>

(* The job ran; in stage 4 that is all there is to it. *)
Process(w) ==
    /\ place[w] = "process"
    /\ IF stage = "shed"
       THEN /\ finished' = finished \cup {hand[w]}
            /\ Holds(w, 0)
            /\ Goto(w, "select")
       ELSE /\ Goto(w, "send")
            /\ UNCHANGED <<finished, hand>>
    /\ UNCHANGED <<pool, intake, out, over, stopped>>

(* Stage 2: `out <- Result{...}` into a buffer of len(jobs).  A send on a  *)
(* closed channel never completes here; the program would panic.           *)
Buffer(w) ==
    /\ stage = "pool" /\ place[w] = "send" /\ ~over
    /\ Len(out) < Backlog
    /\ out' = Append(out, hand[w])
    /\ Holds(w, 0)
    /\ Goto(w, "select")
    /\ UNCHANGED <<pool, intake, over, stopped, finished>>

(* The caller's range receives a buffered result, also after the close. *)
Collect ==
    /\ reads
    /\ out # <<>>
    /\ finished' = finished \cup {Head(out)}
    /\ out' = Tail(out)
    /\ UNCHANGED <<pool, intake, place, hand, over, stopped>>

(* Stage 3: `out <- process(ctx, j)` waits for the caller's receive and    *)
(* for nothing else: this send is in no select.                            *)
Deliver(w) ==
    /\ stage = "cancel" /\ place[w] = "send" /\ ~over
    /\ reads
    /\ finished' = finished \cup {hand[w]}
    /\ Holds(w, 0)
    /\ Goto(w, "select")
    /\ UNCHANGED <<pool, intake, out, over, stopped>>

(* The caller breaks out of its range: it has what it wants, or gives up. *)
StopReading ==
    /\ reads
    /\ reads' = FALSE
    /\ UNCHANGED <<crew, ends, stage, intake, place, hand, out, over, stopped, finished>>

(* The intake is closed and its buffer empty. *)
Drained == inClosed /\ in = <<>>

(* `!ok`, or the select of stages 3 and 4 takes ctx.Done(). *)
Leave(w) ==
    /\ place[w] = "select"
    /\ Drained \/ stopped
    /\ Goto(w, "done")
    /\ UNCHANGED <<pool, intake, hand, out, over, stopped, finished>>

(* Mutation: stage 3 closes out when ctx is canceled, workers or not. *)
CrewGoneOrCanceled == stopped \/ \A w \in crew : place[w] = "done"

(* workers.Wait(): at once when no worker was launched. *)
CrewGone == \A w \in crew : place[w] = "done"

(* close(out) after workers.Wait(), or Stop's wg.Wait(), which follows its *)
(* close of the queue.                                                     *)
Finish ==
    /\ ~over
    /\ stage = "shed" => inClosed
    /\ CrewGone
    /\ over' = TRUE
    /\ UNCHANGED <<pool, intake, place, hand, out, stopped, finished>>

(* The deadline of main's context, or the caller's cancel. *)
Cancel ==
    /\ stage # "pool" /\ ~stopped
    /\ stopped' = TRUE
    /\ UNCHANGED <<pool, intake, place, hand, out, over, finished>>

(* Nothing moves any more: the pool is over, or it is stage 3 and the      *)
(* caller stopped reading, which leaves every worker with a result stuck.  *)
Stuck(w) == stage = "cancel" /\ ~reads /\ place[w] = "send"
Rest ==
    /\ over \/ \E w \in crew : Stuck(w)
    /\ UNCHANGED vars

Step(w) ==
    \/ Meet(w) \/ Receive(w) \/ Process(w) \/ Buffer(w) \/ Deliver(w) \/ Leave(w)
Feed == Submit \/ CountAccepted \/ Shed \/ CloseIn

Next ==
    \/ \E w \in crew : Step(w)
    \/ Feed \/ Collect \/ StopReading \/ Finish \/ Cancel \/ Rest

Spec == Init /\ [][Next]_vars

-----------------------------------------------------------------------------
(* Type correctness; a worker holds a job exactly from its receive to its  *)
(* send, and nobody is left to send once out is closed.                    *)
TypeOK ==
    /\ stage \in Stages /\ crew \subseteq PoolWorkers
    /\ reads \in BOOLEAN /\ (stage = "shed" => ~reads) /\ ends \in BOOLEAN
    /\ in \in Seq(AllJobs) /\ Len(in) <= Depth
    /\ out \in Seq(AllJobs) /\ Len(out) <= Backlog
    /\ offered \in 0 .. Backlog
    /\ {inClosed, counting, over, stopped} \subseteq BOOLEAN
    /\ place \in [PoolWorkers -> Places]
    /\ hand \in [PoolWorkers -> 0 .. Backlog]
    /\ finished \subseteq AllJobs
    /\ counts \in [accepted : 0 .. Backlog, rejected : 0 .. Backlog]
    /\ \A w \in crew : hand[w] # 0 <=> place[w] \in {"process", "send"}

Buffered(channel) == {channel[i] : i \in 1 .. Len(channel)}

(* The results of stage 2 have room for every job ("buffered: workers      *)
(* never block", 02-workerpool line 30), and nobody is left to send once   *)
(* they are closed ("all sends on out are done", line 49).                 *)
SendsFindRoom ==
    \A w \in crew : place[w] = "send" =>
        ~over /\ (stage = "pool" => Len(out) < Backlog)

(* Once out is closed, or Stop has returned, every job a worker took has   *)
(* its result in the channel or with the caller; stage 4 ran every job it  *)
(* accepted.  A worker that left by a cancellation may leave jobs behind.  *)
ClosedIsComplete ==
    over =>
        /\ CrewGone
        /\ crew # {} /\ ~stopped => offered = Backlog
        /\ stage # "shed" => finished \cup Buffered(out) = 1 .. offered
        /\ stage = "shed" =>
            /\ counts.accepted + counts.rejected = Backlog
            /\ crew # {} /\ ~stopped => Cardinality(finished) = counts.accepted

(* What the stages promise of a pool that is over: all workers have left,  *)
(* every job a worker took has its result with the caller (who reads), and *)
(* every job that was neither shed nor overtaken by a cancellation was     *)
(* taken, provided there was a worker; stage 4's counters say so.          *)
Settled ==
    /\ over
    /\ \A w \in crew : place[w] = "done"
    /\ crew # {} /\ ~stopped => offered = Backlog
    /\ reads => finished = 1 .. offered
    /\ stage = "shed" =>
        /\ counts.accepted + counts.rejected = Backlog
        /\ crew # {} /\ ~stopped => Cardinality(finished) = counts.accepted

(* "Every blocking operation selects on ctx.Done(), so canceling the       *)
(* context stops intake, workers, and output collection promptly"          *)
(* (03-workerpool-cancel lines 2-4), whatever the caller does.             *)
CancelStopsPool == stage = "cancel" => (stopped ~> over)
=============================================================================
