------------------------------ MODULE Traffic ------------------------------
(***************************************************************************)
(* The goroutine programs, side by side: a behaviour is one of Concurrency *)
(* (chapter 8) or one of Gates (chapters 14 and 15), chosen at the start.  *)
(* They do not call each other, and the other one stays in an initial      *)
(* state.                                                                  *)
(***************************************************************************)
EXTENDS Concurrency, Gates

VARIABLE traffic    \* "jobs" or "calls"

trafficVars == <<traffic, all, gatesVars>>

(* Nothing is chosen for the part that is not run. *)
TrafficInit ==
    /\ ConcurrencyInit /\ GatesInit
    /\ \/ traffic = "jobs" /\ gate = "resilience"
       \/ traffic = "calls" /\ subject = "processor"

OfJobs(A) == traffic = "jobs" /\ A /\ UNCHANGED <<traffic, gatesVars>>
OfCalls(A) == traffic = "calls" /\ A /\ UNCHANGED <<traffic, all>>

TrafficNext == OfJobs(ConcurrencyNext) \/ OfCalls(GatesNext)

TrafficSpec == TrafficInit /\ [][TrafficNext]_trafficVars

(* Fairness as in FairConcurrency; in the gates the clocks run, a goroutine *)
(* that can move does, the dependency answers (Finish), and Sweep runs     *)
(* "periodically from one goroutine".  Nobody is obliged to Begin a call.  *)
FairTraffic ==
    /\ TrafficSpec
    /\ \A w \in Workers : WF_trafficVars(OfJobs(Processor(Step(w))))
    /\ \A w \in PoolWorkers :
        WF_trafficVars(OfJobs(Pool(w \in crew /\ P!Step(w))))
    /\ \A j \in Jobs : WF_trafficVars(OfJobs(Processor(Submit(j))))
    /\ WF_trafficVars(OfJobs(Processor(StopCloses \/ StopReturns)))
    /\ WF_trafficVars(OfJobs(Pool(P!Feed)))
    /\ WF_trafficVars(OfJobs(Pool(P!Collect)))
    /\ WF_trafficVars(OfJobs(Pool(P!Finish)))
    /\ WF_trafficVars(OfJobs(Pool(~ends /\ P!Cancel)))
    /\ WF_trafficVars(OfCalls(Guard(Tick)))
    /\ \A c \in Callers : WF_trafficVars(OfCalls(Guard(CallerStep(c))))
    /\ WF_trafficVars(OfCalls(Limit(L!Tick)))
    /\ \A t \in Tasks : WF_trafficVars(OfCalls(Limit(L!Allow(t))))
    /\ WF_trafficVars(OfCalls(Limit(L!Sweep)))

-----------------------------------------------------------------------------
(* Stop of the job processor returns, from any state, whatever is queued   *)
(* or retrying, with or without a cancellation.                            *)
JobsStop == <>[](traffic = "jobs" /\ subject = "processor" => stop = "returned")

(* A pool shuts down whatever happens to its context, its intake and its   *)
(* caller: "workers never block" (02-workerpool line 30), "The returned    *)
(* channel is always closed exactly once" (03-workerpool-cancel line 30),  *)
(* "waits for workers to drain the queue" (04-backpressure line 75).  With *)
(* any number of workers, none included; but a caller of stage 3 has to    *)
(* read on, see CancelStopsPool.                                           *)
PoolsFinish ==
    <>[](stage = "cancel" => reads) =>
        <>[](traffic = "jobs" /\ subject = "pool" => P!Settled)
=============================================================================
