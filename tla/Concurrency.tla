---------------------------- MODULE Concurrency ----------------------------
(***************************************************************************)
(* The stages of the concurrency progression, side by side: a behaviour is *)
(* one of the job processor (stage 5) or one of a pool (stages 2 to 4),    *)
(* chosen at the start.  They are programs of their own, and the other one *)
(* stays in an initial state.                                              *)
(***************************************************************************)
EXTENDS JobProcessor

CONSTANTS Backlog, PoolWorkers, Depth

VARIABLES
    subject,    \* "processor" or "pool"
    stage, crew, reads, ends, in, inClosed, offered, counting, place, hand, out,
    over, stopped, finished, counts

P == INSTANCE WorkerPool

ASSUME PoolAssumption == P!WorkerPoolConstants

poolVars == <<stage, crew, reads, ends, in, inClosed, offered, counting, place,
              hand, out, over, stopped, finished, counts>>
all == <<subject, vars, poolVars>>

ConcurrencyInit ==
    /\ Init /\ P!Init
    /\ subject \in {"processor", "pool"}
    /\ subject = "processor" => stage = "pool" /\ crew = {}

Processor(A) == subject = "processor" /\ A /\ UNCHANGED <<subject, poolVars>>
Pool(A) == subject = "pool" /\ A /\ UNCHANGED <<subject, vars>>

ConcurrencyNext == Processor(Next) \/ Pool(P!Next)

ConcurrencySpec == ConcurrencyInit /\ [][ConcurrencyNext]_all

(* Go schedules every goroutine that can run, handlers return, and Stop is *)
(* called; nobody has to cancel the processor.  The workers of a pool are  *)
(* the crew it launched, its caller collects what it reads, and main's     *)
(* context of stage 3, whose feeder never ends, has a deadline.            *)
FairConcurrency ==
    /\ ConcurrencySpec
    /\ \A w \in Workers : WF_all(Processor(Step(w)))
    /\ \A w \in PoolWorkers : WF_all(Pool(w \in crew /\ P!Step(w)))
    /\ \A j \in Jobs : WF_all(Processor(Submit(j)))
    /\ WF_all(Processor(StopCloses \/ StopReturns))
    /\ WF_all(Pool(P!Feed)) /\ WF_all(Pool(P!Collect)) /\ WF_all(Pool(P!Finish))
    /\ WF_all(Pool(~ends /\ P!Cancel))

-----------------------------------------------------------------------------
(* The type invariants of both modules. *)
TypesOK == TypeOK /\ P!TypeOK

(* CancelStopsPool of the pool: a cancellation stops stage 3. *)
CancelStopsPool == subject = "pool" => P!CancelStopsPool
=============================================================================
