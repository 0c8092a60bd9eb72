------------------------------- MODULE Gates -------------------------------
(***************************************************************************)
(* The two gates a call passes, side by side: a behaviour is one of the    *)
(* retry, breaker and bulkhead, or one of the rate limiter, chosen at the  *)
(* start.  Neither calls the other, and the other one stays in its initial *)
(* state.                                                                  *)
(***************************************************************************)
EXTENDS Resilience

CONSTANTS Tasks, Ids, Boxes, GlobalBurst, Burst, TTL, Workloads, Lag

VARIABLES
    gate,       \* "resilience" or "limiter"
    global, keys, bucket, age, serves, at, id, box, lag, todo, before, victim,
    ideal, disturbed

L == INSTANCE Limiter

ASSUME LimiterAssumption == L!LimiterConstants

limiterVars ==
    <<global, keys, bucket, age, serves, at, id, box, lag, todo, before, victim,
      ideal, disturbed>>
gatesVars == <<gate, callerVars, limiterVars>>

(* Nothing is asked for in the behaviours about the other gate. *)
FirstWorkload == CHOOSE f \in Workloads : TRUE

GatesInit ==
    /\ CallersInit /\ L!Init
    /\ gate \in {"resilience", "limiter"}
    /\ gate = "resilience" => serves = FirstWorkload

Guard(A) == gate = "resilience" /\ A /\ UNCHANGED <<gate, limiterVars>>
Limit(A) == gate = "limiter" /\ A /\ UNCHANGED <<gate, callerVars>>

GatesNext == Guard(CallersNext) \/ Limit(L!Next)

GatesSpec == GatesInit /\ [][GatesNext]_gatesVars

-----------------------------------------------------------------------------
(* The type invariants of both modules. *)
GatesTypesOK == CallersTypeOK /\ L!TypeOK

(* NoExtraBurst, NotEvictedInUse and IdleIsForgotten of the limiter. *)
NoExtraBurst == L!NoExtraBurst
NotEvictedInUse == L!NotEvictedInUse
IdleIsForgotten == L!IdleIsForgotten
=============================================================================
