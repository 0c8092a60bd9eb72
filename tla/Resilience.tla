----------------------------- MODULE Resilience -----------------------------
(***************************************************************************)
(* Retry, circuit breaker and bulkhead of                                  *)
(* 15-microservices/examples/resilience/resilience.go, composed the way    *)
(* TestStorm_BreakerCapsDownstreamHits composes them, around one           *)
(* dependency that several callers share.                                  *)
(*                                                                         *)
(* Time is kept as distances from now, so that it never runs out: openFor  *)
(* is openUntil - now, budget is the time left to a caller's deadline and  *)
(* wait the time left of its backoff.  Tick moves all of them.             *)
(***************************************************************************)
EXTENDS Integers, FiniteSets

CONSTANTS
    Callers,         \* goroutines
    Threshold,       \* NewBreaker's threshold
    Cooldown,        \* NewBreaker's cooldown
    MaxInFlight,     \* NewBulkhead's maxInFlight
    Base,            \* Retry's base backoff
    MaxTries,        \* Retry's maxAttempts
    Retryable,       \* the results isRetryable accepts
    Budgets          \* deadlines callers may bring, NoDeadline for none

NoDeadline == -1

ASSUME ResilienceConstants ==
    /\ Threshold \in Nat \ {0}
    /\ Cooldown \in Nat \ {0}
    /\ MaxInFlight \in Nat \ {0}
    /\ Base \in Nat \ {0, 1}    \* rand.Int64N(base / 2) panics otherwise
    /\ MaxTries \in Nat \ {0}
    /\ Budgets \subseteq Nat \cup {NoDeadline}

VARIABLES
    failures,   \* Breaker.failures, kept at Threshold once there
    openFor,    \* openUntil - now, no lower than Past; Closed if openUntil is zero
    halfOpen,   \* Breaker.halfOpen
    slots,      \* len(Bulkhead.sem)
    pc,         \* caller -> where it is, see Places
    tries,      \* caller -> Retry's loop variable
    budget,     \* caller -> time to the deadline of its context (0: expired)
    wait,       \* caller -> time to the end of its backoff
    result,     \* caller -> what the current op returned
    probing,    \* history: callers admitted since the breaker last closed
    sinceTrip   \* history: time since Record last opened the breaker, up to Cooldown

breaker == <<failures, openFor, halfOpen, sinceTrip>>
callerVars == <<failures, openFor, halfOpen, slots, pc, tries, budget, wait,
                result, probing, sinceTrip>>

Past == -1
Closed == -2

(* idle: outside Retry; allow: before breaker.Allow; enter: before         *)
(* bulkhead.Do's select; call: inside fn; record: before breaker.Record;   *)
(* decide: op returned; backoff: in Retry's select.                        *)
Places == {"idle", "allow", "enter", "call", "record", "decide", "backoff"}

-----------------------------------------------------------------------------
CallersInit ==
    /\ failures = 0
    /\ openFor = Closed
    /\ halfOpen = FALSE
    /\ slots = 0
    /\ pc = [c \in Callers |-> "idle"]
    /\ tries = [c \in Callers |-> 0]
    /\ budget = [c \in Callers |-> NoDeadline]
    /\ wait = [c \in Callers |-> 0]
    /\ result = [c \in Callers |-> "nil"]
    /\ probing = {}
    /\ sinceTrip = Cooldown

CallerTo(c, place) == pc' = [pc EXCEPT ![c] = place]
Yields(c, r) == result' = [result EXCEPT ![c] = r]

(* ctx.Done() is ready. *)
Expired(c) == budget[c] = 0

(* Retry returns; its local variables are gone. *)
Leave(c) ==
    /\ CallerTo(c, "idle")
    /\ tries' = [tries EXCEPT ![c] = 0]
    /\ budget' = [budget EXCEPT ![c] = NoDeadline]
    /\ wait' = [wait EXCEPT ![c] = 0]
    /\ Yields(c, "nil")

(* A caller enters Retry. *)
Begin(c) ==
    /\ pc[c] = "idle"
    /\ \E b \in Budgets : budget' = [budget EXCEPT ![c] = b]
    /\ CallerTo(c, "allow")
    /\ UNCHANGED <<breaker, slots, tries, wait, result, probing>>

(* `now.Before(b.openUntil)` *)
StillOpen == openFor > 0

(* Allow returns true; the first arrival strictly after openUntil takes    *)
(* the probe flag.                                                         *)
Admit(c) ==
    /\ pc[c] = "allow"
    /\ ~StillOpen
    /\ ~halfOpen
    /\ halfOpen' = (openFor = Past)
    /\ probing' = IF openFor # Closed THEN probing \cup {c} ELSE probing
    /\ CallerTo(c, "enter")
    /\ UNCHANGED <<failures, openFor, sinceTrip, slots, tries, budget, wait, result>>

(* Allow returns false: the op is ErrCircuitOpen. *)
FastFail(c) ==
    /\ pc[c] = "allow"
    /\ StillOpen \/ halfOpen
    /\ Yields(c, "ErrCircuitOpen")
    /\ CallerTo(c, "decide")
    /\ UNCHANGED <<breaker, slots, tries, budget, wait, probing>>

(* Bulkhead.Do's select finds a free slot. *)
Enter(c) ==
    /\ pc[c] = "enter"
    /\ slots < MaxInFlight
    /\ slots' = slots + 1
    /\ CallerTo(c, "call")
    /\ UNCHANGED <<breaker, tries, budget, wait, result, probing>>

(* The select takes ctx.Done(): also possible when a slot is free. *)
EnterExpired(c) ==
    /\ pc[c] = "enter"
    /\ Expired(c)
    /\ Yields(c, "ctx")
    /\ CallerTo(c, "record")
    /\ UNCHANGED <<breaker, slots, tries, budget, wait, probing>>

(* Neither is ready: ErrBulkheadFull, which the caller does not Record.    *)
Saturated(c) ==
    /\ pc[c] = "enter"
    /\ slots = MaxInFlight
    /\ ~Expired(c)
    /\ Yields(c, "ErrBulkheadFull")
    /\ CallerTo(c, "decide")
    /\ UNCHANGED <<breaker, slots, tries, budget, wait, probing>>

(* Mutation: the slot is not given back on an error. *)
LeakySlots(r) == IF r = "nil" THEN slots - 1 ELSE slots

(* The deferred `<-b.sem`. *)
SlotsAfter(r) == slots - 1

(* fn returns and the deferred release runs. *)
Finish(c) ==
    /\ pc[c] = "call"
    /\ \E r \in {"nil", "error"} :
        /\ Yields(c, r)
        /\ slots' = SlotsAfter(r)
    /\ CallerTo(c, "record")
    /\ UNCHANGED <<breaker, tries, budget, wait, probing>>

Trip == openFor' = Cooldown /\ sinceTrip' = 0

(* Mutation: only a successful probe takes its flag down. *)
FlagAfterSuccessOnly(ok) == ~ok

(* The probe flag after a report. *)
FlagAfter(ok) == FALSE

(* Record while the probe flag is up: whoever reports decides. *)
ResolveProbe(ok) ==
    /\ halfOpen
    /\ halfOpen' = FlagAfter(ok)
    /\ IF ok
       THEN /\ openFor' = Closed
            /\ failures' = 0
            /\ UNCHANGED sinceTrip
       ELSE /\ Trip
            /\ UNCHANGED failures

(* Mutation: any success closes the breaker. *)
CountOutcomeCloses(ok) ==
    /\ ~halfOpen
    /\ failures' = IF ok THEN 0
                   ELSE IF failures < Threshold THEN failures + 1 ELSE failures
    /\ IF ok THEN openFor' = Closed /\ UNCHANGED sinceTrip
       ELSE IF failures' >= Threshold THEN Trip
       ELSE UNCHANGED <<openFor, sinceTrip>>
    /\ UNCHANGED halfOpen

(* Record otherwise: count, and open at the threshold. *)
CountOutcome(ok) ==
    /\ ~halfOpen
    /\ failures' = IF ok THEN 0
                   ELSE IF failures < Threshold THEN failures + 1 ELSE failures
    /\ IF failures' >= Threshold THEN Trip ELSE UNCHANGED <<openFor, sinceTrip>>
    /\ UNCHANGED halfOpen

Record(c) ==
    /\ pc[c] = "record"
    /\ ResolveProbe(result[c] = "nil") \/ CountOutcome(result[c] = "nil")
    /\ probing' = IF openFor' = Closed THEN {} ELSE probing \ {c}
    /\ CallerTo(c, "decide")
    /\ UNCHANGED <<slots, tries, budget, wait, result>>

(* `base << attempt` *)
Backoff(c) == Base * 2^tries[c]

(* `time.Until(deadline) <= backoff` *)
BudgetSpent(c) == budget[c] # NoDeadline /\ budget[c] <= Backoff(c)

(* Retry returns: success, an error that is not retryable, or no budget    *)
(* left for the backoff.                                                   *)
ReturnNow(c) ==
    /\ pc[c] = "decide"
    /\ result[c] \notin Retryable \/ BudgetSpent(c)
    /\ Leave(c)
    /\ UNCHANGED <<breaker, slots, probing>>

(* Otherwise it sleeps for the backoff and its jitter, also after the last *)
(* attempt.                                                                *)
Sleep(c) ==
    /\ pc[c] = "decide"
    /\ result[c] \in Retryable /\ ~BudgetSpent(c)
    /\ \E jitter \in 0 .. (Backoff(c) \div 2) - 1 :
        wait' = [wait EXCEPT ![c] = Backoff(c) + jitter]
    /\ CallerTo(c, "backoff")
    /\ UNCHANGED <<breaker, slots, tries, budget, result, probing>>

(* `attempt < maxAttempts`, after `attempt++` *)
AttemptsLeft(c) == tries[c] + 1 < MaxTries

(* The timer fires: the next attempt, or "after %d attempts". *)
Wake(c) ==
    /\ pc[c] = "backoff"
    /\ wait[c] = 0
    /\ IF AttemptsLeft(c)
       THEN /\ tries' = [tries EXCEPT ![c] = @ + 1]
            /\ CallerTo(c, "allow")
            /\ Yields(c, "nil")
            /\ UNCHANGED <<budget, wait>>
       ELSE Leave(c)
    /\ UNCHANGED <<breaker, slots, probing>>

(* The deadline passes during the backoff. *)
GiveUp(c) ==
    /\ pc[c] = "backoff"
    /\ Expired(c)
    /\ Leave(c)
    /\ UNCHANGED <<breaker, slots, probing>>

Down(x) == IF x > 0 THEN x - 1 ELSE x

(* Time passes for everyone. *)
Tick ==
    /\ openFor' = IF openFor \in {Closed, Past} THEN openFor ELSE openFor - 1
    /\ sinceTrip' = IF sinceTrip < Cooldown THEN sinceTrip + 1 ELSE sinceTrip
    /\ budget' = [c \in Callers |-> Down(budget[c])]
    /\ wait' = [c \in Callers |-> Down(wait[c])]
    /\ UNCHANGED <<failures, halfOpen, slots, pc, tries, result, probing>>

(* What a caller does once it is inside Retry. *)
CallerStep(c) ==
    \/ Admit(c) \/ FastFail(c)
    \/ Enter(c) \/ EnterExpired(c) \/ Saturated(c)
    \/ Finish(c) \/ Record(c)
    \/ ReturnNow(c) \/ Sleep(c) \/ Wake(c) \/ GiveUp(c)

CallersNext == Tick \/ \E c \in Callers : Begin(c) \/ CallerStep(c)

CallersSpec == CallersInit /\ [][CallersNext]_callerVars

-----------------------------------------------------------------------------
Results == {"nil", "error", "ctx", "ErrCircuitOpen", "ErrBulkheadFull"}
Out(c) == pc[c] \in {"enter", "call", "record"}

(* Type correctness; the bulkhead counts exactly the calls inside the      *)
(* dependency, so that no slot leaks on an error or an expired context.    *)
CallersTypeOK ==
    /\ failures \in 0 .. Threshold
    /\ openFor \in {Closed, Past} \cup 0 .. Cooldown
    /\ halfOpen \in BOOLEAN
    /\ slots \in 0 .. MaxInFlight
    /\ slots = Cardinality({c \in Callers : pc[c] = "call"})
    /\ pc \in [Callers -> Places]
    /\ tries \in [Callers -> 0 .. MaxTries - 1]
    /\ budget \in [Callers -> Nat \cup {NoDeadline}]
    /\ wait \in [Callers -> Nat]
    /\ result \in [Callers -> Results]
    /\ probing \subseteq Callers
    /\ sinceTrip \in 0 .. Cooldown

(* A trip holds for the whole cooldown: whatever late outcomes of calls    *)
(* admitted before the trip still come in, nobody is admitted earlier      *)
(* (Allow lines 83-85, Record lines 111-118).                              *)
CooldownHonoured ==
    [][\A c \in Callers :
        pc[c] = "allow" /\ pc'[c] = "enter" => sinceTrip >= Cooldown]_callerVars

(* "a probe is already out" (line 87): while the flag makes Allow fail,    *)
(* some admitted call is still going to report, so the flag comes down.    *)
(* The probe itself may have been turned away by the bulkhead, which       *)
(* nobody reports; then a call that holds a slot reports in its place.     *)
FlagHasReporter == halfOpen => openFor = Past /\ \E c \in Callers : Out(c)

(* The breaker never refuses calls for ever: Allow would return true again *)
(* and again, through any mix of failed probes and late reports.           *)
AdmitsAgain == []<>(~StillOpen /\ ~halfOpen)

(* Lines 77-78: "In half-open state, exactly one probe is admitted;        *)
(* everyone else fast-fails".  At the instant openUntil callers are        *)
(* admitted without raising the flag, and a late report of a call from     *)
(* before the trip takes the flag down while the probe is still out.       *)
OneProbe == Cardinality({c \in probing : Out(c)}) <= 1
=============================================================================
