--------------------------- MODULE PaymentService ---------------------------
(***************************************************************************)
(* The payments service of 14-backend-development/examples/service, from   *)
(* the signal handler of main.go to the store: concurrent requests run     *)
(* through Instrument, Recover, authenticate, requireKind, the handlers of *)
(* http.go, Service and the payment store, while run drains the server.    *)
(*                                                                         *)
(* One step is what happens between two points where other goroutines can  *)
(* tell: a store call (MemoryStore locks), a metric, a span, the response. *)
(* Outside the repository, and modelled from its use: net/http's server    *)
(* and Shutdown, the tracer provider.  A store other than MemoryStore may  *)
(* fail: the service is written against the PaymentStore interface.        *)
(***************************************************************************)
EXTENDS Integers, Sequences, FiniteSets, Functions

CONSTANTS
    Requests,      \* the requests, one connection each
    Customers,     \* customer ids
    Inputs,        \* request -> the inputs it may carry, see Input
    StoreErrors,   \* what PaymentStore calls may return besides nil
    MaxCharges     \* bound: payments there can be

(* What a request carries.  kind is the kind of its bearer token ("none":  *)
(* missing or unknown), who the subject of a user token.  A create names   *)
(* the customer to charge in `about`, or a body that Decode ("malformed")  *)
(* or Validate ("invalid") refuses; a cancel names a payment id.           *)
Input ==
    [route : {"health"}, kind : {"none", "admin", "user"}, who : Customers,
     about : {"nothing"}]
    \cup
    [route : {"create"}, kind : {"none", "admin", "user"}, who : Customers,
     about : Customers \cup {"malformed", "invalid"}]
    \cup
    [route : {"cancel"}, kind : {"none", "admin", "user"}, who : Customers,
     about : 1 .. MaxCharges]

ASSUME PaymentServiceConstants ==
    /\ Inputs \in [Requests -> SUBSET Input]
    /\ StoreErrors \subseteq {"ErrInsufficientFunds", "error"}
    /\ MaxCharges \in Nat \ {0}
    /\ Customers \cap {"malformed", "invalid", "nothing"} = {}

VARIABLES
    payments,   \* MemoryStore: the payment with id i at i, [CustomerID, Status]
    place,      \* request -> where its goroutine is, see Places
    input,      \* request -> what it carries
    status,     \* request -> statusWriter.status, 0 before the first write
    span,       \* request -> its span: [state, code], code 0 if not set
    requests,   \* requests_total: status code -> count
    errors,     \* errors_total
    charged,    \* charged_total
    failed,     \* failed_total: reason -> count
    server,     \* where main is, see Stages
    exported,   \* requests whose span the tracer provider has exported
    known,      \* history: request -> how many payments there were at its ByID
    made,       \* history: request -> the payment it created, 0 if none
    blown,      \* history: requests whose handler panicked before responding
    graceful    \* history: no forced close

vars == <<payments, place, input, status, span, requests, errors, charged,
          failed, server, exported, known, made, blown, graceful>>

(* new: not received; authenticate, mux, decode, charge, emit, respond,    *)
(* find, cancel: before that step of the handlers; return: back in         *)
(* Instrument; done: Instrument returned.                                  *)
Places == {"new", "authenticate", "mux", "decode", "charge", "emit", "respond",
           "find", "cancel", "return", "done"}

(* starting: before ListenAndServe listens; serving: in run's select;      *)
(* draining: in Shutdown; drained, forced: run returned, after a drain or  *)
(* after Close; flushed: the tracer provider is shut down; exited.         *)
Stages == {"starting", "serving", "draining", "drained", "forced", "flushed",
           "exited", "failed"}

Codes == {200, 201, 204, 400, 401, 403, 404, 409, 422, 500}
Reasons == {"validation", "store", "not_found"}

Init ==
    /\ payments = <<>>
    /\ place = [r \in Requests |-> "new"]
    /\ input \in {f \in [Requests -> UNION {Inputs[r] : r \in Requests}] :
                    \A r \in Requests : f[r] \in Inputs[r]}
    /\ status = [r \in Requests |-> 0]
    /\ span = [r \in Requests |-> [state |-> "none", code |-> 0]]
    /\ requests = [c \in Codes |-> 0]
    /\ errors = 0
    /\ charged = 0
    /\ failed = [x \in Reasons |-> 0]
    /\ server = "starting"
    /\ exported = {}
    /\ known = [r \in Requests |-> 0]
    /\ made = [r \in Requests |-> 0]
    /\ blown = {}
    /\ graceful = TRUE

red == <<requests, errors>>
business == <<charged, failed>>
process == <<server, exported, graceful>>
history == <<known, made, blown>>

Goto(r, p) == place' = [place EXCEPT ![r] = p]

(* statusWriter.WriteHeader: the first code counts. *)
WriteHeader(r, code) ==
    status' = [status EXCEPT ![r] = IF @ = 0 THEN code ELSE @]

Answer(r, code) == WriteHeader(r, code) /\ Goto(r, "return")

Alive == server \notin {"exited", "failed"}

-----------------------------------------------------------------------------
(* Instrument receives the request and starts its span.  The server takes  *)
(* no new connection once Shutdown is called.                              *)
Receive(r) ==
    /\ place[r] = "new"
    /\ server = "serving"
    /\ span' = [span EXCEPT ![r].state = "recording"]
    /\ Goto(r, "authenticate")
    /\ UNCHANGED <<payments, input, status, red, business, process, history>>

(* authenticate: no identity, 401; also for the health endpoints. *)
Unauthorized(r) ==
    /\ place[r] = "authenticate"
    /\ input[r].kind = "none"
    /\ Answer(r, 401)
    /\ UNCHANGED <<payments, input, span, red, business, process, history>>

Authenticated(r) ==
    /\ place[r] = "authenticate"
    /\ input[r].kind # "none"
    /\ Goto(r, "mux")
    /\ UNCHANGED <<payments, input, status, span, red, business, process, history>>

(* The mux: health endpoints answer at once ... *)
Health(r) ==
    /\ place[r] = "mux"
    /\ input[r].route = "health"
    /\ Answer(r, 200)
    /\ UNCHANGED <<payments, input, span, red, business, process, history>>

(* ... requireKind("user") guards the payment routes ... *)
Forbidden(r) ==
    /\ place[r] = "mux"
    /\ input[r].route # "health" /\ input[r].kind # "user"
    /\ Answer(r, 403)
    /\ UNCHANGED <<payments, input, span, red, business, process, history>>

(* ... and lets users through to the handlers. *)
Dispatch(r) ==
    /\ place[r] = "mux"
    /\ input[r].route # "health" /\ input[r].kind = "user"
    /\ Goto(r, IF input[r].route = "create" THEN "decode" ELSE "find")
    /\ UNCHANGED <<payments, input, status, span, red, business, process, history>>

(* create: a body that Decode cannot read. *)
BadRequest(r) ==
    /\ place[r] = "decode"
    /\ input[r].about = "malformed"
    /\ Answer(r, 400)
    /\ UNCHANGED <<payments, input, span, red, business, process, history>>

Failed(reason) == failed' = [failed EXCEPT ![reason] = @ + 1]

(* Charge: Validate refuses the input, before there is a business span. *)
Invalid(r) ==
    /\ place[r] = "decode"
    /\ input[r].about = "invalid"
    /\ Failed("validation")
    /\ Answer(r, 422)
    /\ UNCHANGED <<payments, input, span, red, charged, process, history>>

Valid(r) ==
    /\ place[r] = "decode"
    /\ input[r].about \in Customers
    /\ Goto(r, "charge")
    /\ UNCHANGED <<payments, input, status, span, red, business, process, history>>

(* MemoryStore.Charge. *)
Charge(r) ==
    /\ place[r] = "charge"
    /\ Len(payments) < MaxCharges
    /\ payments' = Append(payments, [CustomerID |-> input[r].about,
                                     Status |-> "charged"])
    /\ made' = [made EXCEPT ![r] = Len(payments) + 1]
    /\ Goto(r, "emit")
    /\ UNCHANGED <<input, status, span, red, business, process, known, blown>>

(* The span chargeSpan returns is the request's own: no tracer is ever set *)
(* on the metrics, and Charge ends what it is given when it returns.       *)
ChargeSpanEnd(r) == span' = [span EXCEPT ![r].state = "ended"]

(* The store refuses: errors Charge passes on. *)
ChargeFails(r) ==
    /\ place[r] = "charge"
    /\ Failed("store")
    /\ ChargeSpanEnd(r)
    /\ \/ "ErrInsufficientFunds" \in StoreErrors /\ Answer(r, 422)
       \/ "error" \in StoreErrors /\ Answer(r, 500)
    /\ UNCHANGED <<payments, input, red, charged, process, history>>

EmitCharged(r) ==
    /\ place[r] = "emit"
    /\ charged' = charged + 1
    /\ ChargeSpanEnd(r)
    /\ Goto(r, "respond")
    /\ UNCHANGED <<payments, input, status, red, failed, process, history>>

Created(r) ==
    /\ place[r] = "respond"
    /\ Answer(r, 201)
    /\ UNCHANGED <<payments, input, span, red, business, process, history>>

(* Service.Cancel up to the store's Cancel: ByID and the checks on the     *)
(* payment it returned, a copy.                                            *)
Target(r) == payments[input[r].about]
Exists(r) == input[r].about \in 1 .. Len(payments)

(* `p.CustomerID != actor.ID` fails. *)
Owns(r) == Target(r).CustomerID = input[r].who

Read(r) ==
    /\ place[r] = "find"
    /\ known' = [known EXCEPT ![r] = Len(payments)]

FindUnknown(r) ==
    /\ Read(r)
    /\ ~Exists(r)
    /\ Failed("not_found")
    /\ Answer(r, 404)
    /\ UNCHANGED <<payments, input, span, red, charged, process, made, blown>>

FindForbidden(r) ==
    /\ Read(r)
    /\ Exists(r) /\ ~Owns(r)
    /\ Answer(r, 404)
    /\ UNCHANGED <<payments, input, span, red, business, process, made, blown>>

FindNotCancelable(r) ==
    /\ Read(r)
    /\ Exists(r) /\ Owns(r) /\ Target(r).Status # "charged"
    /\ Answer(r, 409)
    /\ UNCHANGED <<payments, input, span, red, business, process, made, blown>>

FindCancelable(r) ==
    /\ Read(r)
    /\ Exists(r) /\ Owns(r) /\ Target(r).Status = "charged"
    /\ Goto(r, "cancel")
    /\ UNCHANGED <<payments, input, status, span, red, business, process, made, blown>>

(* Mutation: Cancel stores a payment with nothing but the status. *)
CancelBlanks(r) ==
    [payments EXCEPT ![input[r].about] = [CustomerID |-> "", Status |-> "canceled"]]

(* Mutation: Cancel changes its copy and does not store it. *)
CancelCopyOnly(r) == payments

(* MemoryStore.Cancel: it does not look at the status again. *)
Canceled(r) == [payments EXCEPT ![input[r].about].Status = "canceled"]

Cancel(r) ==
    /\ place[r] = "cancel"
    /\ payments' = Canceled(r)
    /\ Answer(r, 204)
    /\ UNCHANGED <<input, span, red, business, process, history>>

CancelFails(r) ==
    /\ place[r] = "cancel"
    /\ "error" \in StoreErrors
    /\ Answer(r, 500)
    /\ UNCHANGED <<payments, input, span, red, business, process, history>>

(* Mutation: the deferred function only logs. *)
RecoverLogs(r) == Goto(r, "return") /\ UNCHANGED status

(* Recover answers 500 unless a status was written. *)
Recover(r) == Answer(r, 500)

(* A handler panics before it wrote anything. *)
Panic(r) ==
    /\ place[r] \in {"mux", "decode", "respond", "find"}
    /\ Recover(r)
    /\ blown' = blown \cup {r}
    /\ UNCHANGED <<payments, input, span, red, business, process, known, made>>

Code(r) == IF status[r] = 0 THEN 200 ELSE status[r]

(* Instrument after next.ServeHTTP: RED metrics, then the span, which      *)
(* ignores what is set on it once it has ended.                            *)
Instrument(r) ==
    /\ place[r] = "return"
    /\ requests' = [requests EXCEPT ![Code(r)] = @ + 1]
    /\ errors' = IF Code(r) >= 500 THEN errors + 1 ELSE errors
    /\ span' = [span EXCEPT ![r] =
                    IF @.state = "ended" THEN @
                    ELSE [state |-> "ended", code |-> Code(r)]]
    /\ Goto(r, "done")
    /\ UNCHANGED <<payments, input, status, business, process, history>>

-----------------------------------------------------------------------------
rest == <<payments, place, input, status, span, red, business, history>>

(* ListenAndServe listens, or fails at once: run returns the error and     *)
(* main exits without its deferred calls.                                  *)
Listen ==
    /\ server = "starting"
    /\ server' \in {"serving", "failed"}
    /\ UNCHANGED <<rest, exported, graceful>>

(* SIGTERM: run leaves its select and calls Shutdown. *)
Signal ==
    /\ server = "serving"
    /\ server' = "draining"
    /\ UNCHANGED <<rest, exported, graceful>>

InFlight == {r \in Requests : place[r] \notin {"new", "done"}}

(* What Shutdown waits for. *)
Idle == InFlight = {}

(* Mutation: run does not wait for Shutdown. *)
DrainedAtOnce ==
    /\ server = "draining"
    /\ server' = "drained"
    /\ UNCHANGED <<rest, exported, graceful>>

Drained ==
    /\ server = "draining"
    /\ Idle
    /\ server' = "drained"
    /\ UNCHANGED <<rest, exported, graceful>>

(* Mutation: Shutdown without a deadline. *)
NoGrace == FALSE

(* The deadline of shutdownCtx always comes. *)
Grace == server = "draining"

(* The grace period is over first: Close; handlers keep running. *)
ForcedClose ==
    /\ Grace
    /\ ~Idle
    /\ server' = "forced"
    /\ graceful' = FALSE
    /\ UNCHANGED <<rest, exported>>

(* main's deferred call: what has ended is exported, nothing later is. *)
FlushTraces ==
    /\ server \in {"drained", "forced"}
    /\ server' = "flushed"
    /\ exported' = {r \in Requests : span[r].state = "ended"}
    /\ UNCHANGED <<rest, graceful>>

Exit ==
    /\ server = "flushed"
    /\ server' = "exited"
    /\ UNCHANGED <<rest, exported, graceful>>

Terminated == ~Alive /\ UNCHANGED vars

Handle(r) ==
    /\ Alive
    /\ \/ Unauthorized(r) \/ Authenticated(r)
       \/ Health(r) \/ Forbidden(r) \/ Dispatch(r)
       \/ BadRequest(r) \/ Invalid(r) \/ Valid(r)
       \/ Charge(r) \/ ChargeFails(r) \/ EmitCharged(r) \/ Created(r)
       \/ FindUnknown(r) \/ FindForbidden(r) \/ FindNotCancelable(r)
       \/ FindCancelable(r) \/ Cancel(r) \/ CancelFails(r)
       \/ Panic(r) \/ Instrument(r)

Shutdown == Drained \/ ForcedClose \/ FlushTraces \/ Exit

Next ==
    \/ \E r \in Requests : Receive(r) \/ Handle(r)
    \/ Listen \/ Signal \/ Shutdown \/ Terminated

Spec == Init /\ [][Next]_vars

-----------------------------------------------------------------------------
(* Type correctness. *)
TypeOK ==
    /\ \A i \in 1 .. Len(payments) :
        payments[i] \in [CustomerID : Customers, Status : {"charged", "canceled"}]
    /\ place \in [Requests -> Places]
    /\ status \in [Requests -> Codes \cup {0}]
    /\ span \in [Requests -> [state : {"none", "recording", "ended"},
                              code : Codes \cup {0}]]
    /\ requests \in [Codes -> Nat] /\ errors \in Nat
    /\ charged \in Nat /\ failed \in [Reasons -> Nat]
    /\ server \in Stages
    /\ exported \subseteq Requests

Responded(r) == place[r] \in {"return", "done"}

(* Whatever the interleaving, an answer tells the client the truth: 201    *)
(* and only 201 or 500 come with a payment, which is the one asked for;    *)
(* 204 and 409 are about the caller's own payment, which is canceled; 404  *)
(* is about a payment that was not there when Cancel looked, or is         *)
(* somebody else's (http.go lines 149-198, service.go lines 133-150).      *)
AnswersAreTrue ==
    \A r \in Requests : Responded(r) =>
        /\ status[r] # 0
        /\ made[r] # 0 => status[r] \in {201, 500}
        /\ status[r] = 201 => made[r] # 0
        /\ status[r] = 201 => payments[made[r]].CustomerID = input[r].about
        /\ status[r] \in {204, 409} =>
            Exists(r) /\ Target(r) = [CustomerID |-> input[r].who, Status |-> "canceled"]
        /\ status[r] = 404 =>
            input[r].about > known[r] \/ Target(r).CustomerID # input[r].who

(* The dashboards tell the truth: errors_total counts the requests that    *)
(* failed inside (a panic, an unknown store error), requests_total every   *)
(* request that came to an end, rejected ones included, and charged_total  *)
(* every payment but the ones being reported (obshttp.go lines 64-66).     *)
MetricsTellTheTruth ==
    LET done == {r \in Requests : place[r] = "done"} IN
    /\ \A c \in Codes :
        requests[c] = Cardinality({r \in done : status[r] = c})
    /\ errors = Cardinality({r \in done : r \in blown \/ status[r] = 500})
    /\ Len(payments) =
        charged + Cardinality({r \in Requests : place[r] = "emit"})

(* "Flush after the server drains: the final requests' spans must reach    *)
(* the collector" (main.go lines 55-56): a process that shut down without  *)
(* a forced close answered and counted every request it received, and      *)
(* exported every span.                                                    *)
GracefulExitLosesNothing ==
    server = "exited" /\ graceful =>
        \A r \in Requests : place[r] # "new" => place[r] = "done" /\ r \in exported

(* SIGTERM ends the process within the grace period, although handlers     *)
(* may hang in the store (run, main.go lines 111-118).                     *)
ShutdownCompletes ==
    []<>(server \notin {"draining", "drained", "forced", "flushed"})

(* "valid no-op span" (metrics.go line 91): ending what chargeSpan returns *)
(* leaves the request's span alone, so that every finished request has a   *)
(* span with the status code that Instrument sets (obshttp.go line 91).    *)
SpansHaveStatus ==
    \A r \in Requests : place[r] = "done" => span[r].code = Code(r)
=============================================================================
