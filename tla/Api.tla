-------------------------------- MODULE Api --------------------------------
(***************************************************************************)
(* The payments API of 12-http-networking/examples/api/main.go: handlers   *)
(* under http.TimeoutHandler and Recover, the in-memory store, and main's  *)
(* readiness flag and graceful shutdown.                                   *)
(*                                                                         *)
(* TimeoutHandler runs the handler in a goroutine of its own and buffers   *)
(* what it writes; the serving goroutine answers 503 when the deadline     *)
(* comes first, and the handler runs on.  net/http is modelled from this   *)
(* use.  Nothing bounds the time a client takes for the body of a POST:    *)
(* the handler waits for it, and net/http, which reads the rest before a   *)
(* response goes out, does too.  (Bodies of more than 256 KB, whose rest   *)
(* it does not wait for, are left out.)  Time is in units of five seconds, *)
(* kept as the time left to a deadline, met the moment it comes.           *)
(***************************************************************************)
EXTENDS Naturals, Sequences, FiniteSets

CONSTANTS
    Calls,         \* the requests, one connection each
    Carries,       \* call -> the inputs it may carry, see Carry
    StoreFaults    \* what Store.Create may do instead of succeeding

(* A POST has a body that decodeJSON refuses, one that the validation      *)
(* refuses or a good one; a GET names a payment.                           *)
Carry ==
    [route : {"healthz", "readyz"}, what : {0}]
    \cup [route : {"create"}, what : {"malformed", "invalid", "valid"}]
    \cup [route : {"get"}, what : 1 .. Cardinality(Calls)]

ApiConstants ==
    /\ IsFiniteSet(Calls)
    /\ Carries \in [Calls -> SUBSET Carry]
    /\ StoreFaults \subseteq {"error", "panic"}

VARIABLES
    conn,       \* call -> its connection, see Connections
    carry,      \* call -> what it carries
    body,       \* call -> how much of its body came, see Bodies
    handler,    \* call -> where its handler goroutine is, see Handlers
    reply,      \* call -> the code it wrote into TimeoutHandler's buffer
    answer,     \* call -> the code sent, 0 for none; lost if the connection is
    left,       \* call -> time to the deadline of what conn is at
    stored,     \* MemoryStore.byID: id -> the call that created the payment
    seq,        \* MemoryStore.seq
    ready,      \* Server.ready
    life,       \* where main is, see Lives
    grace,      \* time to the deadline of shutdownCtx
    seen        \* history: call -> seq when its GET looked; create: its id

call == <<conn, carry, body, handler, reply, answer, left, seen>>
store == <<stored, seq>>
main == <<ready, life, grace>>
vars == <<call, store, main>>

ReadHeaderTimeout == 1

(* TimeoutHandler's ten seconds. *)
HandlerTimeout == 2

(* Mutation: the grace period covers the handler's timeout only. *)
ShortGrace == 2

GracePeriod == 5

(* open: accepted, the header is not read yet; served: in ServeHTTP;       *)
(* flushing: the answer waits for the rest of the body; closed: answered,  *)
(* or dropped.                                                             *)
Connections == {"none", "open", "served", "flushing", "closed"}

(* missing: decodeJSON has to wait; enough: not for what is missing still. *)
Bodies == {"missing", "enough", "whole"}

(* run: in the handler; create, get: before the store call; written: it    *)
(* returned; panicked.                                                     *)
Handlers == {"none", "run", "create", "get", "written", "panicked"}

(* serving; unready: the flag is down; draining: in Shutdown; forced: it   *)
(* failed, before Close; exited, aborted: main returned, after a drain or  *)
(* after Close; failed: the listener did not start.                        *)
Lives == {"starting", "serving", "unready", "draining", "forced", "exited",
          "aborted", "failed"}

-----------------------------------------------------------------------------
(* NewServer(NewMemoryStore()), before ListenAndServe listens. *)
Init ==
    /\ conn = [c \in Calls |-> "none"]
    /\ carry \in {f \in [Calls -> UNION {Carries[c] : c \in Calls}] :
                    \A c \in Calls : f[c] \in Carries[c]}
    /\ body = [c \in Calls |-> IF carry[c].route = "create" THEN "missing" ELSE "whole"]
    /\ handler = [c \in Calls |-> "none"]
    /\ reply = [c \in Calls |-> 0]
    /\ answer = [c \in Calls |-> 0]
    /\ left = [c \in Calls |-> 0]
    /\ stored = <<>>
    /\ seq = 0
    /\ ready = TRUE
    /\ life = "starting"
    /\ grace = GracePeriod
    /\ seen = [c \in Calls |-> 0]

Alive == life \notin {"exited", "aborted", "failed"}
Conn(c, state) == conn' = [conn EXCEPT ![c] = state]
At(c, state) == handler' = [handler EXCEPT ![c] = state]
Due(c, time) == left' = [left EXCEPT ![c] = time]

(* The listener takes a connection, until Shutdown closes it. *)
Accept(c) ==
    /\ conn[c] = "none"
    /\ life \in {"serving", "unready"}
    /\ Conn(c, "open")
    /\ Due(c, ReadHeaderTimeout)
    /\ UNCHANGED <<carry, body, handler, reply, answer, seen, store, main>>

(* The header is read: Logging, RequestID, Recover, TimeoutHandler, which  *)
(* starts the handler.                                                     *)
Serve(c) ==
    /\ Alive /\ conn[c] = "open"
    /\ Conn(c, "served")
    /\ At(c, "run")
    /\ Due(c, HandlerTimeout)
    /\ UNCHANGED <<carry, body, reply, answer, seen, store, main>>

(* ReadHeaderTimeout. *)
HeaderLate(c) ==
    /\ conn[c] = "open" /\ left[c] = 0
    /\ Conn(c, "closed")
    /\ UNCHANGED <<carry, body, handler, reply, answer, left, seen, store, main>>

(* The client sends more of the body, if it cares to. *)
SendBody(c) ==
    /\ Alive /\ conn[c] \in {"served", "flushing"} /\ body[c] # "whole"
    /\ body' \in {[body EXCEPT ![c] = "whole"],
                  [body EXCEPT ![c] = IF @ = "missing" THEN "enough" ELSE "whole"]}
    /\ UNCHANGED <<conn, carry, handler, reply, answer, left, seen, store, main>>

(* The handler writes a response; after a timeout nobody reads it. *)
Write(c, code) ==
    /\ reply' = [reply EXCEPT ![c] = code]
    /\ At(c, "written")
    /\ UNCHANGED <<conn, carry, body, answer, left>>

Running(c, route) == Alive /\ handler[c] = "run" /\ carry[c].route = route

Health(c) ==
    /\ Running(c, "healthz")
    /\ Write(c, 200)
    /\ UNCHANGED <<seen, store, main>>

Ready(c) ==
    /\ Running(c, "readyz")
    /\ Write(c, IF ready THEN 200 ELSE 503)
    /\ UNCHANGED <<seen, store, main>>

(* decodeJSON's error: a bad body, or one that net/http took away when it  *)
(* had an answer, or that ended with the connection ...                    *)
Malformed(c) ==
    /\ Running(c, "create")
    /\ \/ body[c] # "missing" /\ carry[c].what = "malformed"
       \/ conn[c] # "served"
    /\ Write(c, 400)
    /\ UNCHANGED <<seen, store, main>>

(* ... or writeError of the ValidationError. *)
Invalid(c) ==
    /\ Running(c, "create") /\ body[c] # "missing" /\ carry[c].what = "invalid"
    /\ Write(c, 422)
    /\ UNCHANGED <<seen, store, main>>

(* The request is in order; the next step is the store's. *)
CallStore(c) ==
    /\ \/ Running(c, "create") /\ body[c] # "missing" /\ carry[c].what = "valid"
       \/ Running(c, "get")
    /\ At(c, carry[c].route)
    /\ UNCHANGED <<conn, carry, body, reply, answer, left, seen, store, main>>

(* `s.seq++` *)
NewID == seq + 1

(* MemoryStore.Create; it takes no notice of its context, so it also does  *)
(* this for a request that was answered 503.                               *)
Create(c) ==
    /\ Alive /\ handler[c] = "create"
    /\ seq' = seq + 1
    /\ stored' = [i \in (DOMAIN stored \cup {NewID}) |->
                    IF i = NewID THEN c ELSE stored[i]]
    /\ seen' = [seen EXCEPT ![c] = NewID]
    /\ Write(c, 201)
    /\ UNCHANGED main

(* A store that fails: an unknown error is a 500 ... *)
CreateFails(c) ==
    /\ Alive /\ handler[c] = "create"
    /\ "error" \in StoreFaults
    /\ Write(c, 500)
    /\ UNCHANGED <<seen, store, main>>

(* ... and a panic goes up to TimeoutHandler. *)
CreatePanics(c) ==
    /\ Alive /\ handler[c] = "create"
    /\ "panic" \in StoreFaults
    /\ At(c, "panicked")
    /\ UNCHANGED <<conn, carry, body, reply, answer, left, seen, store, main>>

(* MemoryStore.Get: the payment, or ErrNotFound. *)
Get(c) ==
    /\ Alive /\ handler[c] = "get"
    /\ seen' = [seen EXCEPT ![c] = seq]
    /\ Write(c, IF carry[c].what \in DOMAIN stored THEN 200 ELSE 404)
    /\ UNCHANGED <<store, main>>

(* TimeoutHandler has its answer, which goes out if the body is read.      *)
Respond(c, code) ==
    /\ conn[c] = "served"
    /\ answer' = [answer EXCEPT ![c] = code]
    /\ Conn(c, IF body[c] = "whole" THEN "closed" ELSE "flushing")
    /\ UNCHANGED <<carry, body, handler, reply, left, seen, store, main>>

(* The rest of the body has come, and net/http sends what it kept. *)
Flush(c) ==
    /\ conn[c] = "flushing" /\ body[c] = "whole"
    /\ Conn(c, "closed")
    /\ UNCHANGED <<carry, body, handler, reply, answer, left, seen, store, main>>

(* TimeoutHandler's select takes the finished handler: its buffer goes out ... *)
Reply(c) == handler[c] = "written" /\ Respond(c, reply[c])

(* ... or its panic, which Recover turns into a 500 as nothing was written ... *)
Recover(c) == handler[c] = "panicked" /\ Respond(c, 500)

(* Mutation: a timed-out request is reported as an unknown error. *)
TimeoutCode == 500

OverrunCode == 503

(* ... or the deadline, also when the handler is done.  The handler's      *)
(* goroutine goes on, also one that waits for the body.                    *)
Overrun(c) == left[c] = 0 /\ Respond(c, OverrunCode)

(* The client goes away, or a connection is closed on it: the request's    *)
(* context ends, and nobody gets the answer.                               *)
Lost(gone) ==
    /\ conn' = [c \in Calls |-> IF c \in gone THEN "closed" ELSE conn[c]]
    /\ answer' = [c \in Calls |-> IF c \in gone THEN 0 ELSE answer[c]]

Busy == {c \in Calls : conn[c] \in {"open", "served", "flushing"}}

Disconnect(c) ==
    /\ Alive /\ c \in Busy
    /\ Lost({c})
    /\ UNCHANGED <<carry, body, handler, reply, left, seen, store, main>>

-----------------------------------------------------------------------------
(* ListenAndServe listens, or its error ends main. *)
Listen ==
    /\ life = "starting"
    /\ life' \in {"serving", "failed"}
    /\ UNCHANGED <<call, store, ready, grace>>

(* SIGTERM: readiness goes first ... *)
Unready ==
    /\ life = "serving"
    /\ ready' = FALSE
    /\ life' = "unready"
    /\ UNCHANGED <<call, store, grace>>

(* ... then Shutdown closes the listener and waits for the connections ... *)
Shutdown ==
    /\ life = "unready"
    /\ life' = "draining"
    /\ UNCHANGED <<call, store, ready, grace>>

(* Every connection is idle or gone.  The handlers of answered requests    *)
(* may still run.                                                          *)
Quiet == Busy = {}

Drained ==
    /\ life = "draining"
    /\ Quiet
    /\ life' = "exited"
    /\ UNCHANGED <<call, store, ready, grace>>

(* ... for at most the grace period. *)
GraceOver ==
    /\ life = "draining"
    /\ grace = 0 /\ ~Quiet
    /\ life' = "forced"
    /\ UNCHANGED <<call, store, ready, grace>>

(* Close drops the connections; main returns. *)
Close ==
    /\ life = "forced"
    /\ Lost(Busy)
    /\ life' = "aborted"
    /\ UNCHANGED <<carry, body, handler, reply, left, seen, store, ready, grace>>

(* The connections with a deadline; no timer runs on the body. *)
Timed == {c \in Calls : conn[c] \in {"open", "served"}}

(* Five seconds pass, unless a deadline has come or an answer can go out. *)
Tick ==
    /\ Alive
    /\ \A c \in Timed : left[c] > 0
    /\ \A c \in Calls : conn[c] = "flushing" => body[c] # "whole"
    /\ life = "draining" => grace > 0
    /\ \/ Timed # {}
       \/ life = "draining"
    /\ left' = [c \in Calls |-> IF c \in Timed THEN left[c] - 1 ELSE left[c]]
    /\ grace' = IF life = "draining" THEN grace - 1 ELSE grace
    /\ UNCHANGED <<conn, carry, body, handler, reply, answer, seen, store, ready, life>>

Terminated == ~Alive /\ UNCHANGED vars

Handle(c) ==
    \/ Health(c) \/ Ready(c) \/ Malformed(c) \/ Invalid(c) \/ CallStore(c)
    \/ Create(c) \/ CreateFails(c) \/ CreatePanics(c) \/ Get(c)
Timers(c) == HeaderLate(c) \/ Overrun(c) \/ Flush(c)
Connection(c) ==
    \/ Accept(c) \/ Serve(c) \/ SendBody(c) \/ Timers(c)
    \/ Reply(c) \/ Recover(c) \/ Disconnect(c)
Lifecycle == Shutdown \/ Drained \/ GraceOver \/ Close

Next ==
    \/ \E c \in Calls : Handle(c) \/ Connection(c)
    \/ Listen \/ Unready \/ Lifecycle \/ Tick \/ Terminated

Spec == Init /\ [][Next]_vars

-----------------------------------------------------------------------------
Codes == {200, 201, 400, 404, 422, 500, 503}

(* Type correctness. *)
TypeOK ==
    /\ conn \in [Calls -> Connections] /\ handler \in [Calls -> Handlers]
    /\ \A c \in Calls : carry[c] \in Carries[c]
    /\ body \in [Calls -> Bodies]
    /\ reply \in [Calls -> Codes \cup {0}] /\ answer \in [Calls -> Codes \cup {0}]
    /\ left \in [Calls -> 0 .. HandlerTimeout]
    /\ seq \in 0 .. Cardinality(Calls)
    /\ DOMAIN stored = 1 .. seq /\ \A i \in 1 .. seq : stored[i] \in Calls
    /\ ready = (life \in {"starting", "serving", "failed"})
    /\ life \in Lives /\ grace \in 0 .. GracePeriod

Made(c) == {i \in DOMAIN stored : stored[i] = c}

(* Whatever the timeouts and the order of handlers and answers: 201 is the *)
(* answer of a call whose payment is stored under the id it names; any     *)
(* refusal, 500 included, is the answer of a call that stores nothing,     *)
(* then or later.  Only a 503, or no answer at all, leaves it open, as     *)
(* Create ignores the context that TimeoutHandler cancels (lines 64 and    *)
(* 285).  A 404 is about a payment that was not there when Get looked.     *)
AnswersAreTrue ==
    \A c \in Calls :
        /\ carry[c].route = "create" =>
            /\ Cardinality(Made(c)) <= 1
            /\ answer[c] = 201 => Made(c) = {seen[c]}
            /\ answer[c] \in {400, 422, 500} =>
                Made(c) = {} /\ handler[c] \in {"written", "panicked"}
        /\ carry[c].route = "get" /\ answer[c] \notin {0, 503} =>
            (answer[c] = 200) = (carry[c].what <= seen[c])

(* The timeouts fit together: a connection accepted just before Shutdown   *)
(* has its header within 5 s and the answer of TimeoutHandler 10 s later,  *)
(* before the grace period of 25 s is over.  When Close cuts connections   *)
(* off after all, each has its answer ready and only waits for the body    *)
(* that its client did not send (lines 98-106, 285, 299 and 317-329).      *)
OnlyUploadsAreCutOff ==
    life = "forced" => \A c \in Busy : conn[c] = "flushing" /\ carry[c].route = "create"

(* A shutdown does not last for ever, whatever handlers, stores and        *)
(* clients do (main.go lines 317-329).                                     *)
ShutdownEnds == []<>(life \notin {"unready", "draining", "forced"})
=============================================================================
