--------------------------- MODULE ServersProofs ---------------------------
(***************************************************************************)
(* Proofs about the two HTTP servers.                                      *)
(*                                                                         *)
(* PaymentService: however many requests of whatever kind interleave,      *)
(* whatever the store refuses and wherever a handler panics, answers are   *)
(* true, the metrics count what happened, and a graceful shutdown loses no *)
(* request and no span.                                                    *)
(*                                                                         *)
(* Api: however handlers, timeouts and clients race, an answer is true of  *)
(* the store, and Shutdown never has to cut a connection off.              *)
(***************************************************************************)
EXTENDS Servers, FiniteSetTheorems, TLAPS

Payment == [CustomerID : Customers, Status : {"charged", "canceled"}]

(* The types TypeOK leaves out. *)
Typed ==
    /\ payments \in Seq(Payment)
    /\ input \in [Requests -> Input]
    /\ made \in [Requests -> Nat]
    /\ known \in [Requests -> Nat]
    /\ blown \subseteq Requests
    /\ graceful \in BOOLEAN

(* What the places of a handler say of its request: only a create gets to  *)
(* the store's Charge, and only with a customer; only a cancel gets to its *)
(* Cancel, and only with a payment of the caller.                          *)
Routed(r) ==
    /\ place[r] \in {"decode", "charge", "emit", "respond"} => input[r].route = "create"
    /\ place[r] = "charge" => input[r].about \in Customers
    /\ place[r] \in {"find", "cancel"} => input[r].route = "cancel"
    /\ place[r] = "cancel" => Exists(r) /\ Owns(r)

(* The payment a request made is there, for the customer it named. *)
Made(r) ==
    /\ made[r] # 0 =>
        /\ place[r] \in {"emit", "respond", "return", "done"}
        /\ made[r] \in 1 .. Len(payments)
        /\ payments[made[r]].CustomerID = input[r].about
    /\ place[r] \in {"emit", "respond"} => made[r] # 0

(* The payment to cancel is the caller's, and canceled. *)
OwnCanceled(r) == Target(r) = [CustomerID |-> input[r].who, Status |-> "canceled"]

(* Cancel did not find the payment. *)
Missed(r) == input[r].about > known[r]

(* AnswersAreTrue for one request, and what keeps it true: a 404 is about  *)
(* a payment that is there or was not there when Cancel looked, a status   *)
(* is written once, a panic is answered with 500.                          *)
Answered(r) ==
    /\ status[r] = 0 <=> ~Responded(r)
    /\ made[r] # 0 /\ Responded(r) => status[r] \in {201, 500}
    /\ status[r] = 201 => made[r] # 0
    /\ status[r] \in {204, 409} => Exists(r) /\ OwnCanceled(r)
    /\ status[r] = 404 => Missed(r) \/ (Exists(r) /\ ~Owns(r))
    /\ r \in blown => status[r] = 500

RequestOK(r) ==
    /\ Routed(r) /\ Made(r) /\ Answered(r)
    /\ place[r] = "done" => span[r].state = "ended"

(* The requests that came to an end with a status code, and those between  *)
(* the store's Charge and its metric.                                      *)
DoneWith(c) == {r \in Requests : place[r] = "done" /\ status[r] = c}
Emitting == {r \in Requests : place[r] = "emit"}

(* The metrics, and the sets they count are finite.                        *)
Counted ==
    /\ \A c \in Codes : IsFiniteSet(DoneWith(c)) /\ requests[c] = Cardinality(DoneWith(c))
    /\ errors = Cardinality(DoneWith(500))
    /\ IsFiniteSet(Emitting)
    /\ Len(payments) = charged + Cardinality(Emitting)

(* Once a graceful shutdown has drained nothing is in flight, and what it  *)
(* flushed are the spans of all requests.                                  *)
Served ==
    /\ server = "forced" => ~graceful
    /\ graceful /\ server \in {"drained", "flushed", "exited"} => InFlight = {}
    /\ graceful /\ server \in {"flushed", "exited"} =>
        \A r \in Requests : place[r] = "done" => r \in exported

(* The inductive strengthening of the invariants. *)
IInv ==
    /\ TypeOK
    /\ Typed
    /\ \A r \in Requests : RequestOK(r)
    /\ Counted
    /\ Served

-----------------------------------------------------------------------------
(* Payments are added at the end, keep their customer, and are canceled    *)
(* for good.                                                               *)
Grow ==
    /\ payments' \in Seq(Payment)
    /\ Len(payments') >= Len(payments)
    /\ \A i \in 1 .. Len(payments) :
        /\ payments'[i].CustomerID = payments[i].CustomerID
        /\ payments'[i].Status \in {payments[i].Status, "canceled"}

(* A step of one handler leaves the other requests alone. *)
Only(r) ==
    \A q \in Requests \ {r} :
        /\ place'[q] = place[q] /\ status'[q] = status[q] /\ span'[q] = span[q]
        /\ made'[q] = made[q] /\ known'[q] = known[q]
        /\ q \in blown' => q \in blown

Span == [state : {"none", "recording", "ended"}, code : Codes \cup {0}]

(* The types of what a handler's step may change. *)
StepTyped ==
    /\ place' \in [Requests -> Places]
    /\ status' \in [Requests -> Codes \cup {0}]
    /\ span' \in [Requests -> Span]
    /\ made' \in [Requests -> Nat] /\ known' \in [Requests -> Nat]
    /\ blown' \subseteq Requests
    /\ requests' \in [Codes -> Nat] /\ errors' \in Nat
    /\ charged' \in Nat /\ failed' \in [Reasons -> Nat]

(* An untouched payment table grows, by nothing. *)
LEMMA GrowsByNothing == Typed /\ payments' = payments => Grow
BY DEF Typed, Grow

(* A request is told about payments that only grow. *)
LEMMA OtherKept ==
    ASSUME Typed, TypeOK, NEW q \in Requests, RequestOK(q), Grow, input' = input,
           place'[q] = place[q], status'[q] = status[q], span'[q] = span[q],
           made'[q] = made[q], known'[q] = known[q], q \in blown' => q \in blown
    PROVE  RequestOK(q)'
<1>1. /\ payments \in Seq(Payment) /\ Len(payments) \in Nat
      /\ payments' \in Seq(Payment) /\ Len(payments') \in Nat
  BY DEF Typed, Grow
<1>2. \A i \in 1 .. Len(payments) :
        /\ i \in 1 .. Len(payments')
        /\ payments[i] \in Payment /\ payments'[i] \in Payment
        /\ payments'[i].CustomerID = payments[i].CustomerID
        /\ payments'[i].Status \in {payments[i].Status, "canceled"}
  BY <1>1 DEF Grow
<1>3. Exists(q) => Exists(q)' /\ Target(q)' \in Payment /\ Target(q) \in Payment
                   /\ Target(q)'.CustomerID = Target(q).CustomerID
                   /\ Target(q)'.Status \in {Target(q).Status, "canceled"}
  BY <1>2 DEF Exists, Target
<1>4. Routed(q)'
  BY <1>3 DEF RequestOK, Routed, Owns
<1>5. Made(q)'
  BY <1>2 DEF RequestOK, Made
<1>6. Answered(q)'
  <2>1. Exists(q) /\ OwnCanceled(q) => Exists(q)' /\ OwnCanceled(q)'
    BY <1>3 DEF Payment, OwnCanceled
  <2>2. Exists(q) /\ ~Owns(q) => Exists(q)' /\ ~Owns(q)'
    BY <1>3 DEF Owns
  <2>3. (Missed(q) => Missed(q)') /\ (Responded(q)' <=> Responded(q))
    BY DEF Missed, Responded
  <2>4. /\ (status[q] = 0 <=> ~Responded(q))
        /\ (made[q] # 0 /\ Responded(q) => status[q] \in {201, 500})
        /\ (status[q] = 201 => made[q] # 0)
        /\ (status[q] \in {204, 409} => Exists(q) /\ OwnCanceled(q))
        /\ (status[q] = 404 => Missed(q) \/ (Exists(q) /\ ~Owns(q)))
        /\ (q \in blown => status[q] = 500)
    BY DEF RequestOK, Answered
  <2> QED BY <2>1, <2>2, <2>3, <2>4 DEF Answered
<1> QED BY <1>4, <1>5, <1>6 DEF RequestOK

(* A step of one handler keeps the invariant, if it does so for its own    *)
(* request and for the metrics.                                            *)
LEMMA StepKeeps ==
    ASSUME IInv, NEW r \in Requests,
           place[r] # "done", place[r] = "new" => server = "serving",
           UNCHANGED <<input, process>>, Grow, Only(r), StepTyped,
           RequestOK(r)', Counted'
    PROVE  IInv'
<1>1. TypeOK'
  <2>1. \A i \in 1 .. Len(payments') : payments'[i] \in Payment
    BY DEF Grow
  <2>2. UNCHANGED <<server, exported>>
    BY DEF process
  <2> QED BY <2>1, <2>2 DEF IInv, TypeOK, StepTyped, Span, Payment
<1>2. Typed'
  BY DEF IInv, Typed, StepTyped, Grow, process
<1>3. \A q \in Requests : RequestOK(q)'
  <2> TAKE q \in Requests
  <2>1. CASE q = r
    BY <2>1
  <2>2. CASE q # r
    BY <2>2, OtherKept DEF IInv, Only
  <2> QED BY <2>1, <2>2
<1>4. Served'
  <2>1. UNCHANGED <<server, exported, graceful>>
    BY DEF process
  <2>2. CASE server = "serving"
    BY <2>1, <2>2 DEF Served
  <2>3. CASE r \in InFlight
    BY <2>1, <2>3 DEF IInv, Served
  <2> QED BY <2>2, <2>3 DEF InFlight
<1> QED BY <1>1, <1>2, <1>3, <1>4 DEF IInv

(* The metrics stand while nobody comes to an end or to a metric. *)
LEMMA CountedKept ==
    ASSUME IInv, NEW r \in Requests, Only(r),
           place[r] \notin {"emit", "done"}, place'[r] \notin {"emit", "done"},
           Len(payments') = Len(payments), UNCHANGED <<red, charged>>
    PROVE  Counted'
<1>1. \A c \in Codes : DoneWith(c)' = DoneWith(c)
  BY DEF DoneWith, Only
<1>2. Emitting' = Emitting
  BY DEF Emitting, Only
<1>3. 500 \in Codes
  BY DEF Codes
<1> QED BY <1>1, <1>2, <1>3 DEF IInv, Counted, red

(* A handler moves on without an answer. *)
LEMMA MoveKeeps ==
    ASSUME IInv, NEW r \in Requests, NEW p \in Places, Goto(r, p),
           place[r] \in {"new", "authenticate", "mux", "decode", "find"},
           place[r] = "new" => server = "serving",
           p \in {"authenticate", "mux", "decode", "charge", "find", "cancel"},
           Routed(r)',
           known' \in [Requests -> Nat], \A q \in Requests \ {r} : known'[q] = known[q],
           span' \in [Requests -> Span], \A q \in Requests \ {r} : span'[q] = span[q],
           UNCHANGED <<payments, input, status, red, business, process, made, blown>>
    PROVE  IInv'
<1>1. /\ place' = [place EXCEPT ![r] = p] /\ place \in [Requests -> Places]
      /\ UNCHANGED <<payments, input, status, requests, errors, charged, failed, made, blown>>
  BY DEF Goto, red, business, IInv, TypeOK
<1>2. place'[r] = p /\ \A q \in Requests \ {r} : place'[q] = place[q]
  BY <1>1
<1>3. Only(r)
  BY <1>1, <1>2 DEF Only
<1>4. StepTyped
  BY <1>1 DEF StepTyped, IInv, TypeOK, Typed
<1>5. Grow
  BY GrowsByNothing DEF IInv
<1>6. RequestOK(r)'
  BY <1>1, <1>2 DEF IInv, RequestOK, Made, Answered, Responded
<1>7. Counted'
  BY <1>1, <1>2, <1>3, CountedKept DEF red
<1> QED BY <1>3, <1>4, <1>5, <1>6, <1>7, StepKeeps

(* What an answer may change besides the place and the status. *)
Frame(r) ==
    /\ Grow /\ Len(payments') = Len(payments)
    /\ known' \in [Requests -> Nat] /\ \A q \in Requests \ {r} : known'[q] = known[q]
    /\ span' \in [Requests -> Span] /\ \A q \in Requests \ {r} : span'[q] = span[q]
    /\ failed' \in [Reasons -> Nat] /\ blown' \subseteq blown \cup {r}
    /\ UNCHANGED <<input, red, charged, process, made>>

(* The code of an answer is true in the state after it. *)
Justified(r, code) ==
    /\ made[r] # 0 => code \in {201, 500}
    /\ code = 201 => made[r] # 0
    /\ code \in {204, 409} => Exists(r)' /\ OwnCanceled(r)'
    /\ code = 404 => Missed(r)' \/ (Exists(r)' /\ ~Owns(r)')
    /\ r \in blown' => code = 500

(* A handler answers: the answer is the first it writes, and it is true. *)
LEMMA AnswerKeeps ==
    ASSUME IInv, NEW r \in Requests, NEW code \in Codes, Answer(r, code),
           place[r] \in {"authenticate", "mux", "decode", "charge", "respond", "find", "cancel"},
           Frame(r), Justified(r, code)
    PROVE  IInv'
<1> USE DEF Frame
<1>1. RequestOK(r) /\ status[r] = 0 /\ code # 0
  BY DEF IInv, RequestOK, Answered, Responded, Codes
<1>2. /\ place' = [place EXCEPT ![r] = "return"] /\ place \in [Requests -> Places]
      /\ status' = [status EXCEPT ![r] = code] /\ status \in [Requests -> Codes \cup {0}]
      /\ UNCHANGED <<input, requests, errors, charged, made>>
  BY <1>1 DEF Answer, WriteHeader, Goto, red, IInv, TypeOK
<1>3. /\ place'[r] = "return" /\ status'[r] = code
      /\ \A q \in Requests \ {r} : place'[q] = place[q] /\ status'[q] = status[q]
  BY <1>2
<1>4. Only(r)
  BY <1>2, <1>3 DEF Only
<1>5. StepTyped
  BY <1>2 DEF StepTyped, IInv, TypeOK, Typed, Places
<1>6. RequestOK(r)'
  <2>1. Routed(r)'
    BY <1>3 DEF Routed
  <2>2. Made(r)'
    BY <1>1, <1>2, <1>3 DEF RequestOK, Made, Grow
  <2>3. Answered(r)'
    BY <1>1, <1>2, <1>3 DEF Answered, Responded, Justified
  <2> QED BY <1>3, <2>1, <2>2, <2>3 DEF RequestOK
<1>7. Counted'
  <2>1. place[r] \notin {"emit", "done"} /\ place'[r] \notin {"emit", "done"}
    BY <1>3
  <2>2. UNCHANGED <<red, charged>>
    OBVIOUS
  <2> QED BY <1>4, <2>1, <2>2, CountedKept
<1> QED BY <1>4, <1>5, <1>6, <1>7, StepKeeps

(* An answer that leaves the store, the spans and the histories alone. *)
LEMMA PlainAnswerKeeps ==
    ASSUME IInv, NEW r \in Requests, NEW code \in Codes, Answer(r, code),
           place[r] \in {"authenticate", "mux", "decode", "respond", "cancel"},
           failed' \in [Reasons -> Nat],
           UNCHANGED <<payments, input, span, red, charged, process, history>>,
           place[r] = "respond" => code = 201,
           place[r] # "respond" => code \notin {201, 204, 404, 409}
    PROVE  IInv'
<1>1. UNCHANGED <<payments, input, span, red, charged, process, known, made, blown>>
  BY DEF history
<1>2. known \in [Requests -> Nat] /\ span \in [Requests -> Span]
  BY DEF IInv, TypeOK, Typed, Span
<1>3. Grow
  BY <1>1, GrowsByNothing DEF IInv
<1>4. made[r] # 0 <=> place[r] = "respond"
  BY DEF IInv, RequestOK, Made
<1>5. r \notin blown
  BY DEF IInv, RequestOK, Answered, Responded
<1>6. Frame(r)
  BY <1>1, <1>2, <1>3 DEF Frame
<1>7. Justified(r, code)
  BY <1>1, <1>4, <1>5 DEF Justified
<1> QED BY <1>6, <1>7, AnswerKeeps

-----------------------------------------------------------------------------
(* No request received, nothing counted. *)
LEMMA InitIInv == Init => IInv
<1> SUFFICES ASSUME Init PROVE IInv
  OBVIOUS
<1>1. TypeOK
  BY DEF Init, TypeOK, Places, Stages
<1>2. Typed
  <2>1. \A r \in Requests : input[r] \in Input
    BY PaymentServiceConstants DEF Init
  <2>2. input \in [Requests -> Input]
    BY <2>1 DEF Init
  <2> QED BY <2>2 DEF Init, Typed
<1>3. \A r \in Requests : RequestOK(r)
  BY DEF Init, RequestOK, Routed, Made, Answered, Responded
<1>4. Counted
  <2>1. Emitting = {} /\ \A c \in Codes : DoneWith(c) = {}
    BY DEF Init, Emitting, DoneWith
  <2>2. 500 \in Codes
    BY DEF Codes
  <2>3. \A c \in Codes : IsFiniteSet(DoneWith(c)) /\ Cardinality(DoneWith(c)) = 0
    BY <2>1, FS_EmptySet
  <2>4. IsFiniteSet(Emitting) /\ Cardinality(Emitting) = 0
    BY <2>1, FS_EmptySet
  <2> QED BY <2>2, <2>3, <2>4 DEF Init, Counted
<1>5. Served
  BY DEF Init, Served
<1> QED BY <1>1, <1>2, <1>3, <1>4, <1>5 DEF IInv

(* The steps that let a request in and pass it on. *)
LEMMA MovesKeep ==
    ASSUME IInv, NEW r \in Requests,
           \/ Receive(r) \/ Authenticated(r) \/ Dispatch(r) \/ Valid(r)
           \/ FindCancelable(r)
    PROVE  IInv'
<1>1. /\ known \in [Requests -> Nat] /\ span \in [Requests -> Span]
      /\ input[r] \in Input /\ place \in [Requests -> Places]
      /\ Len(payments) \in Nat
  BY DEF IInv, TypeOK, Typed, Span
<1>2. Routed(r)
  BY DEF IInv, RequestOK
<1>3. CASE Receive(r)
  <2>1. span' \in [Requests -> Span] /\ \A q \in Requests \ {r} : span'[q] = span[q]
    BY <1>1, <1>3 DEF Receive, Span
  <2> QED BY <1>1, <1>3, <2>1, MoveKeeps DEF Receive, history, Goto, Routed, Places
<1>4. CASE Authenticated(r)
  BY <1>1, <1>4, MoveKeeps DEF Authenticated, history, Goto, Routed, Places
<1>5. CASE Dispatch(r)
  <2>1. input[r].route = "create" \/ input[r].route = "cancel"
    BY <1>1, <1>5 DEF Dispatch, Input
  <2> QED BY <1>1, <1>5, <2>1, MoveKeeps DEF Dispatch, history, Goto, Routed, Places
<1>6. CASE Valid(r)
  BY <1>1, <1>2, <1>6, MoveKeeps DEF Valid, history, Goto, Routed, Places
<1>7. CASE FindCancelable(r)
  <2>1. /\ known' \in [Requests -> Nat]
        /\ \A q \in Requests \ {r} : known'[q] = known[q]
    BY <1>1, <1>7 DEF FindCancelable, Read
  <2>2. Routed(r)'
    BY <1>1, <1>2, <1>7
       DEF FindCancelable, Read, Goto, Routed, Exists, Owns, Target
  <2> QED BY <1>1, <1>7, <2>1, <2>2, MoveKeeps DEF FindCancelable, Read, Places
<1> QED BY <1>3, <1>4, <1>5, <1>6, <1>7

(* The answers that neither look at the store nor change it. *)
LEMMA PlainAnswersKeep ==
    ASSUME IInv, NEW r \in Requests,
           \/ Unauthorized(r) \/ Health(r) \/ Forbidden(r) \/ BadRequest(r)
           \/ Invalid(r) \/ Created(r) \/ CancelFails(r)
    PROVE  IInv'
<1>1. {200, 201, 400, 401, 403, 422, 500} \subseteq Codes
  BY DEF Codes
<1>2. failed \in [Reasons -> Nat]
  BY DEF IInv, TypeOK
<1>3. CASE Invalid(r)
  <2>1. failed' \in [Reasons -> Nat]
    BY <1>2, <1>3 DEF Invalid, Failed, Reasons
  <2> QED BY <1>1, <1>3, <2>1, PlainAnswerKeeps DEF Invalid
<1>4. CASE Unauthorized(r) \/ Health(r) \/ Forbidden(r) \/ BadRequest(r)
  BY <1>1, <1>2, <1>4, PlainAnswerKeeps
     DEF Unauthorized, Health, Forbidden, BadRequest, business
<1>5. CASE Created(r) \/ CancelFails(r)
  BY <1>1, <1>2, <1>5, PlainAnswerKeeps DEF Created, CancelFails, business
<1> QED BY <1>3, <1>4, <1>5

(* The store refuses a charge. *)
LEMMA ChargeFailsKeeps ==
    ASSUME IInv, NEW r \in Requests, ChargeFails(r)
    PROVE  IInv'
<1>1. PICK code \in {422, 500} : Answer(r, code)
  BY DEF ChargeFails
<1>2. code \in Codes /\ place[r] = "charge"
  BY DEF Codes, ChargeFails
<1>3. failed' \in [Reasons -> Nat]
  <2>1. failed \in [Reasons -> Nat]
    BY DEF IInv, TypeOK
  <2> QED BY <2>1 DEF ChargeFails, Failed, Reasons
<1>4. span' \in [Requests -> Span] /\ \A q \in Requests \ {r} : span'[q] = span[q]
  BY DEF ChargeFails, ChargeSpanEnd, Span, IInv, TypeOK
<1>5. UNCHANGED <<payments, input, red, charged, process, known, made, blown>>
  BY DEF ChargeFails, history
<1>6. Grow /\ known \in [Requests -> Nat]
  BY <1>5, GrowsByNothing DEF IInv, Typed
<1>7. made[r] = 0 /\ r \notin blown
  BY <1>2 DEF IInv, RequestOK, Made, Answered, Responded
<1>8. Frame(r)
  BY <1>3, <1>4, <1>5, <1>6 DEF Frame
<1>9. Justified(r, code)
  BY <1>5, <1>7 DEF Justified
<1> QED BY <1>1, <1>2, <1>8, <1>9, AnswerKeeps

(* Cancel looks at the payment and refuses. *)
LEMMA FindRefusesKeeps ==
    ASSUME IInv, NEW r \in Requests,
           FindUnknown(r) \/ FindForbidden(r) \/ FindNotCancelable(r)
    PROVE  IInv'
<1>1. /\ place[r] = "find" /\ known' = [known EXCEPT ![r] = Len(payments)]
      /\ known \in [Requests -> Nat] /\ span \in [Requests -> Span]
      /\ payments \in Seq(Payment) /\ Len(payments) \in Nat
  BY DEF FindUnknown, FindForbidden, FindNotCancelable, Read, IInv, TypeOK, Typed, Span
<1>2. /\ known' \in [Requests -> Nat] /\ known'[r] = Len(payments)
      /\ \A q \in Requests \ {r} : known'[q] = known[q]
  BY <1>1
<1>3. UNCHANGED <<payments, input, span, red, charged, process, made, blown>>
  BY DEF FindUnknown, FindForbidden, FindNotCancelable, business
<1>4. failed' \in [Reasons -> Nat]
  <2>1. failed \in [Reasons -> Nat]
    BY DEF IInv, TypeOK
  <2> QED
    BY <2>1 DEF FindUnknown, FindForbidden, FindNotCancelable, business, Failed, Reasons
<1>5. Grow
  BY <1>3, GrowsByNothing DEF IInv
<1>6. made[r] = 0 /\ r \notin blown /\ input[r].route = "cancel" /\ input[r] \in Input
  <2>1. RequestOK(r) /\ input[r] \in Input
    BY DEF IInv, Typed
  <2>2. made[r] = 0 /\ input[r].route = "cancel"
    BY <1>1, <2>1 DEF RequestOK, Routed, Made
  <2>3. r \notin blown
    BY <1>1, <2>1 DEF RequestOK, Answered, Responded
  <2> QED BY <2>1, <2>2, <2>3
<1>7. input[r].about \in Nat \ {0}
  BY <1>6, PaymentServiceConstants DEF Input
<1>8. Exists(r)' = Exists(r) /\ Owns(r)' = Owns(r) /\ Target(r)' = Target(r)
  BY <1>3 DEF Exists, Owns, Target
<1>9. Frame(r)
  BY <1>1, <1>2, <1>3, <1>4, <1>5 DEF Frame
<1>10. CASE FindUnknown(r)
  <2>1. Missed(r)'
    BY <1>1, <1>2, <1>3, <1>7, <1>10 DEF FindUnknown, Exists, Missed
  <2>2. Justified(r, 404)
    BY <1>3, <1>6, <2>1 DEF Justified
  <2>3. Answer(r, 404) /\ 404 \in Codes
    BY <1>10 DEF FindUnknown, Codes
  <2> QED BY <1>1, <1>9, <2>2, <2>3, AnswerKeeps
<1>11. CASE FindForbidden(r)
  <2>1. Exists(r)' /\ ~Owns(r)' /\ Answer(r, 404)
    BY <1>8, <1>11 DEF FindForbidden
  <2>2. Justified(r, 404) /\ 404 \in Codes
    BY <1>3, <1>6, <2>1 DEF Justified, Codes
  <2> QED BY <1>1, <1>9, <2>1, <2>2, AnswerKeeps
<1>12. CASE FindNotCancelable(r)
  <2>1. Exists(r) /\ Owns(r) /\ Target(r).Status # "charged" /\ Answer(r, 409)
    BY <1>12 DEF FindNotCancelable
  <2>2. Target(r) \in Payment
    BY <1>1, <2>1 DEF Exists, Target
  <2>3. OwnCanceled(r)
    BY <2>1, <2>2 DEF Payment, Owns, OwnCanceled
  <2>4. Exists(r)' /\ OwnCanceled(r)'
    BY <1>3, <1>8, <2>1, <2>3 DEF OwnCanceled
  <2>5. Justified(r, 409) /\ 409 \in Codes
    BY <1>3, <1>6, <2>4 DEF Justified, Codes
  <2> QED BY <1>1, <1>9, <2>1, <2>5, AnswerKeeps
<1> QED BY <1>10, <1>11, <1>12

(* The payment is canceled, whatever its status is by now. *)
LEMMA CancelKeeps ==
    ASSUME IInv, NEW r \in Requests, Cancel(r)
    PROVE  IInv'
<1> DEFINE i == input[r].about
<1>1. /\ place[r] = "cancel" /\ Answer(r, 204)
      /\ payments' = [payments EXCEPT ![i].Status = "canceled"]
      /\ UNCHANGED <<input, span, red, charged, failed, process, known, made, blown>>
  BY DEF Cancel, Canceled, business, history
<1>2. /\ Exists(r) /\ Owns(r) /\ made[r] = 0 /\ r \notin blown
  BY <1>1 DEF IInv, RequestOK, Routed, Made, Answered, Responded
<1>3. /\ payments \in Seq(Payment) /\ i \in 1 .. Len(payments)
      /\ payments[i] \in Payment /\ payments[i].CustomerID = input[r].who
  BY <1>2 DEF IInv, Typed, Exists, Owns, Target
<1>4. /\ payments' \in Seq(Payment) /\ Len(payments') = Len(payments)
      /\ \A j \in 1 .. Len(payments) : j # i => payments'[j] = payments[j]
      /\ payments'[i] = [payments[i] EXCEPT !.Status = "canceled"]
  BY <1>1, <1>3 DEF Payment
<1>5. payments'[i] = [CustomerID |-> input[r].who, Status |-> "canceled"]
  BY <1>3, <1>4 DEF Payment
<1>6. Grow
  BY <1>3, <1>4, <1>5 DEF Grow
<1>7. Exists(r)' /\ OwnCanceled(r)'
  BY <1>1, <1>3, <1>4, <1>5 DEF Exists, Target, OwnCanceled
<1>8. /\ known \in [Requests -> Nat] /\ span \in [Requests -> Span]
      /\ failed \in [Reasons -> Nat]
  BY DEF IInv, TypeOK, Typed, Span
<1> HIDE DEF i
<1>9. Frame(r)
  BY <1>1, <1>4, <1>6, <1>8 DEF Frame
<1>10. Justified(r, 204) /\ 204 \in Codes
  BY <1>1, <1>2, <1>7 DEF Justified, Codes
<1> QED BY <1>1, <1>9, <1>10, AnswerKeeps

(* A panic before anything is written is answered with 500. *)
LEMMA PanicKeeps ==
    ASSUME IInv, NEW r \in Requests, Panic(r)
    PROVE  IInv'
<1>1. /\ place[r] \in {"mux", "decode", "respond", "find"}
      /\ Answer(r, 500) /\ 500 \in Codes
      /\ blown' = blown \cup {r}
      /\ UNCHANGED <<payments, input, span, red, charged, failed, process, known, made>>
  BY DEF Panic, Recover, business, Codes
<1>2. Grow
  BY <1>1, GrowsByNothing DEF IInv
<1>3. /\ known \in [Requests -> Nat] /\ span \in [Requests -> Span]
      /\ failed \in [Reasons -> Nat]
  BY DEF IInv, TypeOK, Typed, Span
<1>4. Frame(r)
  BY <1>1, <1>2, <1>3 DEF Frame
<1>5. Justified(r, 500)
  BY <1>1 DEF Justified
<1> QED BY <1>1, <1>4, <1>5, AnswerKeeps

(* The store charges: one payment more, and one metric due. *)
LEMMA ChargeKeeps ==
    ASSUME IInv, NEW r \in Requests, Charge(r)
    PROVE  IInv'
<1> DEFINE new == [CustomerID |-> input[r].about, Status |-> "charged"]
<1>1. /\ place[r] = "charge" /\ place' = [place EXCEPT ![r] = "emit"]
      /\ payments' = Append(payments, new)
      /\ made' = [made EXCEPT ![r] = Len(payments) + 1]
      /\ UNCHANGED <<input, status, span, requests, errors, charged, failed, process, known, blown>>
  BY DEF Charge, Goto, red, business
<1>2. /\ RequestOK(r) /\ payments \in Seq(Payment) /\ Len(payments) \in Nat
      /\ place \in [Requests -> Places] /\ made \in [Requests -> Nat]
  BY DEF IInv, TypeOK, Typed
<1>3. new \in Payment
  BY <1>1, <1>2 DEF RequestOK, Routed, Payment
<1>4. /\ place'[r] = "emit" /\ made'[r] = Len(payments) + 1
      /\ \A q \in Requests \ {r} : place'[q] = place[q] /\ made'[q] = made[q]
  BY <1>1, <1>2
<1>5. /\ payments' \in Seq(Payment) /\ Len(payments') = Len(payments) + 1
      /\ \A j \in 1 .. Len(payments) : payments'[j] = payments[j]
      /\ payments'[Len(payments) + 1] = new
  <2> HIDE DEF new
  <2> QED BY <1>1, <1>2, <1>3
<1>6. Grow
  BY <1>2, <1>5 DEF Grow
<1>7. Only(r)
  BY <1>1, <1>4 DEF Only
<1>8. StepTyped
  BY <1>1, <1>2 DEF StepTyped, IInv, TypeOK, Typed, Span, Places
<1>9. RequestOK(r)'
  <2>1. Routed(r)'
    BY <1>1, <1>2, <1>4 DEF RequestOK, Routed
  <2>2. Made(r)'
    BY <1>1, <1>2, <1>4, <1>5 DEF Made
  <2>3. Answered(r)'
    <3>1. status[r] = 0 /\ r \notin blown
      BY <1>1, <1>2 DEF RequestOK, Answered, Responded
    <3> QED BY <1>1, <1>4, <3>1 DEF Answered, Responded
  <2> QED BY <1>4, <2>1, <2>2, <2>3 DEF RequestOK
<1>10. Counted'
  <2>1. \A c \in Codes : DoneWith(c)' = DoneWith(c)
    BY <1>1, <1>4 DEF DoneWith
  <2>2. Emitting' = Emitting \cup {r} /\ r \notin Emitting
    BY <1>1, <1>4 DEF Emitting
  <2>3. 500 \in Codes
    BY DEF Codes
  <2>4. /\ IsFiniteSet(Emitting) /\ Cardinality(Emitting) \in Nat
        /\ Len(payments) = charged + Cardinality(Emitting) /\ charged \in Nat
    BY FS_CardinalityType DEF IInv, Counted, TypeOK
  <2>5. IsFiniteSet(Emitting') /\ Cardinality(Emitting') = Cardinality(Emitting) + 1
    BY <2>2, <2>4, FS_AddElement
  <2> QED BY <1>1, <1>5, <2>1, <2>3, <2>4, <2>5 DEF IInv, Counted
<1>11. UNCHANGED <<input, process>>
  BY <1>1
<1> QED BY <1>1, <1>6, <1>7, <1>8, <1>9, <1>10, <1>11, StepKeeps

(* The metric of a charge. *)
LEMMA EmitChargedKeeps ==
    ASSUME IInv, NEW r \in Requests, EmitCharged(r)
    PROVE  IInv'
<1>1. /\ place[r] = "emit" /\ place' = [place EXCEPT ![r] = "respond"]
      /\ charged' = charged + 1
      /\ UNCHANGED <<payments, input, status, requests, errors, failed, process, known, made,
                     blown>>
  BY DEF EmitCharged, Goto, red, history
<1>2. RequestOK(r) /\ place \in [Requests -> Places] /\ Len(payments) \in Nat
  BY DEF IInv, TypeOK, Typed
<1>3. place'[r] = "respond" /\ \A q \in Requests \ {r} : place'[q] = place[q]
  BY <1>1, <1>2
<1>4. span' \in [Requests -> Span] /\ \A q \in Requests \ {r} : span'[q] = span[q]
  BY DEF EmitCharged, ChargeSpanEnd, Span, IInv, TypeOK
<1>5. Grow
  BY <1>1, GrowsByNothing DEF IInv
<1>6. Only(r)
  BY <1>1, <1>3, <1>4 DEF Only
<1>7. StepTyped
  BY <1>1, <1>2, <1>4 DEF StepTyped, IInv, TypeOK, Typed, Places
<1>8. RequestOK(r)'
  BY <1>1, <1>2, <1>3 DEF RequestOK, Routed, Made, Answered, Responded
<1>9. Counted'
  <2>1. \A c \in Codes : DoneWith(c)' = DoneWith(c)
    BY <1>1, <1>3 DEF DoneWith
  <2>2. Emitting' = Emitting \ {r} /\ r \in Emitting
    BY <1>1, <1>3 DEF Emitting
  <2>3. 500 \in Codes
    BY DEF Codes
  <2>4. /\ IsFiniteSet(Emitting) /\ Cardinality(Emitting) \in Nat
        /\ Len(payments) = charged + Cardinality(Emitting) /\ charged \in Nat
    BY FS_CardinalityType DEF IInv, Counted, TypeOK
  <2>5. IsFiniteSet(Emitting') /\ Cardinality(Emitting') = Cardinality(Emitting) - 1
    BY <2>2, <2>4, FS_RemoveElement
  <2> QED BY <1>1, <2>1, <2>3, <2>4, <2>5 DEF IInv, Counted
<1>10. UNCHANGED <<input, process>>
  BY <1>1
<1> QED BY <1>1, <1>5, <1>6, <1>7, <1>8, <1>9, <1>10, StepKeeps

(* Instrument counts the request under the status it was answered with.    *)
LEMMA InstrumentKeeps ==
    ASSUME IInv, NEW r \in Requests, Instrument(r)
    PROVE  IInv'
<1>0. RequestOK(r) /\ place[r] = "return" /\ status[r] # 0 /\ status[r] \in Codes
  BY DEF IInv, TypeOK, RequestOK, Answered, Responded, Instrument
<1> PICK code \in Codes : status[r] = code
  BY <1>0
<1>1. RequestOK(r) /\ place[r] = "return" /\ status[r] = code /\ code # 0
  BY <1>0
<1>2. Code(r) = code
  BY <1>1 DEF Code
<1>3. /\ place' = [place EXCEPT ![r] = "done"] /\ place \in [Requests -> Places]
      /\ requests' = [requests EXCEPT ![code] = @ + 1] /\ requests \in [Codes -> Nat]
      /\ errors' = (IF code >= 500 THEN errors + 1 ELSE errors) /\ errors \in Nat
      /\ UNCHANGED <<payments, input, status, charged, failed, process, known, made, blown>>
  BY <1>2 DEF Instrument, Goto, business, history, IInv, TypeOK
<1>4. place'[r] = "done" /\ \A q \in Requests \ {r} : place'[q] = place[q]
  BY <1>3
<1>5. /\ span' \in [Requests -> Span] /\ span'[r].state = "ended"
      /\ \A q \in Requests \ {r} : span'[q] = span[q]
  BY <1>1, <1>2 DEF Instrument, Span, IInv, TypeOK
<1>6. Grow
  BY <1>3, GrowsByNothing DEF IInv
<1>7. Only(r)
  BY <1>3, <1>4, <1>5 DEF Only
<1>8. StepTyped
  <2>1. /\ place' \in [Requests -> Places] /\ requests' \in [Codes -> Nat]
        /\ errors' \in Nat
    BY <1>3 DEF Places
  <2> QED BY <1>3, <1>5, <2>1 DEF StepTyped, IInv, TypeOK, Typed
<1>9. RequestOK(r)'
  BY <1>1, <1>3, <1>4, <1>5
     DEF RequestOK, Routed, Made, Answered, Responded, Missed, OwnCanceled, Exists,
         Owns, Target
<1>10. Counted'
  <2>1. Emitting' = Emitting
    BY <1>1, <1>4 DEF Emitting
  <2>2. DoneWith(code)' = DoneWith(code) \cup {r} /\ r \notin DoneWith(code)
    BY <1>1, <1>3, <1>4 DEF DoneWith
  <2>3. \A c \in Codes \ {code} : DoneWith(c)' = DoneWith(c)
    BY <1>1, <1>3, <1>4 DEF DoneWith
  <2>4. \A c \in Codes : IsFiniteSet(DoneWith(c)) /\ requests[c] = Cardinality(DoneWith(c))
    BY DEF IInv, Counted
  <2>5. /\ IsFiniteSet(DoneWith(code)')
        /\ Cardinality(DoneWith(code)') = Cardinality(DoneWith(code)) + 1
    BY <1>1, <2>2, <2>4, FS_AddElement
  <2>6. /\ requests'[code] = requests[code] + 1
        /\ \A c \in Codes \ {code} : requests'[c] = requests[c]
    BY <1>1, <1>3
  <2>7. ASSUME NEW c \in Codes
        PROVE  IsFiniteSet(DoneWith(c)') /\ requests'[c] = Cardinality(DoneWith(c)')
    <3>1. CASE c = code
      BY <1>1, <2>4, <2>5, <2>6, <3>1
    <3>2. CASE c # code
      BY <2>3, <2>4, <2>6, <3>2
    <3> QED BY <3>1, <3>2
  <2>8. errors' = Cardinality(DoneWith(500)')
    <3>1. 500 \in Codes /\ (code >= 500 <=> code = 500)
      BY <1>1 DEF Codes
    <3>2. errors = Cardinality(DoneWith(500))
      BY DEF IInv, Counted
    <3>3. CASE code = 500
      BY <1>3, <2>5, <3>1, <3>2, <3>3
    <3>4. CASE code # 500
      BY <1>3, <2>3, <3>1, <3>2, <3>4
    <3> QED BY <3>3, <3>4
  <2> QED BY <1>3, <2>1, <2>7, <2>8 DEF IInv, Counted
<1>11. UNCHANGED <<input, process>>
  BY <1>3
<1> QED BY <1>1, <1>6, <1>7, <1>8, <1>9, <1>10, <1>11, StepKeeps

(* The steps of main: nothing but the server's stage, what is exported and *)
(* how the shutdown went changes.                                          *)
LEMMA ServerKeeps ==
    ASSUME IInv, UNCHANGED rest, server' \in Stages, exported' \subseteq Requests,
           graceful' \in BOOLEAN, Served'
    PROVE  IInv'
<1>1. UNCHANGED <<payments, place, input, status, span, requests, errors, charged,
                  failed, known, made, blown>>
  BY DEF rest, red, business, history
<1>2. TypeOK' /\ Typed'
  BY <1>1 DEF IInv, TypeOK, Typed
<1>3. \A r \in Requests : RequestOK(r)'
  BY <1>1
     DEF IInv, RequestOK, Routed, Made, Answered, Responded, Missed, OwnCanceled,
         Exists, Owns, Target
<1>4. Counted'
  <2>1. Emitting' = Emitting /\ \A c \in Codes : DoneWith(c)' = DoneWith(c)
    BY <1>1 DEF Emitting, DoneWith
  <2>2. 500 \in Codes
    BY DEF Codes
  <2> QED BY <1>1, <2>1, <2>2 DEF IInv, Counted
<1> QED BY <1>2, <1>3, <1>4 DEF IInv

(* No step of a request or of main leaves the inductive invariant. *)
LEMMA NextIInv == IInv /\ [Next]_vars => IInv'
<1> SUFFICES ASSUME IInv, [Next]_vars PROVE IInv'
  OBVIOUS
<1>1. ASSUME NEW r \in Requests, Receive(r) \/ Handle(r)
      PROVE  IInv'
  BY <1>1, MovesKeep, PlainAnswersKeep, ChargeFailsKeeps, FindRefusesKeeps,
     CancelKeeps, PanicKeeps, ChargeKeeps, EmitChargedKeeps, InstrumentKeeps
     DEF Handle
<1>2. Served /\ server \in Stages /\ exported \subseteq Requests /\ graceful \in BOOLEAN
  BY DEF IInv, TypeOK, Typed
<1>3. UNCHANGED rest => InFlight' = InFlight
  BY DEF rest, InFlight
<1>4. CASE Listen
  <2>1. Served'
    BY <1>4 DEF Listen, Served
  <2> QED BY <1>2, <1>4, <2>1, ServerKeeps DEF Listen, Stages
<1>5. CASE Signal
  <2>1. Served'
    BY <1>5 DEF Signal, Served
  <2> QED BY <1>2, <1>5, <2>1, ServerKeeps DEF Signal, Stages
<1>6. CASE Drained
  <2>1. Served'
    BY <1>3, <1>6 DEF Drained, Served, Idle
  <2> QED BY <1>2, <1>6, <2>1, ServerKeeps DEF Drained, Stages
<1>7. CASE ForcedClose
  <2>1. Served'
    BY <1>7 DEF ForcedClose, Served
  <2> QED BY <1>2, <1>7, <2>1, ServerKeeps DEF ForcedClose, Stages
<1>8. CASE FlushTraces
  <2>1. /\ server \in {"drained", "forced"} /\ server' = "flushed"
        /\ exported' = {r \in Requests : span[r].state = "ended"}
        /\ UNCHANGED <<rest, graceful>> /\ UNCHANGED place
    BY <1>8 DEF FlushTraces, rest
  <2>2. \A r \in Requests : place'[r] = "done" => r \in exported'
    BY <2>1 DEF IInv, RequestOK
  <2>3. graceful => InFlight' = {}
    BY <1>2, <1>3, <2>1 DEF Served
  <2>4. Served'
    BY <2>1, <2>2, <2>3 DEF Served
  <2> QED BY <1>2, <2>1, <2>4, ServerKeeps DEF Stages
<1>9. CASE Exit
  <2>1. Served'
    BY <1>2, <1>3, <1>9 DEF Exit, Served, rest
  <2> QED BY <1>2, <1>9, <2>1, ServerKeeps DEF Exit, Stages
<1>10. CASE UNCHANGED vars
  <2>1. UNCHANGED <<rest, server, exported, graceful>> /\ UNCHANGED place
    BY <1>10 DEF vars, rest, red, business, history
  <2>2. Served'
    BY <1>2, <1>3, <2>1 DEF Served
  <2> QED BY <1>2, <2>1, <2>2, ServerKeeps
<1> QED
  BY <1>1, <1>4, <1>5, <1>6, <1>7, <1>8, <1>9, <1>10
     DEF Next, Shutdown, Terminated

(* The inductive invariant holds in every reachable state. *)
LEMMA AlwaysIInv == Spec => []IInv
BY InitIInv, NextIInv, PTL DEF Spec

-----------------------------------------------------------------------------
(* Types of the store, of the handlers' state and of the metrics. *)
THEOREM TypeCorrect == Spec => []TypeOK
<1>1. IInv => TypeOK
  BY DEF IInv
<1> QED BY <1>1, AlwaysIInv, PTL

(* Whatever the interleaving, an answer tells the client the truth         *)
(* (http.go lines 149-198, service.go lines 133-150).                      *)
THEOREM AnswersStayTrue == Spec => []AnswersAreTrue
<1>1. IInv => AnswersAreTrue
  <2> SUFFICES ASSUME IInv, NEW r \in Requests, Responded(r)
               PROVE  /\ status[r] # 0
                      /\ made[r] # 0 => status[r] \in {201, 500}
                      /\ status[r] = 201 => made[r] # 0
                      /\ status[r] = 201 => payments[made[r]].CustomerID = input[r].about
                      /\ status[r] \in {204, 409} =>
                            /\ Exists(r)
                            /\ Target(r) = [CustomerID |-> input[r].who, Status |-> "canceled"]
                      /\ status[r] = 404 =>
                            \/ input[r].about > known[r]
                            \/ Target(r).CustomerID # input[r].who
    BY DEF AnswersAreTrue
  <2> QED BY DEF IInv, RequestOK, Made, Answered, Missed, OwnCanceled, Owns
<1> QED BY <1>1, AlwaysIInv, PTL

(* The dashboards tell the truth (obshttp.go lines 64-66). *)
THEOREM MetricsStayTrue == Spec => []MetricsTellTheTruth
<1>1. IInv => MetricsTellTheTruth
  <2> SUFFICES ASSUME IInv PROVE MetricsTellTheTruth
    OBVIOUS
  <2> DEFINE done == {r \in Requests : place[r] = "done"}
  <2>1. \A c \in Codes : {r \in done : status[r] = c} = DoneWith(c)
    BY DEF DoneWith
  <2>2. {r \in done : r \in blown \/ status[r] = 500} = DoneWith(500)
    BY DEF DoneWith, IInv, RequestOK, Answered
  <2>3. {r \in Requests : place[r] = "emit"} = Emitting
    BY DEF Emitting
  <2>4. /\ \A c \in Codes : requests[c] = Cardinality(DoneWith(c))
        /\ errors = Cardinality(DoneWith(500))
        /\ Len(payments) = charged + Cardinality(Emitting)
    BY DEF IInv, Counted
  <2>5. \A c \in Codes : requests[c] = Cardinality({r \in done : status[r] = c})
    BY <2>1, <2>4
  <2>6. errors = Cardinality({r \in done : r \in blown \/ status[r] = 500})
    BY <2>2, <2>4
  <2>7. Len(payments) = charged + Cardinality({r \in Requests : place[r] = "emit"})
    BY <2>3, <2>4
  <2> QED BY <2>5, <2>6, <2>7, Zenon DEF MetricsTellTheTruth
<1> QED BY <1>1, AlwaysIInv, PTL

(* "Flush after the server drains" (main.go lines 55-56). *)
THEOREM GracefulExitIsComplete == Spec => []GracefulExitLosesNothing
<1>1. IInv => GracefulExitLosesNothing
  BY DEF GracefulExitLosesNothing, IInv, Served, InFlight
<1> QED BY <1>1, AlwaysIInv, PTL
-----------------------------------------------------------------------------
(* The API of the HTTP chapter. *)
(* The payments stored are those of the calls that were told so, one each. *)
Filed ==
    \A i \in 1 .. seq : LET c == stored[i] IN
        /\ carry[c].route = "create" /\ handler[c] = "written"
        /\ reply[c] = 201 /\ seen[c] = i

(* What the handler wrote is true; the handler's place says what it is     *)
(* about, and what the client got is what the handler wrote, the 500 of    *)
(* its panic or the 503 of the deadline.                                   *)
WroteTheTruth(c) ==
    /\ carry[c].route = "create" =>
        /\ reply[c] \in {201, 400, 422, 500}
        /\ reply[c] = 201 => seen[c] \in DOMAIN stored /\ stored[seen[c]] = c
    /\ carry[c].route = "get" =>
        /\ reply[c] \in {200, 404}
        /\ reply[c] = 200 <=> carry[c].what <= seen[c]

(* What call c has come to. *)
Fine(c) ==
    /\ conn[c] \in {"none", "open"} => handler[c] = "none"
    /\ conn[c] \notin {"flushing", "closed"} => answer[c] = 0
    /\ conn[c] = "flushing" \/ body[c] # "whole" => carry[c].route = "create"
    /\ handler[c] \in {"create", "panicked"} => carry[c].route = "create"
    /\ handler[c] = "get" => carry[c].route = "get"
    /\ handler[c] = "written" => WroteTheTruth(c)
    /\ \/ answer[c] \in {0, 503}
       \/ handler[c] = "written" /\ answer[c] = reply[c]
       \/ handler[c] = "panicked" /\ answer[c] = 500

(* The deadlines of the connections come before the one of Shutdown.       *)
InTime ==
    /\ \A c \in Calls : conn[c] = "open" => left[c] <= A!ReadHeaderTimeout
    /\ life \in {"starting", "serving", "unready"} => grace = A!GracePeriod
    /\ life = "draining" => \A c \in Calls :
        /\ conn[c] = "open" => left[c] + A!HandlerTimeout < grace
        /\ conn[c] = "served" => left[c] < grace
    /\ life = "forced" => \A c \in Calls : conn[c] \notin {"open", "served"}

(* The conjuncts of TypeOK but the number of payments, and seen's type. *)
ServedTypes ==
    /\ conn \in [Calls -> A!Connections] /\ handler \in [Calls -> A!Handlers]
    /\ \A c \in Calls : carry[c] \in Carries[c]
    /\ body \in [Calls -> A!Bodies]
    /\ reply \in [Calls -> A!Codes \cup {0}] /\ answer \in [Calls -> A!Codes \cup {0}]
    /\ seen \in [Calls -> Nat]
    /\ seq \in Nat /\ DOMAIN stored = 1 .. seq /\ \A i \in 1 .. seq : stored[i] \in Calls

MainTypes ==
    /\ left \in [Calls -> 0 .. A!HandlerTimeout]
    /\ ready = (life \in {"starting", "serving", "failed"})
    /\ life \in A!Lives /\ grace \in 0 .. A!GracePeriod

(* The inductive strengthening of the invariants of Api. *)
ApiIInv == ServedTypes /\ MainTypes /\ Filed /\ (\A c \in Calls : Fine(c)) /\ InTime

-----------------------------------------------------------------------------
(* There is no more than one payment per call. *)
LEMMA StoreIsBounded == ASSUME A!ApiConstants, ApiIInv PROVE seq <= Cardinality(Calls)
<1> DEFINE f == [i \in 1 .. seq |-> stored[i]]
<1>1. seq \in Nat
  BY DEF ApiIInv, ServedTypes
<1>2. f \in Injection(1 .. seq, Calls)
  <2>1. f \in [1 .. seq -> Calls]
    BY DEF ApiIInv, ServedTypes
  <2>2. \A i, k \in 1 .. seq : f[i] = f[k] => i = k
    BY DEF ApiIInv, ServedTypes, Filed
  <2> HIDE DEF f
  <2> QED
    BY <2>1, <2>2 DEF Injection, IsInjective
<1>3. IsFiniteSet(1 .. seq) /\ Cardinality(1 .. seq) = seq
  BY <1>1, FS_Interval
<1> HIDE DEF f
<1> QED
  BY <1>2, <1>3, FS_Injection DEF A!ApiConstants, A!IsFiniteSet, IsFiniteSet

(* The types follow from the inductive invariant. *)
LEMMA ApiTypes == ASSUME A!ApiConstants, ApiIInv PROVE A!TypeOK
<1>1. seq \in 0 .. Cardinality(Calls)
  <2>1. Cardinality(Calls) \in Nat /\ seq \in Nat
    BY FS_CardinalityType
       DEF A!ApiConstants, ApiIInv, ServedTypes, A!IsFiniteSet, IsFiniteSet
  <2> QED
    BY <2>1, StoreIsBounded
<1> QED
  BY <1>1 DEF ApiIInv, ServedTypes, MainTypes, A!TypeOK, A!Cardinality, Cardinality

(* NewServer and NewMemoryStore. *)
LEMMA ApiInit == ASSUME A!ApiConstants, A!Init PROVE ApiIInv
<1>1. /\ DOMAIN stored = {} /\ seq = 0 /\ 1 .. seq = {}
  BY DEF A!Init
<1>2. ServedTypes
  BY <1>1 DEF A!Init, ServedTypes, A!Connections, A!Handlers, A!Bodies
<1>3. MainTypes
  <2>1. left \in [Calls -> 0 .. A!HandlerTimeout] /\ grace \in 0 .. A!GracePeriod
    BY DEF A!Init, A!HandlerTimeout, A!GracePeriod
  <2>2. ready = (life \in {"starting", "serving", "failed"}) /\ life \in A!Lives
    BY DEF A!Init, A!Lives
  <2> QED
    BY <2>1, <2>2 DEF MainTypes
<1> QED
  BY <1>1, <1>2, <1>3 DEF A!Init, ApiIInv, Filed, Fine, InTime

-----------------------------------------------------------------------------
(* A step of call c leaves the others' alone, and adds payments at most.   *)
Apart(c) ==
    /\ carry' = carry
    /\ seq' \in Nat /\ seq <= seq' /\ DOMAIN stored' = 1 .. seq'
    /\ \A i \in 1 .. seq : stored'[i] = stored[i]
    /\ \A d \in Calls \ {c} :
        /\ conn'[d] = conn[d] /\ handler'[d] = handler[d] /\ reply'[d] = reply[d]
        /\ answer'[d] = answer[d] /\ seen'[d] = seen[d] /\ body'[d] = body[d]

(* A payment another call creates changes nothing about call d. *)
LEMMA OthersStayFine ==
  ASSUME ApiIInv, NEW c \in Calls, Apart(c), NEW d \in Calls, d # c
  PROVE  Fine(d)'
<1>1. Fine(d)
  BY DEF ApiIInv
<1>2. handler[d] = "written" => WroteTheTruth(d)'
  <2>1. \A i \in DOMAIN stored : i \in DOMAIN stored' /\ stored'[i] = stored[i]
    BY DEF ApiIInv, ServedTypes, Apart
  <2> QED
    BY <1>1, <2>1 DEF Fine, WroteTheTruth, Apart
<1> QED
  BY <1>1, <1>2 DEF Fine, Apart

(* A handler's step that stores nothing.                                   *)
Moves(c, station, code, n) ==
    /\ handler[c] \in {"run", "create", "get"}
    /\ handler' = [handler EXCEPT ![c] = station]
    /\ reply' = [reply EXCEPT ![c] = code]
    /\ seen' = [seen EXCEPT ![c] = n]
    /\ UNCHANGED <<conn, carry, body, answer, left, A!store, A!main>>

(* Such a step keeps the invariant if what it writes is true. *)
LEMMA HandlerStep ==
  ASSUME A!ApiConstants, ApiIInv, NEW c \in Calls,
         NEW station \in A!Handlers, NEW code \in A!Codes \cup {0}, NEW n \in Nat,
         Moves(c, station, code, n), station # "none",
         station \in {"create", "panicked"} => carry[c].route = "create",
         station = "get" => carry[c].route = "get",
         station = "written" => WroteTheTruth(c)'
  PROVE  ApiIInv'
<1> USE DEF ApiIInv, Moves
<1>1. ServedTypes'
  BY DEF ServedTypes, A!store
<1>2. MainTypes' /\ InTime'
  BY DEF MainTypes, InTime, A!main
<1>3. Filed'
  <2> SUFFICES ASSUME NEW i \in 1 .. seq, NEW d, d = stored[i]
               PROVE  /\ carry[d].route = "create" /\ handler'[d] = "written"
                      /\ reply'[d] = 201 /\ seen'[d] = i
    BY DEF Filed, A!store
  <2>1. stored[i] \in Calls /\ ServedTypes /\ Filed
    BY DEF ServedTypes
  <2>2. /\ d \in Calls /\ carry[d].route = "create" /\ handler[d] = "written"
        /\ reply[d] = 201 /\ seen[d] = i
    BY <2>1 DEF Filed
  <2>3. d # c
    BY <2>2
  <2> QED
    BY <2>1, <2>2, <2>3 DEF ServedTypes
<1>4. Apart(c)
  BY DEF Apart, ServedTypes, A!store
<1>5. Fine(c)'
  <2>1. Fine(c) /\ handler'[c] = station
    BY DEF ServedTypes
  <2> QED
    BY <2>1 DEF Fine
<1> QED
  BY <1>1, <1>2, <1>3, <1>4, <1>5, OthersStayFine

(* The handlers and their store calls. *)
LEMMA HandleKeeps ==
  ASSUME A!ApiConstants, ApiIInv, NEW c \in Calls, A!Handle(c)
  PROVE  ApiIInv'
<1>0. /\ seq \in Nat /\ seen[c] \in Nat
      /\ handler[c] \in A!Handlers /\ reply[c] \in A!Codes \cup {0}
      /\ seen = [seen EXCEPT ![c] = seen[c]] /\ reply = [reply EXCEPT ![c] = reply[c]]
      /\ {200, 201, 400, 404, 422, 500, 503} \subseteq A!Codes \cup {0}
      /\ {"written", "create", "get", "panicked"} \subseteq A!Handlers
  BY DEF ApiIInv, ServedTypes, A!Codes, A!Handlers
<1>1. CASE A!Health(c) \/ A!Ready(c)
  <2>1. PICK code \in {200, 503} : A!Write(c, code)
    BY <1>1 DEF A!Health, A!Ready
  <2>2. carry'[c].route \notin {"create", "get"}
    BY <1>1 DEF A!Health, A!Ready, A!Running, A!Write
  <2>3. WroteTheTruth(c)'
    BY <2>2 DEF WroteTheTruth
  <2>4. /\ handler' = [handler EXCEPT ![c] = "written"]
        /\ reply' = [reply EXCEPT ![c] = code]
        /\ UNCHANGED <<conn, carry, body, answer, left, seen, A!store, A!main>>
        /\ handler[c] = "run"
    BY <1>1, <2>1 DEF A!Health, A!Ready, A!Running, A!Write, A!At
  <2> QED
    <3>1. Moves(c, "written", code, seen[c])
      BY <1>0, <2>4 DEF Moves
    <3> QED
      BY <1>0, <2>3, <3>1, HandlerStep
<1>2. CASE A!Malformed(c) \/ A!Invalid(c) \/ A!CreateFails(c)
  <2>1. PICK code \in {400, 422, 500} : A!Write(c, code)
    BY <1>2 DEF A!Malformed, A!Invalid, A!CreateFails
  <2>2. /\ handler' = [handler EXCEPT ![c] = "written"]
        /\ reply' = [reply EXCEPT ![c] = code]
        /\ UNCHANGED <<conn, carry, body, answer, left, seen, A!store, A!main>>
        /\ handler[c] \in {"run", "create"}
        /\ carry[c].route = "create"
    BY <1>2, <2>1 DEF A!Malformed, A!Invalid, A!CreateFails, A!Running, A!Write, A!At,
       ApiIInv, Fine
  <2>3. WroteTheTruth(c)'
    BY <2>2 DEF WroteTheTruth, ApiIInv, ServedTypes
  <2> QED
    <3>1. Moves(c, "written", code, seen[c])
      BY <1>0, <2>2 DEF Moves
    <3> QED
      BY <1>0, <2>3, <3>1, HandlerStep
<1>3. CASE A!CallStore(c) \/ A!CreatePanics(c)
  <2>1. PICK station \in {"create", "get", "panicked"} :
            /\ handler' = [handler EXCEPT ![c] = station]
            /\ station \in {"create", "panicked"} => carry[c].route = "create"
            /\ station = "get" => carry[c].route = "get"
    BY <1>3 DEF A!CallStore, A!CreatePanics, A!Running, A!At, ApiIInv, Fine
  <2>2. /\ UNCHANGED <<conn, carry, body, reply, answer, left, seen, A!store, A!main>>
        /\ handler[c] \in {"run", "create", "get"}
    BY <1>3 DEF A!CallStore, A!CreatePanics, A!Running
  <2> QED
    <3>1. Moves(c, station, reply[c], seen[c])
      BY <1>0, <2>1, <2>2 DEF Moves
    <3>2. station \in A!Handlers /\ station # "none" /\ station # "written"
      BY DEF A!Handlers
    <3>3. reply[c] \in A!Codes \cup {0} /\ seen[c] \in Nat
      BY <1>0
    <3> QED
      BY <2>1, <3>1, <3>2, <3>3, HandlerStep
<1>4. CASE A!Get(c)
  <2>1. PICK code \in {200, 404} :
            A!Write(c, code) /\ (code = 200 <=> carry[c].what \in DOMAIN stored)
    BY <1>4 DEF A!Get
  <2>2. /\ handler' = [handler EXCEPT ![c] = "written"]
        /\ reply' = [reply EXCEPT ![c] = code]
        /\ seen' = [seen EXCEPT ![c] = seq]
        /\ UNCHANGED <<conn, carry, body, answer, left, A!store, A!main>>
        /\ handler[c] = "get" /\ carry[c].route = "get"
    BY <1>4, <2>1 DEF A!Get, A!Write, A!At, ApiIInv, Fine
  <2>3. carry[c].what \in Nat \ {0}
    <3>1. carry[c] \in A!Carry
      BY DEF ApiIInv, ServedTypes, A!ApiConstants
    <3> QED
      BY <2>2, <3>1 DEF A!Carry
  <2>4. WroteTheTruth(c)'
    BY <1>0, <2>1, <2>2, <2>3 DEF WroteTheTruth, ApiIInv, ServedTypes
  <2> QED
    <3>1. Moves(c, "written", code, seq)
      BY <2>2 DEF Moves
    <3> QED
      BY <1>0, <2>4, <3>1, HandlerStep
<1>5. CASE A!Create(c)
  <2>1. /\ handler' = [handler EXCEPT ![c] = "written"]
        /\ reply' = [reply EXCEPT ![c] = 201]
        /\ seen' = [seen EXCEPT ![c] = seq + 1]
        /\ seq' = seq + 1
        /\ UNCHANGED <<conn, carry, body, answer, left, A!main>>
        /\ handler[c] = "create" /\ carry[c].route = "create"
    BY <1>5 DEF A!Create, A!Write, A!At, ApiIInv, Fine, A!NewID
  <2>2. /\ DOMAIN stored' = 1 .. seq + 1
        /\ stored'[seq + 1] = c
        /\ \A i \in 1 .. seq : stored'[i] = stored[i]
    <3>1. stored' = [i \in (DOMAIN stored \cup {seq + 1}) |-> IF i = seq + 1 THEN c ELSE stored[i]]
      BY <1>5 DEF A!Create, A!NewID
    <3>2. (DOMAIN stored) \cup {seq + 1} = 1 .. seq + 1
      BY <1>0 DEF ApiIInv, ServedTypes
    <3> QED
      BY <1>0, <3>1, <3>2 DEF ApiIInv, ServedTypes
  <2>3. ServedTypes'
    <3>1. \A i \in 1 .. seq + 1 : stored'[i] \in Calls
      <4>1. \A i \in 1 .. seq + 1 : i \in 1 .. seq \/ i = seq + 1
        BY <1>0
      <4> QED
        BY <2>2, <4>1 DEF ApiIInv, ServedTypes
    <3>2. /\ handler' \in [Calls -> A!Handlers] /\ reply' \in [Calls -> A!Codes \cup {0}]
          /\ seen' \in [Calls -> Nat] /\ seq' \in Nat
      BY <1>0, <2>1 DEF ApiIInv, ServedTypes
    <3> QED
      BY <2>1, <2>2, <3>1, <3>2 DEF ApiIInv, ServedTypes
  <2>4. MainTypes' /\ InTime'
    BY <2>1 DEF ApiIInv, MainTypes, InTime, A!main
  <2>5. Filed'
    <3> SUFFICES ASSUME NEW i \in 1 .. seq + 1
                 PROVE  /\ carry'[stored'[i]].route = "create" /\ handler'[stored'[i]] = "written"
                        /\ reply'[stored'[i]] = 201 /\ seen'[stored'[i]] = i
      BY <2>1 DEF Filed
    <3>1. CASE i = seq + 1
      BY <2>1, <2>2, <3>1 DEF ApiIInv, ServedTypes
    <3>2. CASE i \in 1 .. seq
      <4> DEFINE d == stored[i]
      <4>1. /\ d \in Calls /\ carry[d].route = "create" /\ handler[d] = "written"
            /\ reply[d] = 201 /\ seen[d] = i
        BY <3>2 DEF ApiIInv, ServedTypes, Filed
      <4>2. stored'[i] = d /\ d # c
        BY <2>1, <2>2, <3>2, <4>1
      <4> HIDE DEF d
      <4>3. /\ carry'[d] = carry[d] /\ handler'[d] = handler[d]
            /\ reply'[d] = reply[d] /\ seen'[d] = seen[d]
        BY <2>1, <4>1, <4>2 DEF ApiIInv, ServedTypes
      <4> QED
        BY <4>1, <4>2, <4>3
    <3> QED
      BY <1>0, <3>1, <3>2
  <2>6. Apart(c)
    BY <1>0, <2>1, <2>2 DEF ApiIInv, Apart, ServedTypes
  <2>7. Fine(c)'
    <3>1. WroteTheTruth(c)'
      BY <1>0, <2>1, <2>2 DEF WroteTheTruth, ApiIInv, ServedTypes
    <3>2. Fine(c) /\ handler'[c] = "written"
      BY <2>1 DEF ApiIInv, ServedTypes
    <3> QED
      BY <2>1, <3>1, <3>2 DEF Fine
  <2> QED
    BY <2>3, <2>4, <2>5, <2>6, <2>7, OthersStayFine DEF ApiIInv
<1> QED
  BY <1>1, <1>2, <1>3, <1>4, <1>5 DEF A!Handle
-----------------------------------------------------------------------------
(* A connection's step and the answer it sends.                            *)
Connects(c, state, code, time) ==
    /\ conn' = [conn EXCEPT ![c] = state]
    /\ answer' = [answer EXCEPT ![c] = code]
    /\ left' = [left EXCEPT ![c] = time]
    /\ UNCHANGED <<carry, body, reply, seen, A!store, A!main>>

(* Such a step keeps the invariant if the answer is what the handler wrote *)
(* and the new deadline comes before Shutdown's.                           *)
LEMMA ConnectionStep ==
  ASSUME A!ApiConstants, ApiIInv, NEW c \in Calls, NEW state \in A!Connections,
         NEW code \in A!Codes \cup {0}, NEW time \in 0 .. A!HandlerTimeout,
         Connects(c, state, code, time),
         \/ handler' = handler
         \/ conn[c] = "open" /\ state = "served" /\ handler' = [handler EXCEPT ![c] = "run"],
         state \notin {"flushing", "closed"} => code = 0,
         state = "flushing" => carry[c].route = "create",
         state \in {"none", "open"} => handler[c] = "none" /\ handler' = handler,
         \/ code \in {0, 503}
         \/ handler[c] = "written" /\ code = reply[c] /\ handler' = handler
         \/ handler[c] = "panicked" /\ code = 500 /\ handler' = handler,
         state = "open" => time <= A!ReadHeaderTimeout /\ life \notin {"draining", "forced"},
         state = "served" => life # "forced" /\ (life = "draining" => time < grace)
  PROVE  ApiIInv'
<1> USE DEF Connects
<1>0. ServedTypes /\ MainTypes /\ Filed /\ InTime /\ Fine(c)
  BY DEF ApiIInv
<1>1. ServedTypes'
  BY <1>0 DEF ServedTypes, A!store, A!Handlers
<1>2. MainTypes'
  BY <1>0 DEF MainTypes, A!main
<1>3. InTime'
  <2>1. ASSUME NEW d \in Calls
        PROVE  \/ d # c /\ conn'[d] = conn[d] /\ left'[d] = left[d]
               \/ d = c /\ conn'[d] = state /\ left'[d] = time
    BY <1>0 DEF ServedTypes, MainTypes
  <2> QED
    BY <1>0, <2>1 DEF InTime, A!main
<1>4. \A d \in Calls : handler[d] \in {"written", "panicked"} => handler'[d] = handler[d]
  BY <1>0 DEF Fine, ServedTypes
<1>5. Filed'
  <2> SUFFICES ASSUME NEW i \in 1 .. seq, NEW d, d = stored[i]
               PROVE  /\ carry[d].route = "create" /\ handler'[d] = "written"
                      /\ reply[d] = 201 /\ seen[d] = i
    BY DEF Filed, A!store
  <2>1. d \in Calls
    BY <1>0 DEF ServedTypes
  <2>2. carry[d].route = "create" /\ handler[d] = "written" /\ reply[d] = 201 /\ seen[d] = i
    BY <1>0 DEF Filed
  <2> QED
    BY <1>4, <2>1, <2>2
<1>6. Apart(c)
  BY <1>0 DEF Apart, ServedTypes, A!store
<1>7. Fine(c)'
  <2>1. handler[c] = "written" => WroteTheTruth(c)'
    BY <1>0 DEF Fine, WroteTheTruth, A!store
  <2>2. conn'[c] = state /\ answer'[c] = code
    BY <1>0 DEF ServedTypes
  <2>3. CASE handler' = handler
    BY <1>0, <2>1, <2>2, <2>3 DEF Fine
  <2>4. CASE conn[c] = "open" /\ state = "served" /\ handler' = [handler EXCEPT ![c] = "run"]
    <3>1. handler[c] = "none" /\ handler'[c] = "run"
      BY <1>0, <2>4 DEF Fine, ServedTypes
    <3> QED
      BY <1>0, <2>2, <2>4, <3>1 DEF Fine
  <2> QED
    BY <2>3, <2>4
<1> QED
  BY <1>1, <1>2, <1>3, <1>5, <1>6, <1>7, OthersStayFine DEF ApiIInv

(* The serving goroutine, its timers and the client. *)
LEMMA ConnectionKeeps ==
  ASSUME A!ApiConstants, ApiIInv, NEW c \in Calls, A!Connection(c)
  PROVE  ApiIInv'
<1>0. /\ ServedTypes /\ MainTypes /\ InTime /\ Fine(c)
      /\ left[c] \in 0 .. A!HandlerTimeout
      /\ answer[c] \in A!Codes \cup {0} /\ reply[c] \in A!Codes \cup {0}
      /\ left = [left EXCEPT ![c] = left[c]] /\ answer = [answer EXCEPT ![c] = answer[c]]
      /\ {"open", "served", "flushing", "closed"} \subseteq A!Connections /\ {500, 503} \subseteq A!Codes
      /\ {A!ReadHeaderTimeout, A!HandlerTimeout} \subseteq 0 .. A!HandlerTimeout
  <2>1. ServedTypes /\ MainTypes /\ InTime /\ Fine(c)
    BY DEF ApiIInv
  <2>2. /\ left[c] \in 0 .. A!HandlerTimeout
        /\ left = [left EXCEPT ![c] = left[c]]
    BY <2>1 DEF MainTypes
  <2>3. /\ answer[c] \in A!Codes \cup {0} /\ reply[c] \in A!Codes \cup {0}
        /\ answer = [answer EXCEPT ![c] = answer[c]]
    BY <2>1 DEF ServedTypes
  <2>4. {A!ReadHeaderTimeout, A!HandlerTimeout} \subseteq 0 .. A!HandlerTimeout
    BY DEF A!ReadHeaderTimeout, A!HandlerTimeout
  <2> QED
    BY <2>1, <2>2, <2>3, <2>4 DEF A!Connections, A!Codes
<1>1. CASE A!Accept(c)
  <2>1. /\ answer[c] = 0 /\ handler[c] = "none" /\ handler' = handler
        /\ life \in {"serving", "unready"}
    BY <1>0, <1>1 DEF A!Accept, Fine
  <2>2. Connects(c, "open", answer[c], A!ReadHeaderTimeout)
    BY <1>0, <1>1 DEF A!Accept, Connects, A!Conn, A!Due
  <2> QED
    BY <1>0, <2>1, <2>2, ConnectionStep DEF A!ReadHeaderTimeout
<1>2. CASE A!Serve(c)
  <2>1. /\ answer[c] = 0 /\ conn[c] = "open" /\ handler' = [handler EXCEPT ![c] = "run"]
        /\ life # "forced" /\ (life = "draining" => A!HandlerTimeout < grace)
    BY <1>0, <1>2 DEF A!Serve, Fine, A!At, InTime, MainTypes, A!HandlerTimeout, A!GracePeriod
  <2>2. Connects(c, "served", 0, A!HandlerTimeout)
    BY <1>0, <1>2, <2>1 DEF A!Serve, Connects, A!Conn, A!Due
  <2>3. /\ "served" \in A!Connections /\ 0 \in A!Codes \cup {0}
        /\ A!HandlerTimeout \in 0 .. A!HandlerTimeout
    BY <1>0 DEF A!HandlerTimeout
  <2> QED
    BY <2>1, <2>2, <2>3, ConnectionStep
<1>3. CASE A!HeaderLate(c)
  <2>1. answer[c] = 0 /\ handler' = handler
    BY <1>0, <1>3 DEF A!HeaderLate, Fine
  <2>2. Connects(c, "closed", answer[c], left[c])
    BY <1>0, <1>3 DEF A!HeaderLate, Connects, A!Conn
  <2> QED
    BY <1>0, <2>1, <2>2, ConnectionStep
<1>4. CASE A!Overrun(c) \/ A!Reply(c) \/ A!Recover(c)
  <2>1. PICK code \in A!Codes \cup {0} :
          /\ A!Respond(c, code)
          /\ \/ code = 503
             \/ handler[c] = "written" /\ code = reply[c]
             \/ handler[c] = "panicked" /\ code = 500
    BY <1>0, <1>4 DEF A!Overrun, A!Reply, A!Recover, A!OverrunCode
  <2>2. handler' = handler
    BY <2>1 DEF A!Respond
  <2>3. PICK state \in {"flushing", "closed"} :
          /\ Connects(c, state, code, left[c])
          /\ state = "flushing" => carry[c].route = "create"
    BY <1>0, <2>1 DEF A!Respond, Connects, A!Conn, Fine
  <2> QED
    BY <1>0, <2>1, <2>2, <2>3, ConnectionStep
<1>5. CASE A!Flush(c)
  <2>1. /\ handler' = handler
        /\ \/ answer[c] \in {0, 503}
           \/ handler[c] = "written" /\ answer[c] = reply[c]
           \/ handler[c] = "panicked" /\ answer[c] = 500
    BY <1>0, <1>5 DEF A!Flush, Fine
  <2>2. Connects(c, "closed", answer[c], left[c])
    BY <1>0, <1>5 DEF A!Flush, Connects, A!Conn
  <2> QED
    BY <1>0, <2>1, <2>2, ConnectionStep
<1>6. CASE A!Disconnect(c)
  <2>1. /\ handler' = handler /\ UNCHANGED <<carry, body, reply, left, seen, A!store, A!main>>
        /\ conn' = [d \in Calls |-> IF d \in {c} THEN "closed" ELSE conn[d]]
        /\ answer' = [d \in Calls |-> IF d \in {c} THEN 0 ELSE answer[d]]
    BY <1>6 DEF A!Disconnect, A!Lost
  <2>2. /\ conn' = [conn EXCEPT ![c] = "closed"]
        /\ answer' = [answer EXCEPT ![c] = 0]
    BY <1>0, <2>1 DEF ServedTypes
  <2>3. Connects(c, "closed", 0, left[c])
    BY <1>0, <2>1, <2>2 DEF Connects
  <2> QED
    BY <1>0, <2>1, <2>3, ConnectionStep
<1>7. CASE A!SendBody(c)
  <2>1. /\ UNCHANGED <<conn, carry, handler, reply, answer, left, seen, A!store, A!main>>
        /\ body[c] # "whole"
        /\ \E b \in A!Bodies : body' = [body EXCEPT ![c] = b]
    BY <1>0, <1>7 DEF A!SendBody, A!Bodies, ServedTypes
  <2>2. ServedTypes' /\ MainTypes' /\ Filed' /\ InTime'
    BY <1>0, <2>1 DEF ApiIInv, ServedTypes, MainTypes, Filed, InTime, A!store, A!main
  <2>3. Apart(c)
    BY <1>0, <2>1 DEF Apart, ServedTypes, A!store
  <2>4. Fine(c)'
    BY <1>0, <2>1 DEF Fine, WroteTheTruth, A!store
  <2> QED
    BY <2>2, <2>3, <2>4, OthersStayFine DEF ApiIInv
<1> QED
  BY <1>1, <1>2, <1>3, <1>4, <1>5, <1>6, <1>7 DEF A!Connection, A!Timers

-----------------------------------------------------------------------------
(* main and the clock: when the grace period ends, no connection is left   *)
(* but those that wait for a body with their answers ready.                *)
LEMMA MainKeeps ==
  ASSUME A!ApiConstants, ApiIInv, A!Listen \/ A!Unready \/ A!Lifecycle \/ A!Tick \/ UNCHANGED A!vars
  PROVE  ApiIInv'
<1>0. ServedTypes /\ MainTypes /\ Filed /\ InTime /\ \A c \in Calls : Fine(c)
  BY DEF ApiIInv
<1>1. CASE A!Close
  <2>1. /\ conn' = [c \in Calls |-> IF c \in A!Busy THEN "closed" ELSE conn[c]]
        /\ answer' = [c \in Calls |-> IF c \in A!Busy THEN 0 ELSE answer[c]]
        /\ life = "forced" /\ life' = "aborted"
        /\ UNCHANGED <<carry, body, handler, reply, left, seen, A!store, ready, grace>>
    BY <1>1 DEF A!Close, A!Lost
  <2>2. ServedTypes' /\ Filed'
    BY <1>0, <2>1 DEF ServedTypes, Filed, A!store, A!Connections
  <2>3. MainTypes' /\ InTime'
    BY <1>0, <2>1 DEF MainTypes, InTime, A!Lives, A!Busy
  <2>4. ASSUME NEW c \in Calls PROVE Fine(c)'
    <3>1. \/ conn'[c] = "closed" /\ answer'[c] = 0
          \/ conn'[c] = conn[c] /\ answer'[c] = answer[c]
      BY <2>1
    <3>2. Fine(c) /\ (handler[c] = "written" => WroteTheTruth(c)')
      BY <1>0, <2>1 DEF Fine, WroteTheTruth, A!store
    <3> QED
      BY <2>1, <3>1, <3>2 DEF Fine
  <2> QED
    BY <2>2, <2>3, <2>4 DEF ApiIInv
<1>2. ASSUME UNCHANGED <<conn, carry, body, handler, reply, answer, seen, A!store>>
      PROVE  ServedTypes' /\ Filed' /\ \A c \in Calls : Fine(c)'
  <2>1. ServedTypes'
    BY <1>0, <1>2 DEF ServedTypes, A!store
  <2>2. Filed'
    BY <1>0, <1>2 DEF Filed, A!store
  <2>3. ASSUME NEW c \in Calls PROVE Fine(c)'
    BY <1>0, <1>2 DEF Fine, WroteTheTruth, A!store
  <2> QED
    BY <2>1, <2>2, <2>3
<1>5. CASE A!Listen \/ A!Unready \/ A!Shutdown \/ A!Drained \/ A!GraceOver
  <2>0. UNCHANGED <<conn, carry, body, handler, reply, answer, seen, A!store>>
    BY <1>5 DEF A!Listen, A!Unready, A!Shutdown, A!Drained, A!GraceOver, A!call
  <2>1. UNCHANGED <<conn, left, grace>>
    BY <1>5 DEF A!Listen, A!Unready, A!Shutdown, A!Drained, A!GraceOver, A!call
  <2>2. MainTypes'
    <3>1. CASE A!Listen
      BY <1>0, <2>1, <3>1 DEF MainTypes, A!Lives, A!Listen
    <3>2. CASE A!Unready
      <4>1. ready' = FALSE /\ life' = "unready"
        BY <3>2 DEF A!Unready
      <4>2. (life' \in {"starting", "serving", "failed"}) = FALSE
        BY <4>1
      <4>3. life' \in A!Lives /\ left' = left /\ grace' = grace
        BY <2>1, <4>1 DEF A!Lives
      <4>4. ready' = (life' \in {"starting", "serving", "failed"})
        BY <4>1, <4>2, Zenon
      <4> QED
        BY <1>0, <4>3, <4>4 DEF MainTypes
    <3>3. CASE A!Shutdown \/ A!Drained \/ A!GraceOver
      <4>1. /\ ready' = ready /\ life' \in {"draining", "exited", "forced"}
            /\ life \in {"unready", "draining"}
        BY <3>3 DEF A!Shutdown, A!Drained, A!GraceOver
      <4> QED
        BY <1>0, <2>1, <4>1 DEF MainTypes, A!Lives
    <3> QED
      BY <1>5, <3>1, <3>2, <3>3
  <2>3. InTime'
    <3>1. CASE A!GraceOver
      <4>1. life = "draining" /\ life' = "forced" /\ grace = 0
        BY <3>1 DEF A!GraceOver
      <4> QED
        BY <1>0, <2>1, <4>1 DEF InTime, MainTypes, A!HandlerTimeout
    <3>2. CASE A!Listen \/ A!Unready \/ A!Shutdown \/ A!Drained
      BY <1>0, <2>1, <3>2 DEF InTime, MainTypes, A!Listen, A!Unready, A!Shutdown, A!Drained,
         A!ReadHeaderTimeout, A!HandlerTimeout, A!GracePeriod
    <3> QED
      BY <1>5, <3>1, <3>2
  <2> QED
    BY <1>2, <2>0, <2>2, <2>3 DEF ApiIInv
<1>6. CASE A!Tick
  <2>1. /\ left' = [c \in Calls |-> IF c \in A!Timed THEN left[c] - 1 ELSE left[c]]
        /\ grace' = IF life = "draining" THEN grace - 1 ELSE grace
        /\ \A c \in A!Timed : left[c] > 0
        /\ life = "draining" => grace > 0
        /\ UNCHANGED <<conn, ready, life>>
    BY <1>6 DEF A!Tick
  <2>2. \A c \in Calls : left[c] \in 0 .. A!HandlerTimeout
    BY <1>0 DEF MainTypes
  <2>3. ASSUME NEW c \in Calls
        PROVE  /\ left'[c] \in 0 .. A!HandlerTimeout
               /\ c \in A!Timed => left'[c] = left[c] - 1
    BY <2>1, <2>2 DEF A!HandlerTimeout
  <2>4. MainTypes'
    BY <1>0, <2>1, <2>3 DEF MainTypes, A!GracePeriod
  <2>5. InTime'
    BY <1>0, <2>1, <2>2, <2>3
       DEF InTime, MainTypes, A!Timed, A!ReadHeaderTimeout, A!HandlerTimeout
  <2>6. ServedTypes' /\ Filed' /\ \A c \in Calls : Fine(c)'
    <3>1. UNCHANGED <<conn, carry, body, handler, reply, answer, seen, A!store>>
      BY <1>6 DEF A!Tick
    <3> QED
      BY <1>2, <3>1
  <2> QED
    BY <2>4, <2>5, <2>6 DEF ApiIInv
<1>7. CASE UNCHANGED A!vars
  <2>1. UNCHANGED <<conn, carry, body, handler, reply, answer, left, seen, A!store, A!main>>
    BY <1>7 DEF A!vars, A!call
  <2>2. ServedTypes' /\ Filed' /\ \A c \in Calls : Fine(c)'
    BY <1>2, <2>1
  <2> QED
    BY <1>0, <2>1, <2>2 DEF ApiIInv, MainTypes, InTime, A!main
<1> QED
  BY <1>1, <1>5, <1>6, <1>7 DEF A!Lifecycle

(* Every step keeps the invariant. *)
LEMMA ApiNext == ASSUME A!ApiConstants, ApiIInv, [A!Next]_(A!vars) PROVE ApiIInv'
BY HandleKeeps, ConnectionKeeps, MainKeeps DEF A!Next, A!Terminated

(* The inductive invariant holds in every reachable state. *)
LEMMA ApiInv == A!Spec => []ApiIInv
<1>1. A!Init => ApiIInv
  BY ApiAssumption, ApiInit
<1>2. ApiIInv /\ [A!Next]_(A!vars) => ApiIInv'
  BY ApiAssumption, ApiNext
<1> QED BY <1>1, <1>2, PTL DEF A!Spec

-----------------------------------------------------------------------------
(* A behaviour of the two is one of each: the other one stands still. *)
LEMMA ServersAreBoth == ServersSpec => Spec /\ A!Spec
<1>1. ServersInit => Init /\ A!Init
  BY DEF ServersInit
<1>2. [ServersNext]_all => [Next]_vars /\ [A!Next]_(A!vars)
  BY DEF ServersNext, Service, OfApi, all, apiVars, vars, A!vars, A!call, A!store, A!main
<1> QED BY <1>1, <1>2, PTL DEF ServersSpec, Spec, A!Spec

(* Types of both; the API's store has at most one payment per call,        *)
(* numbered in order (MemoryStore, main.go lines 52-70).                   *)
THEOREM TypesCorrect == ServersSpec => []TypesOK
<1>1. ApiIInv => A!TypeOK
  BY ApiAssumption, ApiTypes
<1> QED BY <1>1, ServersAreBoth, TypeCorrect, ApiInv, PTL DEF TypesOK

(* However the handler, its deadline and its client race, an answer other  *)
(* than 503 is true of the store, then and later (main.go lines 64, 285).  *)
THEOREM ApiAnswersStayTrue == ServersSpec => []ApiAnswersAreTrue
<1>1. ApiIInv => ApiAnswersAreTrue
  <2> SUFFICES ASSUME ApiIInv, NEW c \in Calls
               PROVE  /\ carry[c].route = "create" =>
                          /\ Cardinality(A!Made(c)) <= 1
                          /\ answer[c] = 201 => A!Made(c) = {seen[c]}
                          /\ answer[c] \in {400, 422, 500} =>
                              A!Made(c) = {} /\ handler[c] \in {"written", "panicked"}
                      /\ carry[c].route = "get" /\ answer[c] \notin {0, 503} =>
                          (answer[c] = 200) = (carry[c].what <= seen[c])
    BY DEF ApiAnswersAreTrue, A!AnswersAreTrue, A!Cardinality, Cardinality
  <2>0. ServedTypes /\ Filed /\ Fine(c)
    BY DEF ApiIInv
  <2>1. A!Made(c) \subseteq {seen[c]}
    BY <2>0 DEF A!Made, ServedTypes, Filed
  <2>2. A!Made(c) # {} => handler[c] = "written" /\ reply[c] = 201
    BY <2>0 DEF A!Made, ServedTypes, Filed
  <2>3. Cardinality(A!Made(c)) <= 1
    <3>1. A!Made(c) = {} \/ A!Made(c) = {seen[c]}
      BY <2>1
    <3>2. Cardinality({}) = 0 /\ Cardinality({seen[c]}) = 1
      BY FS_EmptySet, FS_Singleton
    <3> QED
      BY <3>1, <3>2
  <2>4. ASSUME carry[c].route = "create", answer[c] = 201
        PROVE  A!Made(c) = {seen[c]}
    <3>1. seen[c] \in A!Made(c)
      BY <2>0, <2>4 DEF Fine, WroteTheTruth, A!Made
    <3> QED
      BY <2>1, <3>1
  <2>5. ASSUME carry[c].route = "create", answer[c] \in {400, 422, 500}
        PROVE  A!Made(c) = {} /\ handler[c] \in {"written", "panicked"}
    BY <2>0, <2>2, <2>5 DEF Fine
  <2>6. ASSUME carry[c].route = "get", answer[c] \notin {0, 503}
        PROVE  (answer[c] = 200) = (carry[c].what <= seen[c])
    BY <2>0, <2>6 DEF Fine, WroteTheTruth
  <2> QED
    BY <2>3, <2>4, <2>5, <2>6
<1> QED BY <1>1, ServersAreBoth, ApiInv, PTL

(* The timeouts leave Shutdown enough time for all but a body that does    *)
(* not come: Close cuts off a connection only if its call is a POST whose  *)
(* answer is ready (main.go lines 98-106, 285, 299, 317-329).              *)
THEOREM CloseCutsOnlyUploads == ServersSpec => []ApiCutsOnlyUploads
<1>1. ApiIInv => ApiCutsOnlyUploads
  <2> SUFFICES ASSUME ApiIInv, life = "forced", NEW c \in A!Busy
               PROVE  conn[c] = "flushing" /\ carry[c].route = "create"
    BY DEF ApiCutsOnlyUploads, A!OnlyUploadsAreCutOff
  <2>1. c \in Calls /\ Fine(c) /\ InTime /\ conn[c] \in {"open", "served", "flushing"}
    BY DEF ApiIInv, A!Busy
  <2> QED
    BY <2>1 DEF Fine, InTime
<1> QED BY <1>1, ServersAreBoth, ApiInv, PTL
=============================================================================
