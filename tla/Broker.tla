------------------------------- MODULE Broker -------------------------------
(***************************************************************************)
(* The in-memory queue broker of                                           *)
(* 17-messaging/examples/messaging/broker.go, with concurrent consumers.   *)
(*                                                                         *)
(* A consumer goroutine runs Consume: next, then the handler, then ack,    *)
(* dead or redeliver.  next, dead and redeliver each lock b.mu; the lock   *)
(* is free while the handler runs, so publishers, other consumers and the  *)
(* clock interleave there.                                                 *)
(***************************************************************************)
EXTENDS Integers, Sequences, FiniteSets, SequencesExt

CONSTANTS
    Queues,         \* queue names
    Consumers,      \* goroutines that call Consume
    Messages,       \* one element per Publish call
    IdChoices,      \* how publishers may choose Message.ID: functions of the message
    FirstAttempts,  \* what each publisher may leave in Message.Attempts (0: unset)
    Causes,         \* attempt -> texts of the errors a handler may return on it
    MaxAttempts,    \* maxAttempts
    Backoff,        \* backoff, the base redelivery delay
    Width,          \* bits of a time.Duration (64 in Go)
    MaxTime         \* bound: the clock is pushed past this only by parked messages

ASSUME BrokerConstants ==
    /\ \A f \in IdChoices : DOMAIN f = Messages
    /\ 1 .. MaxAttempts \subseteq DOMAIN Causes
    /\ FirstAttempts \in [Messages -> SUBSET Nat]
    /\ \A m \in Messages : FirstAttempts[m] \subseteq (DOMAIN Causes) \cup {0}
    /\ MaxAttempts \in Nat \ {0}
    /\ Backoff \in Nat \ {0}
    /\ Width \in Nat \ {0}
    /\ MaxTime \in Nat

(* The shift of line 265 stays inside time.Duration. *)
ASSUME BackoffFits ==
    MaxAttempts >= 2 => Backoff * 2^(MaxAttempts - 2) < 2^(Width - 1)

VARIABLES
    now,        \* b.now(); 0 is time.Time's zero value, the clock starts at 1
    ready,      \* b.ready: queue -> sequence of pending
    inflight,   \* b.inflight: a set of pending, at most one per msg.ID
    dlq,        \* b.dlq: queue -> sequence of messages
    loop,       \* consumer -> the queue its Consume polls, or NotConsuming
    held,       \* consumer -> the message its handler works on, or Nothing
    acked,      \* history: messages acknowledged
    published,  \* history: queue -> messages in the order of Publish
    started,    \* history: queue -> messages in the order of first delivery
    attempts0,  \* history: message -> Attempts as published (1 if unset)
    failures,   \* history: message -> the failures, in order: [at, cause]
    idOf        \* message -> the Message.ID its publisher chose; it never changes

vars == <<now, ready, inflight, dlq, loop, held, acked, published, started,
          attempts0, failures, idOf>>
history == <<published, started, attempts0, failures, idOf>>

NotConsuming == "not consuming"
Nothing == [m |-> "nothing"]
Zero == 0
NoReason == [cause |-> "", exhausted |-> FALSE]

-----------------------------------------------------------------------------
(* NewBroker. *)
Init ==
    /\ now = 1
    /\ ready = [q \in Queues |-> <<>>]
    /\ inflight = {}
    /\ dlq = [q \in Queues |-> <<>>]
    /\ loop = [c \in Consumers |-> NotConsuming]
    /\ held = [c \in Consumers |-> Nothing]
    /\ acked = {}
    /\ published = [q \in Queues |-> <<>>]
    /\ started = [q \in Queues |-> <<>>]
    /\ attempts0 = [m \in Messages |-> 0]
    /\ failures = [m \in Messages |-> <<>>]
    /\ idOf \in IdChoices

Published == UNION {ToSet(published[q]) : q \in Queues}

(* Publish: Queue is overwritten, Attempts 0 becomes 1, and the message is *)
(* visible at once (visibleAt is the zero time).                           *)
Publish(q, m, n) ==
    LET first == IF n = 0 THEN 1 ELSE n
        msg == [m |-> m, ID |-> idOf[m], Queue |-> q, Attempts |-> first,
                Reason |-> NoReason, FirstFailedAt |-> Zero]
    IN  /\ m \notin Published
        /\ ready' = [ready EXCEPT ![q] =
                        Append(@, [msg |-> msg, visibleAt |-> Zero])]
        /\ published' = [published EXCEPT ![q] = Append(@, m)]
        /\ attempts0' = [attempts0 EXCEPT ![m] = first]
        /\ UNCHANGED <<now, inflight, dlq, loop, held, acked, started, failures,
                       idOf>>

(* Consume is called, or called again after it returned. *)
Consume(c, q) ==
    /\ loop[c] = NotConsuming
    /\ loop' = [loop EXCEPT ![c] = q]
    /\ UNCHANGED <<now, ready, inflight, dlq, held, acked, history>>

(* `!now.Before(p.visibleAt)` *)
Visible(p) == p.visibleAt <= now

(* Mutation: next looks at the ready queue only. *)
NoneDue == {}

(* The parked messages next puts back, and the ready queues they go to: an *)
(* order of the due messages of each queue.  Go iterates over the map in   *)
(* any order.                                                              *)
Due == {p \in inflight : Visible(p)}

(* Mutation: promotion forgets which queue a message belongs to. *)
DueAnywhere(q) == Due

DueFor(q) == {p \in Due : p.msg.Queue = q}

Promoted ==
    {[q \in Queues |-> ready[q] \o order[q]] : order \in
        {f \in [Queues -> UNION {SetToSeqs(DueFor(q)) : q \in Queues}] :
            \A q \in Queues : f[q] \in SetToSeqs(DueFor(q))}}

(* The ready queues without the i-th message of q. *)
Taken(queues, q, i) == [queues EXCEPT ![q] = RemoveAt(@, i)]

(* Mutation: the newest visible message first. *)
LastVisible(s) == SelectLastInSeq(s, Visible)

FirstVisible(s) == SelectInSeq(s, Visible)

(* One round of the loop that finds work: next promotes what is due and    *)
(* takes the first visible message; then the handler starts.               *)
Take(c) ==
    /\ loop[c] # NotConsuming
    /\ held[c] = Nothing
    /\ \E queues \in Promoted :
        LET q == loop[c]
            i == FirstVisible(queues[q])
            msg == queues[q][i].msg
        IN  /\ i # 0
            /\ ready' = Taken(queues, q, i)
            /\ held' = [held EXCEPT ![c] = msg]
            /\ started' = [started EXCEPT ![q] =
                            IF queues[q][i].visibleAt = Zero
                            THEN Append(@, msg.m) ELSE @]
    /\ inflight' = inflight \ Due
    /\ UNCHANGED <<now, dlq, loop, acked, published, attempts0, failures, idOf>>

(* A round that finds nothing visible still promotes; Consume returns nil. *)
ReturnEmpty(c) ==
    /\ loop[c] # NotConsuming
    /\ held[c] = Nothing
    /\ \E queues \in Promoted :
        /\ FirstVisible(queues[loop[c]]) = 0
        /\ ready' = queues
    /\ inflight' = inflight \ Due
    /\ loop' = [loop EXCEPT ![c] = NotConsuming]
    /\ UNCHANGED <<now, dlq, held, acked, history>>

(* The top of the loop sees ctx.Done(): the message just settled was the   *)
(* last one of this call.                                                  *)
ReturnCancelled(c) ==
    /\ loop[c] # NotConsuming
    /\ held[c] = Nothing
    /\ loop' = [loop EXCEPT ![c] = NotConsuming]
    /\ UNCHANGED <<now, ready, inflight, dlq, held, acked, history>>

(* What handle reports: nil, an error, an error marked Terminal, or a      *)
(* panic turned into a Terminal error.                                     *)
Outcomes(msg) ==
    [kind : {"retryable", "terminal", "panic"}, cause : Causes[msg.Attempts]]

IsTerminal(o) == o.kind \in {"terminal", "panic"}

(* The handler returned nil: the message is gone. *)
Ack(c) ==
    /\ held[c] # Nothing
    /\ acked' = acked \cup {held[c].m}
    /\ held' = [held EXCEPT ![c] = Nothing]
    /\ UNCHANGED <<now, ready, inflight, dlq, loop, history>>

(* Mutation: every failure stamps the time anew. *)
StampedAgain(msg) == now

(* FirstFailedAt is set by the first failure, in redeliver or in dead. *)
Stamped(msg) == IF msg.FirstFailedAt = Zero THEN now ELSE msg.FirstFailedAt

(* Mutation: one delivery too many. *)
ExhaustedLate(msg) == msg.Attempts > MaxAttempts

(* `msg.Attempts >= b.maxAttempts` *)
Exhausted(msg) == msg.Attempts >= MaxAttempts

NoteFailure(msg, o) ==
    failures' = [failures EXCEPT ![msg.m] =
                    Append(@, [at |-> now, cause |-> o.cause])]

(* dead, for a terminal failure or for the last attempt allowed. *)
Bury(c, o) ==
    LET msg == held[c] IN
    /\ msg # Nothing
    /\ IsTerminal(o) \/ Exhausted(msg)
    /\ dlq' = [dlq EXCEPT ![loop[c]] =
                Append(@, [msg EXCEPT
                    !.Reason = [cause |-> o.cause,
                                exhausted |-> ~IsTerminal(o)],
                    !.FirstFailedAt = Stamped(msg)])]
    /\ held' = [held EXCEPT ![c] = Nothing]
    /\ NoteFailure(msg, o)
    /\ UNCHANGED <<now, ready, inflight, loop, acked, published, started,
                   attempts0, idOf>>

(* Mutation: the delay does not grow. *)
FlatDelay(attempts) == Backoff

(* `b.backoff << (msg.Attempts - 2)` in a signed integer of Width bits. *)
Delay(attempts) ==
    LET half == 2^(Width - 1)
    IN  ((Backoff * 2^(attempts - 2) + half) % 2^Width) - half

(* redeliver: park the message under its ID; an entry already parked under *)
(* the same ID is overwritten.                                             *)
Redeliver(c, o) ==
    LET msg == held[c]
        again == [msg EXCEPT
                    !.FirstFailedAt = Stamped(msg),
                    !.Queue = loop[c],
                    !.Attempts = @ + 1,
                    !.Reason = [cause |-> o.cause, exhausted |-> FALSE]]
    IN  /\ msg # Nothing
        /\ ~IsTerminal(o) /\ ~Exhausted(msg)
        /\ inflight' = {p \in inflight : p.msg.ID # msg.ID} \cup
                       {[msg |-> again,
                         visibleAt |-> now + Delay(again.Attempts)]}
        /\ held' = [held EXCEPT ![c] = Nothing]
        /\ NoteFailure(msg, o)
        /\ UNCHANGED <<now, ready, dlq, loop, acked, published, started,
                       attempts0, idOf>>

(* The clock moves; past MaxTime only for the sake of a parked message. *)
Tick ==
    /\ now < MaxTime \/ \E p \in inflight : ~Visible(p)
    /\ now' = now + 1
    /\ UNCHANGED <<ready, inflight, dlq, loop, held, acked, history>>

Settle(c) ==
    /\ held[c] # Nothing
    /\ \/ Ack(c)
       \/ \E o \in Outcomes(held[c]) : Bury(c, o) \/ Redeliver(c, o)

Next ==
    \/ Tick
    \/ \E q \in Queues, m \in Messages : \E n \in FirstAttempts[m] : Publish(q, m, n)
    \/ \E c \in Consumers, q \in Queues : Consume(c, q)
    \/ \E c \in Consumers :
        Take(c) \/ ReturnEmpty(c) \/ ReturnCancelled(c) \/ Settle(c)

(* The clock advances, handlers return, the loop goes on, somebody calls   *)
(* Consume again for every queue (its doc, lines 208-209), and no consumer *)
(* is cancelled at the top of its loop for ever.                           *)
Fairness ==
    /\ WF_vars(Tick)
    /\ \A c \in Consumers :
        WF_vars(Settle(c)) /\ WF_vars(ReturnEmpty(c)) /\ SF_vars(Take(c))
    /\ \A q \in Queues : SF_vars(\E c \in Consumers : Consume(c, q))

Spec == Init /\ [][Next]_vars
FairSpec == Spec /\ Fairness

-----------------------------------------------------------------------------
Message ==
    [m : Messages, ID : {idOf[m] : m \in Messages}, Queue : Queues,
     Attempts : Nat \ {0},
     Reason : [cause : (UNION Range(Causes)) \cup {""}, exhausted : BOOLEAN],
     FirstFailedAt : Nat]
Pending == [msg : Message, visibleAt : Int]

InReady(q) == {p.msg : p \in ToSet(ready[q])}
Waiting == (UNION {InReady(q) : q \in Queues}) \cup {p.msg : p \in inflight}
InHand == {held[c] : c \in Consumers} \ {Nothing}
Dead == UNION {ToSet(dlq[q]) : q \in Queues}

(* Type correctness; every message waits in the queue it was published to. *)
TypeOK ==
    /\ now \in Nat \ {0}
    /\ \A q \in Queues : /\ \A p \in ToSet(ready[q]) : p \in Pending
                         /\ \A p \in ToSet(ready[q]) : p.msg.Queue = q
                         /\ \A d \in ToSet(dlq[q]) : d \in Message
    /\ inflight \subseteq Pending
    /\ loop \in [Consumers -> Queues \cup {NotConsuming}]
    /\ InHand \subseteq Message
    /\ acked \subseteq Messages

(* The triage record of a dead letter tells the truth about its history,   *)
(* over any number of redeliveries: FirstFailedAt is the time of the first *)
(* failure, Attempts is the delivery that failed last, and a letter not    *)
(* marked terminal used up its attempts (lines 71-75, 179-187, 259-261).   *)
(* Whose cause it carries is the question of FirstCauseKept.               *)
TriageIsTrue ==
    \A d \in Dead :
        LET f == failures[d.m] IN
        /\ d.FirstFailedAt = f[1].at
        /\ d.Attempts = attempts0[d.m] + Len(f) - 1
        /\ d.Reason.exhausted => d.Attempts >= MaxAttempts

(* "A later DLQ trip preserves the first failure's cause and timestamp for *)
(* triage" (lines 252-255; also lines 71-73): the cause of a dead letter   *)
(* is the one its handler reported first.                                  *)
FirstCauseKept == \A d \in Dead : d.Reason.cause = failures[d.m][1].cause

(* Between two deliveries of a message lies at least the backoff of the    *)
(* attempt that failed, doubled per attempt, also when another consumer,   *)
(* another queue's poll or a slow handler is in play (lines 158-176, 265). *)
BackoffElapsed ==
    \A msg \in InHand :
        LET f == failures[msg.m] IN
        Len(f) > 0 =>
            now - f[Len(f)].at >= Backoff * 2^(attempts0[msg.m] + Len(f) - 2)

(* First deliveries follow the order of Publish on every queue, whatever   *)
(* is redelivered in between: a message on its way round never lets a      *)
(* later message overtake an earlier one that has not been tried.          *)
FirstDeliveriesInOrder ==
    \A q \in Queues : IsPrefix(started[q], published[q])

(* The broker implements a work queue: each message is in ONE place, is    *)
(* handed to one consumer at a time and at most MaxAttempts times, and     *)
(* leaves only as acknowledged or dead (lines 103-105), with the one loss  *)
(* WorkQueue names: inflight is keyed by the ID publishers choose, so a    *)
(* parked message goes when another one with its ID is parked (line 266).  *)
DeliveriesAllowed(m) ==
    IF attempts0[m] > MaxAttempts THEN 1 ELSE MaxAttempts - attempts0[m] + 1

StatusOf(m) ==
    LET places == {s \in {"queued", "held", "acked", "dead"} :
                    \/ s = "queued" /\ \E x \in Waiting : x.m = m
                    \/ s = "held" /\ \E x \in InHand : x.m = m
                    \/ s = "acked" /\ m \in acked
                    \/ s = "dead" /\ \E x \in Dead : x.m = m}
    IN  CASE m \notin Published -> "new"
          [] m \in Published /\ places = {} -> "lost"
          [] m \in Published /\ Cardinality(places) = 1 -> CHOOSE s \in places : TRUE
          [] OTHER -> "duplicated"

Handed(m) ==
    Len(failures[m])
        + IF m \in acked \/ \E x \in InHand : x.m = m THEN 1 ELSE 0

LeftOf(m) == IF m \in Published THEN DeliveriesAllowed(m) - Handed(m) ELSE 0

WQ == INSTANCE WorkQueue WITH
        MaxDeliveries <- MaxAttempts,
        key <- idOf,
        status <- [m \in Messages |-> StatusOf(m)],
        left <- [m \in Messages |-> LeftOf(m)]
ImplementsWorkQueue == WQ!QueueSpec

(* No message is forgotten: with consumers called again and again and a    *)
(* running clock, every published message is acknowledged or buried, or    *)
(* was overwritten while it was parked.                                    *)
EventuallySettled ==
    <>[](\A m \in Published : StatusOf(m) \in {"acked", "dead", "lost"})
=============================================================================
