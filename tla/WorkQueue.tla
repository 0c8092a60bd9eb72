----------------------------- MODULE WorkQueue -----------------------------
(***************************************************************************)
(* What a queue with acknowledgement promises, without clocks, parking or  *)
(* order: a published message belongs to the queue or to ONE consumer, is  *)
(* handed out a bounded number of times, and ends acknowledged or          *)
(* dead-lettered, never both and never neither.  A message that goes back  *)
(* to the queue may displace queued messages published under its own key.  *)
(* Broker and JobProcessor implement it.                                   *)
(***************************************************************************)
EXTENDS Naturals

CONSTANTS Messages, MaxDeliveries

VARIABLES
    status,    \* message -> "new", "queued", "held", "acked", "dead" or "lost"
    left,      \* message -> how often it may still be handed out
    key        \* message -> what its publisher calls it

queueVars == <<status, left, key>>

QueueInit ==
    /\ status = [m \in Messages |-> "new"]
    /\ left = [m \in Messages |-> 0]

Move(m, from, to) ==
    /\ status[m] = from
    /\ status' = [status EXCEPT ![m] = to]

Enqueue(m) ==
    /\ Move(m, "new", "queued")
    /\ \E n \in 1 .. MaxDeliveries : left' = [left EXCEPT ![m] = n]
    /\ UNCHANGED key

Deliver(m) ==
    /\ Move(m, "queued", "held")
    /\ left[m] > 0
    /\ left' = [left EXCEPT ![m] = @ - 1]
    /\ UNCHANGED key

Settle(m) ==
    /\ \E to \in {"acked", "dead"} : Move(m, "held", to)
    /\ UNCHANGED <<left, key>>

Namesakes(m) == {n \in Messages \ {m} : key[n] = key[m] /\ status[n] = "queued"}

Return(m) ==
    /\ status[m] = "held"
    /\ \E displaced \in SUBSET Namesakes(m) :
        status' = [n \in Messages |-> IF n = m THEN "queued"
                                     ELSE IF n \in displaced THEN "lost"
                                     ELSE status[n]]
    /\ UNCHANGED <<left, key>>

QueueNext == \E m \in Messages : Enqueue(m) \/ Deliver(m) \/ Settle(m) \/ Return(m)

QueueSpec == QueueInit /\ [][QueueNext]_queueVars
=============================================================================
