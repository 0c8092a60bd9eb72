------------------------------ MODULE MCServers ------------------------------
(* The API gets two requests: one creates a payment, the other creates one  *)
(* or is refused, looks for the first or probes.                            *)
EXTENDS MCPaymentService, Servers

MCCalls == {"a1", "a2"}
Post(text) == [route |-> "create", what |-> text]
MCCarries ==
    [c \in MCCalls |->
        IF c = "a1" THEN {Post("valid")}
        ELSE {Post("valid"), Post("malformed"), Post("invalid"),
              [route |-> "get", what |-> 1],
              [route |-> "healthz", what |-> 0], [route |-> "readyz", what |-> 0]}]
=============================================================================
