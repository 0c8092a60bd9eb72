------------------------------ MODULE Servers ------------------------------
(***************************************************************************)
(* The two HTTP servers, side by side: a behaviour is one of the payments  *)
(* service, or one of the API of the HTTP chapter, chosen at the start.    *)
(* They do not know each other, and the other one stays in an initial      *)
(* state.                                                                  *)
(***************************************************************************)
EXTENDS PaymentService

CONSTANTS Calls, Carries, StoreFaults

VARIABLES
    subject,    \* "service" or "api"
    conn, carry, body, handler, reply, answer, left, stored, seq, ready, life, grace, seen

A == INSTANCE Api

ASSUME ApiAssumption == A!ApiConstants

apiVars == <<conn, carry, body, handler, reply, answer, left, stored, seq, ready,
             life, grace, seen>>
all == <<subject, vars, apiVars>>

(* What a request and a call carry in the behaviours about the other. *)
FirstInput ==
    CHOOSE f \in [Requests -> UNION {Inputs[r] : r \in Requests}] :
        \A r \in Requests : f[r] \in Inputs[r]
FirstCarry ==
    CHOOSE f \in [Calls -> UNION {Carries[c] : c \in Calls}] :
        \A c \in Calls : f[c] \in Carries[c]

ServersInit ==
    /\ Init /\ A!Init
    /\ \/ subject = "service" /\ carry = FirstCarry
       \/ subject = "api" /\ input = FirstInput

Service(S) == subject = "service" /\ S /\ UNCHANGED <<subject, apiVars>>
OfApi(S) == subject = "api" /\ S /\ UNCHANGED <<subject, vars>>

ServersNext == Service(Next) \/ OfApi(A!Next)

ServersSpec == ServersInit /\ [][ServersNext]_all

-----------------------------------------------------------------------------
(* The type invariants of both modules. *)
TypesOK == TypeOK /\ A!TypeOK

(* AnswersAreTrue of the API. *)
ApiAnswersAreTrue == A!AnswersAreTrue

(* OnlyUploadsAreCutOff of the API. *)
ApiCutsOnlyUploads == A!OnlyUploadsAreCutOff

(* ShutdownCompletes of the service and ShutdownEnds of the API: neither    *)
(* server stays in its shutdown.                                            *)
ServersShutDown == ShutdownCompletes /\ A!ShutdownEnds
=============================================================================
