------------------------------ MODULE Services ------------------------------
(***************************************************************************)
(* The long-running services, side by side: a behaviour is one of the      *)
(* Kafka order processor (chapter 18) or one of Servers (chapters 13 and   *)
(* 14), chosen at the start.  They do not know each other, and the other   *)
(* one stays in an initial state.                                          *)
(***************************************************************************)
EXTENDS Servers, OrderConsumer

VARIABLE service    \* "orders" or "http"

servicesVars == <<service, all, consumerVars>>

(* Nothing is chosen for the part that is not run. *)
ServicesInit ==
    /\ ServersInit /\ ConsumerInit
    /\ \/ service = "orders" /\ subject = "api" /\ carry = FirstCarry
       \/ service = "http" /\ store = "memory"

OfOrders(C) == service = "orders" /\ C /\ UNCHANGED <<service, all>>
OfHttp(S) == service = "http" /\ S /\ UNCHANGED <<service, consumerVars>>

(* PollRecords blocks in every process: the log is read to its end. *)
EndOfLog ==
    /\ \A c \in Procs : pc[c] = "poll"
    /\ \A p \in Partitions : pos[p] = Len(Log[p])
    /\ UNCHANGED consumerVars

ServicesNext == OfOrders(ConsumerNext) \/ OfOrders(EndOfLog) \/ OfHttp(ServersNext)

ServicesSpec == ServicesInit /\ [][ServicesNext]_servicesVars

(* Consumer processes run and are restarted, and the group reassigns       *)
(* partitions.  In the servers main goes on and its deadline comes, and so *)
(* do the API's clock, net/http's timers and its answers; handlers and     *)
(* clients may hang for ever.                                              *)
FairServices ==
    /\ ServicesSpec
    /\ \A c \in Procs : WF_servicesVars(OfOrders(Step(c)))
    /\ WF_servicesVars(OfOrders(\E p \in Partitions, c \in Procs : Assign(p, c)))
    /\ WF_servicesVars(OfHttp(Service(Shutdown) \/ OfApi(A!Lifecycle)))
    /\ WF_servicesVars(OfHttp(OfApi(A!Tick)))
    /\ WF_servicesVars(OfHttp(OfApi(\E c \in Calls : A!Timers(c))))

-----------------------------------------------------------------------------
(* Every record ends in the behaviours about the order processor, although *)
(* processes stop and are restarted, commits fail and records come again.  *)
RecordsEnd == <>[](service = "orders" => AllEnded)
=============================================================================
