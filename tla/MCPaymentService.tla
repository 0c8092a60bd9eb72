-------------------------- MODULE MCPaymentService --------------------------
(* Three requests.  The first creates a payment or is refused on the way;  *)
(* the second cancels payment 1 for its owner, a stranger or nobody; the   *)
(* third does what the owner did, at the same time, or creates as well.    *)
EXTENDS PaymentService

MCRequests == {"r1", "r2", "r3"}
MCCustomers == {"cus_1", "cus_2"}

User(route, who, about) == [route |-> route, kind |-> "user", who |-> who, about |-> about]
As(kind, route, about) == [route |-> route, kind |-> kind, who |-> "cus_1", about |-> about]

MCInputs ==
    [r \in MCRequests |->
        CASE r = "r1" -> {User("create", "cus_1", "cus_1"),
                          User("create", "cus_1", "malformed"),
                          User("create", "cus_1", "invalid"),
                          As("none", "create", "cus_1")}
          [] r = "r2" -> {User("cancel", "cus_1", 1), User("cancel", "cus_2", 1),
                          As("admin", "cancel", 1)}
          [] r = "r3" -> {User("cancel", "cus_1", 1), User("create", "cus_2", "cus_2"),
                          As("admin", "health", "nothing")}]
=============================================================================
