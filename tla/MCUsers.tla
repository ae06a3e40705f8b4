------------------------------ MODULE MCUsers -------------------------------
(* Values for the constants of Users. *)
EXTENDS Users, TLC

CONSTANTS server

\* Each thread in a process of its own, or all in one server.
BothRegimes == {[t \in Threads |-> t], [t \in Threads |-> server]}
Separately  == {[t \in Threads |-> t]}

\* An employee and a customer.
TwoUsers == << [name |-> "e", contact |-> "e", password |-> "p", role |-> "employee"],
               [name |-> "c", contact |-> "c", password |-> "p", role |-> "customer"] >>

\* The requests whose routes reach their handlers (MODIFY_USER does not).
Routed == {"ADD_CUSTOMER", "ADD_EMPLOYEE", "MODIFY_CUSTOMER", "CHANGE_ROLE",
           "CHANGE_PASSWORD", "LIST_USERS"}

Adding == {"ADD_CUSTOMER", "ADD_EMPLOYEE"}

AnyThread == Permutations(Threads)
=============================================================================
