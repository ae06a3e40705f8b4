------------------------------ MODULE MCLedger ------------------------------
(* Values for the constants of Ledger. *)
EXTENDS Ledger, TLC

\* One server process per connection.
SeparateProcesses == [t \in Threads |-> t]

\* One server process, a thread per connection: the server as it is built.
OneServer == [t \in Threads |-> CHOOSE p \in Procs : TRUE]

\* One amount the guards refuse, one they let pass.
SomeAmounts == {-1, 1}

TwoEach == [a \in Accounts |-> 2]

AnyThread == Permutations(Threads)

AllOps == {"DEPOSIT", "WITHDRAW", "TRANSFER", "APPROVE_LOAN",
           "SET_ACCOUNT_STATUS", "VIEW_BALANCE", "VIEW_TRANSACTIONS"}
CustomerOps == {"WITHDRAW", "TRANSFER"}
TransferOps == {"TRANSFER", "SET_ACCOUNT_STATUS"}
=============================================================================
