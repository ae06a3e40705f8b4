------------------------------ MODULE MCLoans -------------------------------
(* Values for the constants of Loans. *)
EXTENDS Loans, TLC

\* One server process per connection.
SeparateProcesses == [t \in Threads |-> t]

\* One server process, a thread per connection: the server as it is built.
OneServer == [t \in Threads |-> CHOOSE p \in Procs : TRUE]

\* One amount the guards refuse, one they let pass.
SomeAmounts == {-1, 1}

NothingYet == [a \in Accounts |-> 0]

AnyThread == Permutations(Threads)
=============================================================================
