----------------------------- MODULE MCSessions -----------------------------
(* Values for the constants of Sessions. *)
EXTENDS Sessions, TLC

CONSTANTS u1, u2, p1, p2

\* A customer and an employee.
RolesOfTwo == (u1 :> "customer") @@ (u2 :> "employee")
OwnPasswords == (u1 :> p1) @@ (u2 :> p2)

AnyConnection == Permutations(Conns)
=============================================================================
