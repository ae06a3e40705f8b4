------------------------------- MODULE MCWire -------------------------------
(* Values for the constants of Wire. *)
EXTENDS Wire

AllRoles == {"customer", "employee", "manager", "admin"}
=============================================================================
