----------------------------- MODULE MCFeedback -----------------------------
(* Values for the constants of Feedback. *)
EXTENDS Feedback

CONSTANTS server

\* Each thread in a process of its own, or all in one server.
BothRegimes == {[t \in Threads |-> t], [t \in Threads |-> server]}
=============================================================================
