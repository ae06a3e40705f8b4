----------------------------- MODULE FileLocks -----------------------------
(***************************************************************************)
(* The advisory record locks of src/src/utils.c, as the kernel grants them *)
(* to the calls made there.  A lock table of one database file maps each   *)
(* byte range (one record, or the end of the file) to its owner.           *)
(*                                                                         *)
(* Three facts of fcntl(F_SETLKW) decide what the code's locks are worth:  *)
(*  - the owner of a lock is the PROCESS, so two threads of one server     *)
(*    never exclude each other;                                            *)
(*  - F_WRLCK needs a descriptor open for writing: lock_file() on one      *)
(*    opened O_RDONLY fails with EBADF, and every caller ignores that;     *)
(*  - close() of any descriptor of a file drops all the locks its process  *)
(*    has on that file, whichever thread took them.                        *)
(***************************************************************************)

CONSTANTS Procs,    \* the processes that share the ./db directory
          NoProc    \* "nobody" in a lock table

ASSUME NoProcAssumption == NoProc \notin Procs

\* The lock tables of a file whose byte ranges are R.
LockTable(R) == [R -> Procs \cup {NoProc}]

Unlocked(R) == [r \in R |-> NoProc]

\* F_SETLKW, F_WRLCK on the ranges S by process p stops waiting.
Grantable(tab, S, p) == \A r \in S : tab[r] \in {p, NoProc}

\* lock_record() and lock_file() on a descriptor open for writing.
Lock(tab, S, p) == [r \in DOMAIN tab |-> IF r \in S THEN p ELSE tab[r]]

\* unlock_record()/unlock_file() followed by close(): the close drops every
\* lock of p on the file, so it covers the unlock.
Close(tab, p) == [r \in DOMAIN tab |-> IF tab[r] = p THEN NoProc ELSE tab[r]]

\* open(O_RDONLY); lock_file(); scan; unlock_file(); close().  The lock fails
\* with EBADF, nothing is waited for, and the close drops p's locks.
ReadOnlyPass(tab, p) == Close(tab, p)
=============================================================================
