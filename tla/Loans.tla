------------------------------- MODULE Loans --------------------------------
(***************************************************************************)
(* The life of a loan: loans.db under apply_loan() (customer_module.c),    *)
(* assign_loan_to_employee() (manager_module.c), approve_reject_loan()     *)
(* (employee_module.c) and the listings, through atomic_update_loan() and  *)
(* append_loan() of utils.c.                                               *)
(*                                                                         *)
(* Approval pays the loan out while the loan record is locked.  The money  *)
(* side is composed from AtomicLedger, whose steps are what                *)
(* atomic_update_account() and append_transaction() promise (Ledger        *)
(* examines that promise).  Account status and staff roles are changed by  *)
(* managers and admins at any time.                                        *)
(***************************************************************************)
EXTENDS Integers, Sequences, FileLocks

CONSTANTS Threads,      \* client threads
          ProcOf,       \* the process each thread belongs to
          Accounts,     \* customers with a record in accounts.db
          Strangers,    \* user ids without one, that a client may name
          Staff,        \* user ids managers and employees name
          Employees,    \* those of them that are employees at first
          Nobody,       \* assigned_to of a loan that is not assigned
          Bank,         \* account id 0 of a transaction record
          Amounts,      \* the amounts clients send
          Opening,      \* the balance each account starts with
          MaxLoans,     \* bound: applications, and the ids clients name
          MaxRequests,  \* bound: requests received in a behaviour
          MaxChanges,   \* bound: changes of an account's status or a role
          MaxFaults,    \* bound: failing system calls
          MaxExits      \* bound: times a server process exits and restarts

ASSUME ThreadsAssumption == ProcOf \in [Threads -> Procs]
ASSUME PeopleAssumption  == /\ Employees \subseteq Staff
                            /\ Nobody \notin Staff
                            /\ Bank \notin Accounts \cup Strangers
ASSUME AmountsAssumption == Amounts \subseteq Int
ASSUME OpeningAssumption == Opening \in [Accounts -> Nat]
ASSUME BoundsAssumption  == /\ MaxLoans \in Nat /\ MaxRequests \in Nat
                            /\ MaxChanges \in Nat
                            /\ MaxFaults \in Nat /\ MaxExits \in Nat

\* Each connection is served by a process of its own.
OneThreadPerProcess == \A t, u \in Threads : ProcOf[t] = ProcOf[u] => t = u

VARIABLES
  loans,      \* loans.db
  loanLock,   \* fcntl locks on its records
  accounts,   \* accounts.db
  txns,       \* transactions.db
  employees,  \* the staff whose role in users.db is ROLE_EMPLOYEE
  pc,         \* the next system call of each thread
  req,        \* the request each thread serves
  at,         \* the record find_loan_offset() found, 0 if none
  tmp,        \* that record as read and modified
  newId,      \* loan_id computed from lseek, not yet written
  served, applied, changes, faults, exits,   \* counters for the bounds
  paid        \* history: how often each loan was paid out

bank   == <<accounts, txns>>
locals == <<req, at, tmp, newId>>
counts == <<served, applied, changes, faults, exits>>
vars   == <<loans, loanLock, bank, employees, pc, locals, counts, paid>>

-----------------------------------------------------------------------------
Ids       == Accounts \cup Strangers
Positions == 1..MaxLoans

LoanStatus == {"PENDING", "ASSIGNED", "APPROVED", "REJECTED"}
LoanRec == [id : Nat \ {0}, user : Ids, amount : Amounts, status : LoanStatus,
            assigned : Staff \cup {Nobody}]
NoLoan  == [id |-> 0, user |-> Bank, amount |-> 0, status |-> "PENDING",
            assigned |-> Nobody]

\* What the payloads of the loan requests parse to.
Requests ==
  [op : {"APPLY_LOAN"}, loan : {0}, user : Ids, amount : Amounts, emp : {Nobody},
   action : {"none"}]
  \cup
  [op : {"ASSIGN_LOAN"}, loan : Positions, user : {Bank}, amount : {0}, emp : Staff,
   action : {"none"}]
  \cup
  [op : {"APPROVE_REJECT_LOAN"}, loan : Positions, user : {Bank}, amount : {0},
   emp : Staff, action : {"approve", "reject", "other"}]
  \cup
  [op : {"LIST_LOANS"}, loan : {0}, user : {Bank}, amount : {0}, emp : {Nobody},
   action : {"none"}]
NoRequest == [op |-> "NONE", loan |-> 0, user |-> Bank, amount |-> 0,
              emp |-> Nobody, action |-> "none"]

LoanEntries == [from : {Bank}, to : Ids, amount : Amounts,
                narration : {"loan_deposit"}]
Money == INSTANCE AtomicLedger WITH Entries <- LoanEntries

Init ==
  /\ loans = << >>
  /\ loanLock = Unlocked(Positions)
  /\ Money!AInit
  /\ employees = Employees
  /\ pc = [t \in Threads |-> "recv"]
  /\ req = [t \in Threads |-> NoRequest]
  /\ at = [t \in Threads |-> 0]
  /\ tmp = [t \in Threads |-> NoLoan]
  /\ newId = [t \in Threads |-> 0]
  /\ served = 0 /\ applied = 0 /\ changes = 0 /\ faults = 0 /\ exits = 0
  /\ paid = [i \in Positions |-> 0]

Goto(t, step) == pc' = [pc EXCEPT ![t] = step]

\* send_response(): the handler's locals go out of scope.
Answer(t) ==
  /\ Goto(t, "recv")
  /\ req' = [req EXCEPT ![t] = NoRequest]
  /\ at' = [at EXCEPT ![t] = 0]
  /\ tmp' = [tmp EXCEPT ![t] = NoLoan]
  /\ newId' = [newId EXCEPT ![t] = 0]

-----------------------------------------------------------------------------
(* Routes.                                                                 *)

apply_loan(t, r) ==
  /\ r.op = "APPLY_LOAN"
  /\ \/ r.amount <= 0 /\ Goto(t, "refused") /\ UNCHANGED applied
     \/ /\ r.amount > 0 /\ applied < MaxLoans
        /\ applied' = applied + 1
        /\ Goto(t, "seek")

assign_loan_to_employee(t, r) ==
  r.op = "ASSIGN_LOAN" /\ Goto(t, "find") /\ UNCHANGED applied

approve_reject_loan(t, r) ==
  r.op = "APPROVE_REJECT_LOAN" /\ Goto(t, "find") /\ UNCHANGED applied

\* view_loan_status(), process_loans(), view_assigned_loans() and
\* view_non_assigned_loans().
list_loans(t, r) == r.op = "LIST_LOANS" /\ Goto(t, "list") /\ UNCHANGED applied

Receive(t) ==
  /\ pc[t] = "recv"
  /\ served < MaxRequests
  /\ served' = served + 1
  /\ \E r \in Requests :
       /\ req' = [req EXCEPT ![t] = r]
       /\ \/ apply_loan(t, r)
          \/ assign_loan_to_employee(t, r)
          \/ approve_reject_loan(t, r)
          \/ list_loans(t, r)
  /\ UNCHANGED <<loans, loanLock, bank, employees, at, tmp, newId, changes,
                 faults, exits, paid>>

\* "Loan amount must be positive."
Refuse(t) ==
  /\ pc[t] = "refused"
  /\ Answer(t)
  /\ UNCHANGED <<loans, loanLock, bank, employees, counts, paid>>

\* A scan of loans.db opened O_RDONLY.
ListLoans(t) ==
  /\ pc[t] = "list"
  /\ loanLock' = ReadOnlyPass(loanLock, ProcOf[t])
  /\ Answer(t)
  /\ UNCHANGED <<loans, bank, employees, counts, paid>>

-----------------------------------------------------------------------------
(* append_loan().                                                          *)

\* Mutant: the id counts from 0.
SeekEndFromZero(t) ==
  /\ pc[t] = "seek"
  /\ Grantable(loanLock, Positions, ProcOf[t])
  /\ loanLock' = Lock(loanLock, Positions, ProcOf[t])
  /\ newId' = [newId EXCEPT ![t] = Len(loans)]
  /\ Goto(t, "append")
  /\ UNCHANGED <<loans, bank, employees, req, at, tmp, counts, paid>>

\* Mutant: the id is taken before the lock.
SeekEndUnlocked(t) ==
  /\ pc[t] = "seek"
  /\ newId' = [newId EXCEPT ![t] = Len(loans) + 1]
  /\ Goto(t, "append")
  /\ UNCHANGED <<loans, loanLock, bank, employees, req, at, tmp, counts, paid>>

\* open(O_WRONLY | O_APPEND); lock_file(); lseek(SEEK_END).
SeekEnd(t) ==
  /\ pc[t] = "seek"
  /\ Grantable(loanLock, Positions, ProcOf[t])
  /\ loanLock' = Lock(loanLock, Positions, ProcOf[t])
  /\ newId' = [newId EXCEPT ![t] = Len(loans) + 1]
  /\ Goto(t, "append")
  /\ UNCHANGED <<loans, bank, employees, req, at, tmp, counts, paid>>

\* write() to an O_APPEND descriptor; unlock_file(); close().
AppendLoan(t) ==
  /\ pc[t] = "append"
  /\ loans' = Append(loans, [id |-> newId[t], user |-> req[t].user,
                             amount |-> req[t].amount, status |-> "PENDING",
                             assigned |-> Nobody])
  /\ loanLock' = Close(loanLock, ProcOf[t])
  /\ Answer(t)
  /\ UNCHANGED <<bank, employees, counts, paid>>

-----------------------------------------------------------------------------
(* atomic_update_loan() and the two modifiers it is called with.           *)

\* i is the first record with this id.
FoundAt(i, id) == loans[i].id = id /\ \A j \in 1..(i - 1) : loans[j].id # id

\* find_loan_offset().
FindLoan(t) ==
  /\ pc[t] = "find"
  /\ loanLock' = ReadOnlyPass(loanLock, ProcOf[t])
  /\ \/ \E i \in DOMAIN loans :
          /\ FoundAt(i, req[t].loan)
          /\ at' = [at EXCEPT ![t] = i]
          /\ Goto(t, "lock")
          /\ UNCHANGED <<req, tmp, newId>>
     \/ /\ \A i \in DOMAIN loans : loans[i].id # req[t].loan
        /\ Answer(t)
  /\ UNCHANGED <<loans, bank, employees, counts, paid>>

\* Mutant: F_SETLK for F_SETLKW, its result unchecked.
LockLoanNoWait(t) ==
  /\ pc[t] = "lock"
  /\ loanLock' = IF Grantable(loanLock, {at[t]}, ProcOf[t])
                   THEN Lock(loanLock, {at[t]}, ProcOf[t]) ELSE loanLock
  /\ Goto(t, "read")
  /\ UNCHANGED <<loans, bank, employees, locals, counts, paid>>

\* open(O_RDWR); lock_record().
LockLoan(t) ==
  /\ pc[t] = "lock"
  /\ Grantable(loanLock, {at[t]}, ProcOf[t])
  /\ loanLock' = Lock(loanLock, {at[t]}, ProcOf[t])
  /\ Goto(t, "read")
  /\ UNCHANGED <<loans, bank, employees, locals, counts, paid>>

\* Mutant: a loan is decided by its assignee whatever its status.
MayDecideAgain(loan, r) == loan.assigned = r.emp

\* The checks approve_reject_loan_modifier() starts with.
MayDecide(loan, r) == loan.status = "ASSIGNED" /\ loan.assigned = r.emp

\* The check assign_loan_modifier() starts with.
MayAssign(loan) == loan.status = "PENDING"

\* read() and the modifier, up to the next file it looks at.
ReadLoan(t) ==
  LET loan == loans[at[t]]
      r    == req[t]
  IN  /\ pc[t] = "read"
      /\ \/ /\ r.op = "ASSIGN_LOAN" /\ MayAssign(loan)
            /\ Goto(t, "role")
            /\ tmp' = [tmp EXCEPT ![t] = loan]
         \/ /\ r.op = "ASSIGN_LOAN" /\ ~MayAssign(loan)
            /\ Goto(t, "unlock")
            /\ UNCHANGED tmp
         \/ /\ r.action = "approve" /\ MayDecide(loan, r)
            /\ Goto(t, "check")
            /\ tmp' = [tmp EXCEPT ![t] = [loan EXCEPT !.status = "APPROVED"]]
         \/ /\ r.action = "reject" /\ MayDecide(loan, r)
            /\ Goto(t, "write")
            /\ tmp' = [tmp EXCEPT ![t] = [loan EXCEPT !.status = "REJECTED"]]
         \/ /\ r.op = "APPROVE_REJECT_LOAN"
            /\ r.action = "other" \/ ~MayDecide(loan, r)
            /\ Goto(t, "unlock")
            /\ UNCHANGED tmp
      /\ UNCHANGED <<loans, loanLock, bank, employees, req, at, newId, counts, paid>>

\* read_user() of the employee a loan is to be assigned to.
CheckEmployee(t) ==
  /\ pc[t] = "role"
  /\ \/ /\ req[t].emp \in employees
        /\ tmp' = [tmp EXCEPT ![t].assigned = req[t].emp, ![t].status = "ASSIGNED"]
        /\ Goto(t, "write")
     \/ /\ req[t].emp \notin employees
        /\ Goto(t, "unlock")
        /\ UNCHANGED tmp
  /\ UNCHANGED <<loans, loanLock, bank, employees, req, at, newId, counts, paid>>

\* read_account() of the customer.
CheckAccount(t) ==
  /\ pc[t] = "check"
  /\ \/ /\ tmp[t].user \in Accounts /\ accounts[tmp[t].user].active
        /\ Goto(t, "deposit")
     \/ /\ ~(tmp[t].user \in Accounts /\ accounts[tmp[t].user].active)
        /\ Goto(t, "unlock")
  /\ UNCHANGED <<loans, loanLock, bank, employees, locals, counts, paid>>

\* Mutant: the result of atomic_update_account() is not looked at.
DepositUnchecked(t) ==
  /\ pc[t] = "deposit"
  /\ \/ /\ Money!ACredit(tmp[t].user, tmp[t].amount)
        /\ paid' = [paid EXCEPT ![at[t]] = @ + 1]
     \/ /\ ~accounts[tmp[t].user].active
        /\ UNCHANGED <<bank, paid>>
  /\ Goto(t, "log")
  /\ UNCHANGED <<loans, loanLock, employees, locals, counts>>

\* atomic_update_account() with deposit_modifier: it refuses an account
\* deactivated since the check.
Deposit(t) ==
  /\ pc[t] = "deposit"
  /\ \/ /\ Money!ACredit(tmp[t].user, tmp[t].amount)
        /\ paid' = [paid EXCEPT ![at[t]] = @ + 1]
        /\ Goto(t, "log")
     \/ /\ ~accounts[tmp[t].user].active
        /\ Goto(t, "unlock")
        /\ UNCHANGED <<bank, paid>>
  /\ UNCHANGED <<loans, loanLock, employees, locals, counts>>

\* append_transaction().
LogDeposit(t) ==
  /\ pc[t] = "log"
  /\ Money!ALog([from |-> Bank, to |-> tmp[t].user, amount |-> tmp[t].amount,
                 narration |-> "loan_deposit"])
  /\ Goto(t, "write")
  /\ UNCHANGED <<loans, loanLock, employees, locals, counts, paid>>

\* lseek() and write() of the modified record.
WriteLoan(t) ==
  /\ pc[t] = "write"
  /\ loans' = [loans EXCEPT ![at[t]] = tmp[t]]
  /\ Goto(t, "unlock")
  /\ UNCHANGED <<loanLock, bank, employees, locals, counts, paid>>

\* unlock_record(); close(); the client is answered.
UnlockLoan(t) ==
  /\ pc[t] = "unlock"
  /\ loanLock' = Close(loanLock, ProcOf[t])
  /\ Answer(t)
  /\ UNCHANGED <<loans, bank, employees, counts, paid>>

-----------------------------------------------------------------------------
(* What happens around the handlers.                                       *)

\* set_account_status() and change_user_role(), served to others.
SetStatus(a) ==
  /\ changes < MaxChanges
  /\ changes' = changes + 1
  /\ Money!ASetStatus(a, ~accounts[a].active)
  /\ UNCHANGED <<loans, loanLock, employees, pc, locals, served, applied, faults,
                 exits, paid>>

ChangeRole(e) ==
  /\ changes < MaxChanges
  /\ changes' = changes + 1
  /\ employees' = IF e \in employees THEN employees \ {e} ELSE employees \cup {e}
  /\ UNCHANGED <<loans, loanLock, bank, pc, locals, served, applied, faults, exits,
                 paid>>

\* A system call fails.  Before the record is read the request is given up
\* (append_loan() goes on when only lock_file() fails, and does not notice a
\* failed write()); the modifiers give up at a failed check or deposit; a
\* failed log is not noticed; a failed write() of the record leaves it as it
\* was.
SystemCallFails(t) ==
  /\ faults < MaxFaults
  /\ faults' = faults + 1
  /\ \/ /\ pc[t] \in {"seek", "find", "lock", "list", "append"}
        /\ loanLock' \in {loanLock, Close(loanLock, ProcOf[t])}
        /\ pc[t] = "append" => loanLock' = Close(loanLock, ProcOf[t])
        /\ Answer(t)
     \/ /\ pc[t] = "seek"
        /\ newId' = [newId EXCEPT ![t] = Len(loans) + 1]
        /\ Goto(t, "append")
        /\ UNCHANGED <<loanLock, req, at, tmp>>
     \/ /\ pc[t] \in {"read", "role", "check", "deposit", "write"}
        /\ Goto(t, "unlock")
        /\ UNCHANGED <<loanLock, locals>>
     \/ /\ pc[t] = "log"
        /\ Goto(t, "write")
        /\ UNCHANGED <<loanLock, locals>>
  /\ UNCHANGED <<loans, bank, employees, served, applied, changes, exits, paid>>

\* The process exits and ends every client thread where it stands; it is then
\* started again over the same files.
Exit(p) ==
  LET Dead(f, v) == [t \in Threads |-> IF ProcOf[t] = p THEN v ELSE f[t]]
  IN  /\ exits < MaxExits
      /\ exits' = exits + 1
      /\ loanLock' = Close(loanLock, p)
      /\ pc' = Dead(pc, "recv")
      /\ req' = Dead(req, NoRequest)
      /\ at' = Dead(at, 0)
      /\ tmp' = Dead(tmp, NoLoan)
      /\ newId' = Dead(newId, 0)
      /\ UNCHANGED <<loans, bank, employees, served, applied, changes, faults, paid>>

-----------------------------------------------------------------------------
HandlerStep(t) ==
  \/ Refuse(t) \/ ListLoans(t) \/ SeekEnd(t) \/ AppendLoan(t)
  \/ FindLoan(t) \/ LockLoan(t) \/ ReadLoan(t) \/ CheckEmployee(t)
  \/ CheckAccount(t) \/ Deposit(t) \/ LogDeposit(t)
  \/ WriteLoan(t) \/ UnlockLoan(t)

Next ==
  \/ \E t \in Threads : Receive(t) \/ HandlerStep(t) \/ SystemCallFails(t)
  \/ \E a \in Accounts : SetStatus(a)
  \/ \E e \in Staff : ChangeRole(e)
  \/ \E p \in Procs : Exit(p)

Spec == Init /\ [][Next]_vars

-----------------------------------------------------------------------------
(* Properties.                                                             *)

Steps == {"recv", "refused", "list", "seek", "append", "find", "lock", "read",
          "role", "check", "deposit", "log", "write", "unlock"}

TypeOK ==
  /\ loans \in Seq(LoanRec) /\ Len(loans) <= MaxLoans
  /\ loanLock \in LockTable(Positions)
  /\ accounts \in [Accounts -> [balance : Int, active : BOOLEAN]]
  /\ employees \subseteq Staff
  /\ pc \in [Threads -> Steps]
  /\ req \in [Threads -> Requests \cup {NoRequest}]
  /\ at \in [Threads -> Positions \cup {0}]
  /\ tmp \in [Threads -> LoanRec \cup {NoLoan}]
  /\ newId \in [Threads -> Nat]
  /\ served \in Nat /\ applied \in Nat /\ changes \in Nat
  /\ faults \in Nat /\ exits \in Nat
  /\ paid \in [Positions -> Nat]

\* The loan a thread has paid out and not yet written back.
PayingOut(t, i) ==
  at[t] = i /\ (pc[t] = "log" \/ (pc[t] = "write" /\ tmp[t].status = "APPROVED"))

\* How often loan i should have been paid out by now.
Due(i) == IF \/ loans[i].status = "APPROVED"
             \/ \E t \in Threads : PayingOut(t, i) THEN 1 ELSE 0

\* approve_reject_loan(): an approved loan is paid out once, and no other
\* loan is.  A failed write() of the record or an exit before it leaves a paid
\* loan open, to be paid again: each failure costs one payment, and no more.
PaidAccounted ==
  \A i \in DOMAIN loans : paid[i] - Due(i) \in 0..(faults + exits)

\* No customer is told of an approved loan that was never paid, whatever
\* fails and however threads overtake each other.
ApprovedOnlyIfPaid ==
  \A i \in DOMAIN loans : loans[i].status = "APPROVED" => paid[i] >= 1

\* Every loan can be assigned and decided: the search for its loan_id ends at
\* its own record, unless the lock of an append failed.
LoanFoundById == faults = 0 => \A i \in DOMAIN loans : FoundAt(i, loans[i].id)

\* A loan goes from PENDING to ASSIGNED to its decision: it is assigned once,
\* the decision is final, and nothing else of it changes.
Lifecycle ==
  [][ \A i \in DOMAIN loans :
        \/ loans'[i] = loans[i]
        \/ /\ loans[i].status = "PENDING"
           /\ \E e \in Staff :
                loans'[i] = [loans[i] EXCEPT !.status = "ASSIGNED", !.assigned = e]
        \/ /\ loans[i].status = "ASSIGNED"
           /\ \E s \in {"APPROVED", "REJECTED"} :
                loans'[i] = [loans[i] EXCEPT !.status = s] ]_vars
=============================================================================
