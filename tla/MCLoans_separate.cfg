\* Two servers over one ./db, one connection each; a call fails, a server exits.
SPECIFICATION Spec
CONSTANTS
  t1 = t1  t2 = t2  a1 = a1  x = x  e1 = e1  e2 = e2
  Threads = {t1, t2}
  Procs = {t1, t2}
  NoProc = NoProc
  ProcOf <- SeparateProcesses
  Accounts = {a1}
  Strangers = {x}
  Staff = {e1, e2}
  Employees = {e1, e2}
  Nobody = Nobody
  Bank = Bank
  Amounts <- SomeAmounts
  Opening <- NothingYet
  MaxLoans = 2
  MaxRequests = 4
  MaxChanges = 1
  MaxFaults = 1
  MaxExits = 1
SYMMETRY AnyThread
INVARIANTS TypeOK PaidAccounted LoanFoundById ApprovedOnlyIfPaid
PROPERTY Lifecycle
CHECK_DEADLOCK FALSE
