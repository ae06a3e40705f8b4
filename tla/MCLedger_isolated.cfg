\* Two servers over one ./db, one connection each; no failures.
SPECIFICATION Spec
CONSTANTS
  t1 = t1  t2 = t2  a1 = a1  a2 = a2  x = x
  Threads = {t1, t2}
  Procs = {t1, t2}
  NoProc = NoProc
  ProcOf <- SeparateProcesses
  Accounts = {a1, a2}
  Strangers = {x}
  Bank = Bank
  Amounts <- SomeAmounts
  Opening <- TwoEach
  StatusTargets = {a1, a2}
  Ops <- AllOps
  MaxRequests = 3
  MaxFaults = 0
  MaxExits = 0
SYMMETRY AnyThread
INVARIANTS TypeOK UpdateIsolated KeptOnlyIfFoiled TxnIdIsPosition
CHECK_DEADLOCK FALSE
