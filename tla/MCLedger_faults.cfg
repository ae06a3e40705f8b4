\* Two servers, one connection each; system calls fail and servers exit.
SPECIFICATION FairSpec
CONSTANTS
  t1 = t1  t2 = t2  a1 = a1  a2 = a2  x = x
  Threads = {t1, t2}
  Procs = {t1, t2}
  NoProc = NoProc
  ProcOf <- SeparateProcesses
  Accounts = {a1, a2}
  Strangers = {x}
  Bank = Bank
  Amounts <- SomeAmounts
  Opening <- TwoEach
  StatusTargets = {a1, a2}
  Ops <- AllOps
  MaxRequests = 2
  MaxFaults = 2
  MaxExits = 1
INVARIANTS NoMoneyCreated HistoryExplainsBalance
PROPERTIES RefinesAtomic EveryRequestAnswered
CHECK_DEADLOCK FALSE
