\* One server, two connections: is a record update isolated?
SPECIFICATION Spec
CONSTANTS
  t1 = t1  t2 = t2  server = server  a1 = a1  a2 = a2  x = x
  Threads = {t1, t2}
  Procs = {server}
  NoProc = NoProc
  ProcOf <- OneServer
  Accounts = {a1, a2}
  Strangers = {x}
  Bank = Bank
  Amounts <- SomeAmounts
  Opening <- TwoEach
  StatusTargets = {a1}
  Ops = {"TRANSFER"}
  MaxRequests = 2
  MaxFaults = 0
  MaxExits = 0
SYMMETRY AnyThread
INVARIANT UpdateIsolated
CHECK_DEADLOCK FALSE
