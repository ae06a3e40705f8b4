\* One server process, three connections: the server as it is built.
SPECIFICATION Spec
CONSTANTS
  t1 = t1  t2 = t2  t3 = t3  server = server  a1 = a1  a2 = a2
  Threads = {t1, t2, t3}
  Procs = {server}
  NoProc = NoProc
  ProcOf <- OneServer
  Accounts = {a1, a2}
  Strangers = {}
  Bank = Bank
  Amounts <- SomeAmounts
  Opening <- TwoEach
  StatusTargets = {a1}
  Ops <- CustomerOps
  MaxRequests = 3
  MaxFaults = 0
  MaxExits = 0
SYMMETRY AnyThread
INVARIANTS NoOverdraft TxnIdNeverAhead TransferInAfterOut
CHECK_DEADLOCK FALSE
