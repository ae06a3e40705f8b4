\* Two connections, in one server or in two; calls fail, servers exit.
SPECIFICATION Spec
CONSTANTS
  t1 = t1  t2 = t2  server = server
  Threads = {t1, t2}
  Procs = {t1, t2, server}
  NoProc = NoProc
  Regimes <- BothRegimes
  MaxLines = 2
  MaxMessages = 3
  MaxRequests = 5
  MaxTrouble = 1
INVARIANTS TypeOK AckedIsKept MarkedIsShown ShownOnce
PROPERTIES FeedbackKept EveryRequestAnswered
CHECK_DEADLOCK FALSE
