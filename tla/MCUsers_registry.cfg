\* Two connections, in one server or in two; calls fail, servers exit.
SPECIFICATION Spec
CONSTANTS
  t1 = t1  t2 = t2  server = server
  Threads = {t1, t2}
  Procs = {t1, t2, server}
  NoProc = NoProc
  Regimes <- BothRegimes
  BootUsers <- TwoUsers
  None = "none"
  Names = {"n"}
  Contacts = {"c", "m"}
  Passwords = {"p", "q"}
  Ops <- Routed
  MaxUsers = 4
  MaxEvents = 3
SYMMETRY AnyThread
INVARIANTS TypeOK UniqueUnlessRaced IdsArePositions PasswordAsTyped OneAccountEach
PROPERTIES IdentityKept BalanceKept
CHECK_DEADLOCK FALSE
