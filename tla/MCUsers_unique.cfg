\* Two additions at once, served by processes whose locks exclude each other.
SPECIFICATION Spec
CONSTANTS
  t1 = t1  t2 = t2  server = server
  Threads = {t1, t2}
  Procs = {t1, t2, server}
  NoProc = NoProc
  Regimes <- Separately
  BootUsers <- TwoUsers
  None = "none"
  Names = {"n"}
  Contacts = {"c", "m"}
  Passwords = {"p", "q"}
  Ops <- Adding
  MaxUsers = 4
  MaxEvents = 2
SYMMETRY AnyThread
INVARIANT NewUserIsNew
CHECK_DEADLOCK FALSE
