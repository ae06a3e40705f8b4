\* Two users, a slot for each; clients leave and the server restarts.
SPECIFICATION FairSpec
CONSTANTS
  c1 = c1  c2 = c2
  u1 = u1  u2 = u2  p1 = p1  p2 = p2
  Conns = {c1, c2}
  Users = {u1, u2}
  NoUser = NoUser
  RoleOf <- RolesOfTwo
  PasswordOf <- OwnPasswords
  Passwords = {p1, p2}
  Choices = {"customer", "employee"}
  Customers = {u1}
  MaxSessions = 2
  MaxLogins = 3
  MaxToggles = 1
  MaxExits = 1
INVARIANTS TypeOK OwnSlot SingleLogin
PROPERTIES OrphanOnlyByRelogin DisconnectFreesSlot
CHECK_DEADLOCK FALSE
