\* An admin goes through his menu.
SPECIFICATION Spec
CONSTANTS
  Roles = {"admin"}
  MaxRequests = 2
  MaxShorts = 0
INVARIANT ChoiceReachesHandler
CHECK_DEADLOCK FALSE
