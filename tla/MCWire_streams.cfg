\* A connection on which reads come up short; either side may go.
SPECIFICATION Spec
CONSTANTS
  Roles <- AllRoles
  MaxRequests = 3
  MaxShorts = 1
INVARIANTS TypeOK AtMostOnce AnsweredIsRun LagBounded ServerSurvives
PROPERTY EveryWaitEnds
CHECK_DEADLOCK FALSE
