CONSTANTS
  Calls <- MCCalls
  Verdicts = {"ALLOW", "BLOCK", "MASK"}
  MaxLines = 4
SPECIFICATION FairSpec
INVARIANTS
  RefusedIsNotSent
  MaskReachesProvider
  RestSurvivesMask
  OneMasterKey
  AuditIsTrue
  NothingLost
PROPERTIES
  Relayed
  EveryRequestEnds
CHECK_DEADLOCK FALSE
