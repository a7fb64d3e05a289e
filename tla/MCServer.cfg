SPECIFICATION FairSpec
CONSTANTS
  s1 = s1
  s2 = s2
  r1 = r1
  r2 = r2
  r3 = r3
  Services <- MCServices
  Squashing <- MCSquashing
  Requests <- MCRequests
  Target <- MCTarget
  Collectors = {c1, c2}
  Limit = 1
  Nil = Nil
INVARIANTS
  TypeOK
  NoPushIntoClosedQueue
  CleanExit
  FeedbackOnce
PROPERTIES
  ShutdownEnds
  NoFailureAfterInterrupt
  ImplementsPumpContract
