SPECIFICATION FairSpec
CONSTANTS
  Messages = {m1, m2}
  Contents <- MCContents
  MaxFaults = 2
INVARIANTS
  TwiceOnlyIfUnsure
  LossExplained
  ReportedOnce
  SuccessesTrue
PROPERTIES
  SettledInTheEnd
