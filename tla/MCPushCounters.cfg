SPECIFICATION Spec
CONSTANTS
  Messages = {m1, m2}
  Contents <- MCContents
  MaxFaults = 2
INVARIANTS
  SuccessesCounted
