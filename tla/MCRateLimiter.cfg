SPECIFICATION FairSpec
CONSTANTS
  a1 = a1
  a2 = a2
  a3 = a3
  b1 = b1
  toA = toA
  toB = toB
  Messages <- MCMessages
  Keys <- MCKeys
  KeyOf <- MCKeyOf
  RateMax = 1
  RatePer = 1
INVARIANTS
  RateBound
  OnePlace
PROPERTIES
  SquashedIsSent
