SPECIFICATION FairSpec
CONSTANTS
  m1 = m1
  m2 = m2
  toA = toA
  Messages <- MCTwo
  Keys = {toA}
  KeyOf <- MCKeyOfTwo
  RateMax = 1
  RatePer = 1
  Workers = {w1}
  Configs <- MCHangConfigs
  Nil = Nil
PROPERTIES
  ShutdownCompletes
