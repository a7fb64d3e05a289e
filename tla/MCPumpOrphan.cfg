SPECIFICATION FairSpec
CONSTANTS
  m1 = m1
  m2 = m2
  toA = toA
  Messages <- MCOne
  Keys = {toA}
  KeyOf <- MCKeyOfOne
  RateMax = 1
  RatePer = 1
  Workers = {w1, w2}
  Configs <- MCOrphanConfigs
  Nil = Nil
PROPERTIES
  SquashedIsSent
