SPECIFICATION FairSpec
CONSTANTS
  Messages = {m1, m2, m3}
  Consumers = {c1, c2}
  Nil = Nil
INVARIANTS
  TypeOK
  SlotOwnership
  SoleHolder
  PendingIsHeld
  NoLostWakeup
PROPERTIES
  ShutdownReleasesAll
  EveryMessageTaken
  ImplementsWorkQueue
