SPECIFICATION FairSpec
CONSTANTS
  Messages = {m1, m2}
  Consumers = {c1, c2}
  Nil = Nil
  MaxDelay = 1
  MaxCrashes = 1
INVARIANTS
  TypeOK
  Custody
PROPERTIES
  BackoffGrows
  EveryMessageTaken
  CancelEndsConsumer
  ImplementsWorkQueue
