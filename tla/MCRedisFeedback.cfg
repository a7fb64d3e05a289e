SPECIFICATION Spec
SYMMETRY Symmetry
CONSTANTS
  MaxEntries = 3
  Collectors = {c1, c2}
  Limits = {1, 2}
INVARIANTS
  OlderPopsFirst
  RepeatsBounded
  LossBounded
