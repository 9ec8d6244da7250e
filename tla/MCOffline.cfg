SPECIFICATION SuiteSpec
CONSTANTS
  p1 = p1
  s1 = s1
  s2 = s2
  Senders = {p1}
  Sessions = {s1, s2}
  NoTask = NoTask
  MaxMessages = 3
  Quota = 2
  Capacity = 1
  MaxDeletions = 1
INVARIANTS
  KeptUntilFlushed
  SenderOrder
  NothingStranded
SYMMETRY Symmetry
