SPECIFICATION SuiteSpec
CONSTANTS
  Pairs = {p1, p2}
  Streams = {s1, s2}
  None = None
  MaxLinks = 1
  MaxQueued = 2
  MaxStanzas = 3
  MaxQueues = 3
  NoDomain = NoDomain
  c1 = c1
  c2 = c2
  i1 = i1
  i2 = i2
  l1 = l1
  l2 = l2
  r1 = r1
  r2 = r2
INVARIANTS
  LinksAreServed
  OneFate
  WithinLimits
  InboundIsSound
  ResolvedRight
SYMMETRY Symmetry
