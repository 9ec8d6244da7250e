SPECIFICATION SuiteSpec
CONSTANTS
  None = None
  h1 = h1
  k1 = k1
  k2 = k2
  u1 = u1
  u2 = u2
  u3 = u3
  other = other
  v1 = v1
  v2 = v2
  l1 = l1
  l2 = l2
  l3 = l3
  l4 = l4
INVARIANTS
  RecordsAgree
  ListsReach
SYMMETRY Symmetry
