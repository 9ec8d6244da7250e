SPECIFICATION SuiteSpec
CONSTANTS
  Accounts = {a1, a2, a3}
  MaxItems = 2
  MaxPending = 1
  c1 = c1
  c2 = c2
INVARIANTS
  CopiesAgree
  NothingInherited
  ConsentFirst
  WithinQuota
  CopiesAreTrue
  HalvesAgree
SYMMETRY Symmetry
