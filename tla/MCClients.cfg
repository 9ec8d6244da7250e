SPECIFICATION SuiteSpec
CONSTANTS
  MaxSessions = 3
  MaxSends = 5
  None = None
  c1 = c1
  c2 = c2
  i1 = i1
  i2 = i2
  a1 = a1
  w1 = w1
  w2 = w2
  w3 = w3
  w4 = w4
  r1 = r1
  r2 = r2
INVARIANTS
  LoginsAreCurrent
  LoansExact
  OneAnswer
  ViewIsTrue
PROPERTY
  OutputStaysWhole
SYMMETRY Symmetry
