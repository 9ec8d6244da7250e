SPECIFICATION SuiteSpec
CONSTANTS
  CommandCapacity = 1
  Burst = 2
  MaxOutput = 2
  MaxInput = 1
  Checked = TRUE
  None = None
  h1 = h1
  k1 = k1
  k2 = k2
  u1 = u1
  v1 = v1
  reader = reader
  writer = writer
  j1 = j1
  j2 = j2
INVARIANTS
  RevocationLands
  OutcomesAreTrue
PROPERTIES
  ImplementsChannel
  DueIsTried
  TasksEnd
