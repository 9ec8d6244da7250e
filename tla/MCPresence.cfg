SPECIFICATION Spec
CONSTANTS
  Accounts = {a1, a2}
  MaxWorks = 4
  MaxSessions = 2
INVARIANTS
  ScreensAreTrue
  RevokedIsHidden
SYMMETRY Symmetry
