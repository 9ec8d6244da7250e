SPECIFICATION Spec
CONSTANTS
  None = None
  Resources = {r1, r2}
  Capacity = 1
  Limit = 2
  MaxToken = 3
  MaxTags = 1
INVARIANTS
  RetirementReported
  NothingStays
  SiblingsAreTrue
PROPERTY
  LostForCause
SYMMETRY Symmetry
