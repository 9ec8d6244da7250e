SPECIFICATION Spec
INVARIANT ReportsAreTrue
