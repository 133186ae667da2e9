CONSTANTS
  r1 = r1
  r2 = r2
  Runs <- TwoRuns
  Checks <- Script
SPECIFICATION Spec
INVARIANTS HeaderFirst TempRemoved NoDuplicates
SYMMETRY SymmetricTwo
