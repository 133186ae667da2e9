CONSTANTS
  Jobs <- AllJobs
  Path <- Paths
  Parent <- Parents
  Name <- Names
  Trees <- MCTrees
  Fresh <- New
  Kept <- Stay
  MaxChanges = 3
SPECIFICATION Spec
INVARIANTS CountBetween VerdictFits
