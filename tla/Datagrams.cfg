CONSTANTS
  Check <- AllChecks
  Query <- Queries
  Answer <- Services
  Others <- Strangers
  Blind <- NoLook
  Answerable <- Answered
SPECIFICATION FairSpec
INVARIANTS IInv OkMeansAnswered HealthyIsOk
PROPERTIES Terminates
