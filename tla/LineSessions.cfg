CONSTANTS
  Check <- LineChecks
  First <- FirstStage
  Script <- Scripts
  LeadOnly <- FirstByteOnly
  Greeting <- ServerGreeting
  Answer <- ServerAnswer
  Byte <- OneByte
  Text = "text"
  End = "end"
  Tagged <- TaggedChecks
  Gate <- GateStage
  Key <- KeyAtoms
  Before <- StagesBefore
  Stepwise <- StepwiseChecks
  Mark <- MarkAtoms
  Login <- LoginChecks
  Answerable <- AnswerableChecks
  InPieces <- InPiecesChecks
SPECIFICATION FairSpec
INVARIANTS LineInv OkMeansGranted HealthyIsOk ExitsWithStatus
PROPERTIES ImplementsSafely InStep Terminates
