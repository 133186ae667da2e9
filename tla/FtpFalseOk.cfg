CONSTANTS
  Check <- FtpCheck
  First <- FirstStage
  Script <- Scripts
  LeadOnly <- FirstByteOnly
  Greeting <- ServerGreeting
  Answer <- ServerAnswer
  Byte <- OneByte
  Text = "text"
  End = "end"
  Tagged <- NoCheck
  Gate <- GateStage
  Key <- KeyAtoms
  Before <- StagesBefore
  Stepwise <- NoCheck
  Mark <- MarkAtoms
  Login <- NoCheck
  Answerable <- FtpCheck
  InPieces <- FtpCheck
SPECIFICATION FairSpec
INVARIANTS OkAlwaysGranted
