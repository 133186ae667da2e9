CONSTANTS
  Check <- LoopChecks
  First <- FirstExchange
  Script <- Scripts
  Answer <- ServerAnswer
  Closing <- ClosingServers
  Untimed <- NoTimeout
  Secure <- TlsChecks
  RecordEnd <- HeadersEnd
  Byte <- OneByte
  Keyed <- KeyedChecks
  Key <- KeyAtoms
  Sure <- AfterKey
  Whole <- WholeChecks
  Absence <- Absent
  Answerable <- AnswerableChecks
  Hasty <- RedisChecks
SPECIFICATION FairSpec
INVARIANTS LoopInv OkMeansGranted WholeReply HealthyIsOk
PROPERTIES ImplementsSafely Terminates
