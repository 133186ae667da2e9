CONSTANTS
  Parsers <- ParserOf
  Lines <- MCLines
  Readings <- MCReadings
  Numbers <- MCNumbers
SPECIFICATION Spec
INVARIANTS MeansWhatItSays AbortedByGarbageOnly CriticalHonoured AlarmHasReason DiskCovers
