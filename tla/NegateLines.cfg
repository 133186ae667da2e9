CONSTANT CommandLines <- AllLines
SPECIFICATION NegateSpec
INVARIANTS NegationFaithful AbnormalIsUnknown
PROPERTIES Terminates
