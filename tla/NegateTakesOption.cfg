CONSTANT CommandLines <- AllLines
SPECIFICATION NegateSpec
INVARIANTS CommandArgsPassed
