CONSTANTS
  Documents <- MCDocuments
  Calls <- MCCalls
  Digits = {"7"}
SPECIFICATION Spec
INVARIANTS UniqueKeyFound FoundIsThere
