CONSTANTS
  p1 = p1
  h1 = h1
  Proc <- OneProcess
  Host <- OneHost
  Target <- ToOne
  Options <- WithLimits
SPECIFICATION FairSpec
INVARIANTS LossNotUnderstated PromptIsOk RttIsOwn
PROPERTIES Implements
