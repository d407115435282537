\* The same instance, with finalizations that overlap requests, each other and the operator.
SPECIFICATION Spec
CONSTANTS
  Handlers = {h1, h2}
  MaxAttempts = 2
  Typed = Typed
  NoNumber = NoNumber
  FinalizedAlone = FALSE
PROPERTY NumberKept
