\* Two requests at a time about one invoice that is finalized alone, two attempts.
SPECIFICATION FairSpec
CONSTANTS
  Handlers = {h1, h2}
  MaxAttempts = 2
  Typed = Typed
  NoNumber = NoNumber
  FinalizedAlone = TRUE
INVARIANTS
  AcceptedOnce
  IssuedKnowingly
PROPERTIES
  InvoiceSpec
  AcceptedIsRecorded
