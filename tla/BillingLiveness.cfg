\* Every doubtful charge is resolved and every captured one booked, two threads racing.
SPECIFICATION FairSpec
CONSTANTS
  Attempts = {a1}
  Periods = {p1}
  Checkouts = {c1}
  Workers = {w1, w2}
  NoAttempt = NoAttempt
  MaxLookups = 1
  OperatorSeesSenders = TRUE
  LatePayment = FALSE
PROPERTIES
  UncertainIsResolved
  CapturedIsCompleted
\* The attempts are bounded, so the system may run out of work.
CHECK_DEADLOCK FALSE
