\* An upgrade paid after the period it was quoted for.
SPECIFICATION Spec
CONSTANTS
  Attempts = {a1, a2}
  Periods = {p1}
  Checkouts = {c1}
  Workers = {w1}
  NoAttempt = NoAttempt
  MaxLookups = 1
  OperatorSeesSenders = TRUE
  LatePayment = TRUE
SYMMETRY Interchangeable
INVARIANTS
  ActivationNeverStuck
\* The attempts are bounded, so the system may run out of work.
CHECK_DEADLOCK FALSE
