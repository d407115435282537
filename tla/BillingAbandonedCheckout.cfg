\* An abandoned upgrade and an unpaid period.
SPECIFICATION Spec
CONSTANTS
  Attempts = {a1, a2}
  Periods = {p1}
  Checkouts = {c1}
  Workers = {w1}
  NoAttempt = NoAttempt
  MaxLookups = 1
  OperatorSeesSenders = TRUE
  LatePayment = TRUE
SYMMETRY Interchangeable
INVARIANTS
  DebtIsPayable
\* The attempts are bounded, so the system may run out of work.
CHECK_DEADLOCK FALSE
