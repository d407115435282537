\* Two unpaid periods and a checkout: renewals, recovery of both debts at once, upgrades.
SPECIFICATION Spec
CONSTANTS
  Attempts = {a1, a2}
  Periods = {p1, p2}
  Checkouts = {c1}
  Workers = {w1, w2}
  NoAttempt = NoAttempt
  MaxLookups = 0
  OperatorSeesSenders = TRUE
  LatePayment = FALSE
SYMMETRY Interchangeable
INVARIANTS
  TypeOK
  PaidAtMostOnce
  PayablePageIsAlone
  ActivationNeverStuck
  PaidIsNeverReleased
  ReservationsAgree
  CompletionPair
  SubmittedOnce
  ReceiptForRealMoney
PROPERTIES
  FinalVerdicts
  ActivationIsPaid
  LedgerSpec
\* The attempts are bounded, so the system may run out of work.
CHECK_DEADLOCK FALSE
