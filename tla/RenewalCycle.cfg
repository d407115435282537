SPECIFICATION FairSpec
CONSTANTS
  Workers = {w1, w2}
  Calendar <- MCCalendar
  Purchased = 4
  Horizon = 8
  RetryDelay <- MCRetryDelay
  MaxReleases = 1
  Never = Never
INVARIANTS
  DebtsHaveNoGaps
PROPERTIES
  ServiceSpec
  TriesAreSpaced
  CanceledOwesNothingNew
  SettledIsApplied
CHECK_DEADLOCK FALSE
