SPECIFICATION Spec
CONSTANTS
  Workers = {w1}
  Calendar <- MCCalendar
  Purchased = 4
  Horizon = 9
  RetryDelay <- MCRetryDelay
  MaxReleases = 1
  Never = Never
PROPERTIES
  NewlyDueRemainsDebt
CHECK_DEADLOCK FALSE
