SPECIFICATION ApartSpec
CONSTANTS
  Subs = {a, b}
  Workers = {k1, k2}
  None = None
  TrialDays = 1
  GraceDays = 1
  MaxTime = 2
  MaxChanges = 3
  MaxFailures = 1
INVARIANTS
  AccessFollowsPayment
PROPERTIES
  OneActivation
  OverdueIsSuspended
  EventsAcknowledged
\* Time stands at its bound, every event is acknowledged: nothing is left to do.
CHECK_DEADLOCK FALSE
