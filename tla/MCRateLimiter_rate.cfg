\* One task alone against the rate the policy names.
SPECIFICATION Spec
CONSTANTS
  a = a
  Consumers <- OneConsumer
  Rate = 1
  TicksPerSecond = 1
  MaxBytes = 2
  MaxTime = 6
INVARIANTS
  RateEnforced
CHECK_DEADLOCK FALSE
