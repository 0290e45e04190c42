SPECIFICATION Spec
CONSTANTS
  MaxTicks = 3
  PerMonth = 2
  MaxRows = 0
  Faults = {"write"}
  MaxFaults = 1
INVARIANTS
  RetryLosesNothing
CHECK_DEADLOCK FALSE
