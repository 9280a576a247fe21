SPECIFICATION VerSpec
CONSTANTS
  MaxVerified = 2
  MaxShifts = 1
INVARIANTS
  EmptyIsNotPass
CHECK_DEADLOCK FALSE
