\* Four calls at four times, each up to two ticks on its way to Redis.
SPECIFICATION DistinctTimesSpec
CONSTANTS
  Calls = {c1, c2, c3, c4}
  Limit = 2
  Window = 3
  Grace = 1
  MaxDelay = 2
  MaxTime = 4
INVARIANTS
  AnyWindowHoldsLimit
CHECK_DEADLOCK FALSE
