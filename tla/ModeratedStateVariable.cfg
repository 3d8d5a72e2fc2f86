SPECIFICATION Spec
CONSTANTS
  Writer = {w1, w2}
  MaxCalls = 6
  Sink = Sink
  None = None
CHECK_DEADLOCK FALSE
INVARIANT OnePeriod
INVARIANT NothingLost
INVARIANT BoundedRate
PROPERTY PeriodEndsIfAllowed
