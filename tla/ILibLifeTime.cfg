SPECIFICATION LTSpec
CONSTANTS
  Client = {c1}
  Chain = chain
  Data = {d1, d2}
  Delays = {0, 2}
  MaxWait = 99
  MaxAdds = 2
  MaxTime = 4
INVARIANT SleepsForSeen
PROPERTY ImplementsTimedCallbacks
PROPERTY AllSettle
PROPERTY StopEnds
CHECK_DEADLOCK FALSE
