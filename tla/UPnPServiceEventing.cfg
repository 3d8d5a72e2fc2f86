SPECIFICATION Spec
CONSTANTS
  SID = {s1, s2}
  NoSID = NoSID
  Caller = {c1, c2}
  Timeouts = {0, 2}
  MaxCalls = 3
INVARIANT StaysSubscribed
INVARIANT CounterMeansSubscribed
PROPERTY LeftBehindLapses
CHECK_DEADLOCK FALSE
