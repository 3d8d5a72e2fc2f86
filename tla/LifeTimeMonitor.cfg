SPECIFICATION Spec
CONSTANTS
  Key = {k1, k2}
  Thread = {t1, t2}
  Worker = {w1, w2}
  MaxDelay = 2
  MaxCalls = 3
  Prompt = FALSE
  Null = Null
INVARIANT NoLostWakeup
PROPERTY ImplementsLifeTimeClock
PROPERTY LeftKeysExpire
CHECK_DEADLOCK FALSE
