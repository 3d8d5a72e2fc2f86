SPECIFICATION Spec
CONSTANT Thread = {t1, t2, t3, t4}
INVARIANT OneBaton
INVARIANT ExitLockStable
PROPERTY ImplementsReaderWriter
PROPERTY BlockedServed
CHECK_DEADLOCK FALSE
