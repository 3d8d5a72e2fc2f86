SPECIFICATION Spec
CONSTANTS
  UDN = {u1, u2}
  FORCEDDEVICE = FORCEDDEVICE
  Url = {a, b, r}
  Refused = {r}
  Creation = {c1, c2}
  MaxInputs = 3
  Null = Null
INVARIANT LifetimeCovered
INVARIANT ActiveTracked
INVARIANT CreationCovered
INVARIANT StaleSwitchHarmless
PROPERTY ImplementsDeviceDirectory
PROPERTY SilentDeviceReaped
CHECK_DEADLOCK FALSE
