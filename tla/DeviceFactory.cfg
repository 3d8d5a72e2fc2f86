SPECIFICATION Spec
CONSTANTS
  s1 = s1
  s2 = s2
  s3 = s3
  s4 = s4
  NoUrl = NoUrl
  Tree <- MCTree
INVARIANT DeliveredComplete
PROPERTY ImplementsDeviceCreation
PROPERTY EventuallyReported
\* A creation ends: nothing runs once every request is answered.
CHECK_DEADLOCK FALSE
