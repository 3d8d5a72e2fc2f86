SPECIFICATION Spec
CONSTANTS
  d1 = d1
  d2 = d2
  e1 = e1
  s1 = s1
  s2 = s2
  s3 = s3
  RootFilter = RootFilter
  DeviceFilter = DeviceFilter
  ServiceFilter = ServiceFilter
  Device <- MCDevice
  Unit <- MCUnit
  Service <- MCService
  Filter <- MCFilter
  Embedded <- MCEmbedded
  Services <- MCServices
  Passes <- MCPasses
  Begins <- MCPasses
  FilterChoices <- MCFilterChoices
  Attachable <- MCAttachable
CHECK_DEADLOCK FALSE
INVARIANT NothingMissed
INVARIANT HeardTwiceAtMost
PROPERTY EventuallyHeard
PROPERTY EventuallyGone
