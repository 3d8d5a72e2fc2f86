SPECIFICATION DVSpec
CONSTANTS
  Subscriber = {s1, s2, s3}
  NoSubscriber = NoSubscriber
  MaxSubscribers = 2
  MaxSets = 1
INVARIANT CountMatches
INVARIANT ReferencesCounted
INVARIANT LastEventCurrent
PROPERTY UnlistedIsFreed
CHECK_DEADLOCK FALSE
