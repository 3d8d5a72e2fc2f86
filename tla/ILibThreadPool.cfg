SPECIFICATION Spec
CONSTANTS
  Worker = {w1, w2, w3}
  Item = {i1, i2, i3}
  NoItem = NoItem
INVARIANT PostPerItem
INVARIANT CountedHaveLeft
PROPERTY ImplementsExecutor
PROPERTY QueuedIsTaken
PROPERTY DestroyReturns
CHECK_DEADLOCK FALSE
