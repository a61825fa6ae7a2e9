SPECIFICATION FairSpec
CONSTANTS
  e1 = e1
  e2 = e2
  hSync = hSync
  hAsync = hAsync
  NoEvent = NoEvent
  Events = {e1, e2}
  Priority <- mcPriority
  Sync = {hSync}
  Async = {hAsync}
  Stopping <- mcStopping
  MaxStarts = 2
INVARIANTS
  BarriersHold
PROPERTIES
  WaitingSurvive
  EveryStopReturns
  EveryEventIsTaken
CHECK_DEADLOCK FALSE
