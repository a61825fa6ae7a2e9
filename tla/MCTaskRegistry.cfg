SPECIFICATION FairSpec
CONSTANTS
  s1 = s1
  s2 = s2
  l1 = l1
  NoSub = NoSub
  Subs = {s1, s2}
  Locals = {l1}
  Kept = {l1}
  Endless = {s2}
  MaxShutdowns = 2
INVARIANTS
  NeverClosedUnderATask
  ShutdownIsTruthful
PROPERTIES
  CallersAreServed
CHECK_DEADLOCK FALSE
