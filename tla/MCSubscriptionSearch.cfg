SPECIFICATION Spec
CONSTANTS
  p1 = p1
  p2 = p2
  s1 = s1
  s2 = s2
  NoTask = NoTask
  Processes = {p1, p2}
  Subs = {s1, s2}
  Requests <- OneOrBoth
  MaxTasks = 2
  MaxPages = 1
  MaxSetbacks = 1
CHECK_DEADLOCK FALSE
INVARIANTS
  QueueIsConsistent
PROPERTIES
  EveryTaskEnds
