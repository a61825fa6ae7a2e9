SPECIFICATION FairSpec
CONSTANTS
  co = co
  once = once
  r1 = r1
  r2 = r2
  NoRun = NoRun
  Jobs = {co, once}
  Once = {once}
  Coroutine = {co}
  Endless = {co}
  Runs = {r1, r2}
  MaxGen = 3
  MaxAdds = 1
  MaxReloads = 1
  MaxLives = 2
INVARIANTS
  GenerationsAreOwned
  StoppedIsQuiet
PROPERTIES
  StoppedStaysStopped
  OnceIsKept
  EveryTransitionEnds
CHECK_DEADLOCK FALSE
