SPECIFICATION FairSpec
CONSTANTS
  event = event
  handler = handler
  notice = notice
  c1 = c1
  c2 = c2
  tEvent = tEvent
  tHandler = tHandler
  None = None
  Keys <- raceKeys
  Topics <- raceTopics
  TopicOf <- raceTopicOf
  Cmds = {c1, c2}
  Effects <- raceEffects
  Direct = {notice}
  Children <- raceChildren
  Flights = {f1, f2}
  MaxInflight = 1
  Limit = 2
  MaxAttempts = 2
  MaxRestarts = 2
INVARIANTS
  LatestOwnerUndisturbed
  ReportedEffectsCompleted
PROPERTIES
  SettledIsFinal
  ImplementsDelivery
  EveryIntentSettles
