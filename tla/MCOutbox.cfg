SPECIFICATION Spec
CONSTANTS
  event = event
  handler = handler
  notice = notice
  c1 = c1
  c2 = c2
  tEvent = tEvent
  tHandler = tHandler
  None = None
  Keys <- mcKeys
  Topics <- mcTopics
  TopicOf <- mcTopicOf
  Cmds = {c1}
  Effects <- mcEffects
  Direct = {event}
  Children <- mcChildren
  Flights = {f1, f2}
  MaxInflight = 2
  Limit = 2
  MaxAttempts = 2
  MaxRestarts = 1
INVARIANTS
  TypeOK
  AttemptsAreFences
  RecoveryIsSerialPerTopic
  DrainedIsQuiet
PROPERTIES
  FanoutIsFrozen
