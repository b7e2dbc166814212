SPECIFICATION FairSpec
CONSTANTS
  Null = Null
  Messages = {1, 2}
  Groupings = {{{1, 2}}, {{1}, {2}}}
  Valid = {1}
  Instances = {i1, i2}
  BatchLimit = 2
  MaxReceiveCount = 2
  RedriveLimit = 2
  MaxFailures = 1
INVARIANTS
  TypeOK NothingIsLost DeadLettersAreEarned ExecutedAlone
  OneInstancePerGroup
PROPERTIES
  MessagesSettle
CHECK_DEADLOCK FALSE
