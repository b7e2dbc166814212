SPECIFICATION FairSpec
CONSTANTS
  Null = Null
  Publishers = {p1, p2}
  MaxEvents = 2
  BatchLimit = 2
  MaxFailures = 2
INVARIANTS
  TypeOK PublishedWasSent DuplicatesAreExcused LeasesHaveWorkers
PROPERTIES
  LeasesAreRespected PublishedIsFinal EventsArePublished
