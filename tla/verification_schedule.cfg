SPECIFICATION FromOnePage
CONSTANTS
  Occurrences = {o1}
  Urls = {u1, u2}
  BatchSize = 2
  MaxReceives = 2
  MaxMessages = 2
  MaxEvents = 1
INVARIANTS TypeOK RetryOwnsLease
PROPERTIES RevisitedForMetadata  RedirectedIsVisited
