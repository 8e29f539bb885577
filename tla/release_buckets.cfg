SPECIFICATION FairSpec
CONSTANTS
  j1 = j1  j2 = j2  u1 = u1  u2 = u2  r1 = r1  r2 = r2
  Jobs = {j1, j2}
  Users = {u1, u2}
  Runs = {r1, r2}
  Created <- Together
  Filters <- BothAndSecond
  NewFilters <- FirstAndSecond
  Window = 1
  Attempts = 2
  MaxReceives = 2
  MaxCrashes = 1
  MaxEdits = 1
INVARIANTS
  FlushSeesAll
  ProcessedIsPublished
PROPERTIES
  NoSilentLoss
CHECK_DEADLOCK FALSE
