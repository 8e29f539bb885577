SPECIFICATION FairSpec
CONSTANTS
  N = 4
  Refreshes = {"cron", "operator"}
  Cron = "cron"
  Versions = {"v1", "v2", "v3", "v4", "v5"}
  ReadPage = 2
  Batch = 3
  Changing = {2}
  Filters = {{1, 4}, {1, 2, 3, 4}}
  MaxChanges = 1
INVARIANTS CurrentIsWhole NoTornPage PagesExact
PROPERTY CatchesUp
