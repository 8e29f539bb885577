SPECIFICATION FairSpec
CONSTANTS
  u1 = u1  u2 = u2  t1 = t1  j1 = j1  j2 = j2  p1 = p1  p2 = p2  a = a  b = b
  Users = {u1, u2}
  Tokens = {t1}
  Jobs = {j1}
  Postings = {p1}
  Runs = {a, b}
  DedupeKey <- Alone
  Matches <- Everything
  Kind <- DrainAndProvider
  Cohort = {u1}
  Legacy <- Nothing
  Replies = {"accepted", "busy", "lost"}
  Calls = {"unregister", "requeue"}
  MaxAttempts = 2
  MaxJobsPerRun = 1
  MaxCalls = 2
  MaxCrashes = 1
PROPERTIES
  LedgerSpec
  MarkerDrained
  RetrySettles
