SPECIFICATION Spec
CONSTANTS
  u1 = u1  u2 = u2  t1 = t1  j1 = j1  j2 = j2  p1 = p1  p2 = p2  a = a  b = b
  Users = {u1, u2}
  Tokens = {t1}
  Jobs = {j1, j2}
  Postings = {p1}
  Runs = {a, b}
  DedupeKey <- Twins
  Matches <- Everything
  Kind <- Providers
  Cohort = {}
  Legacy <- Nothing
  Replies = {"accepted", "unticketed", "rejected", "gone", "busy", "refused", "lost"}
  Calls = {"register", "alerts", "delete", "purge"}
  MaxAttempts = 2
  MaxJobsPerRun = 1
  MaxCalls = 2
  MaxCrashes = 1
SYMMETRY Interchangeable
INVARIANTS
  AtMostOnePush
  NoRowsAfterPurge
  OneOwnerPerToken
PROPERTIES
  UnknownNotResent
