SPECIFICATION Spec
CONSTANTS
  s1 = s1  r1 = r1  r2 = r2
  Sessions = {s1}
  Plans = {"blank", "full", "short"}
  Blank = "blank"
  Incomplete = {"short"}
  Requests = {r1, r2}
  MaxMessages <- FewEvents
SYMMETRY Interchangeable
CHECK_DEADLOCK FALSE
INVARIANTS SubmittedAsApproved OneBearer
PROPERTY SessionsKeepPromise
