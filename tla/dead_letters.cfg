SPECIFICATION FairSpec
CHECK_DEADLOCK FALSE
CONSTANTS
  m1 = m1
  m2 = m2
  m3 = m3
  s1 = s1
  s2 = s2
  Messages = {m1, m2, m3}
  Sources = {s1, s2}
  SourceOf <- TwoSources
  Plans = {p1}
  Appliers = {a1, a2}
  MaxFaults = 2
INVARIANTS NoWorkLost AppliedIsDisposed
PROPERTY LockEnds
