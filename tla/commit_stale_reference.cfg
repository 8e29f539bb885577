SPECIFICATION Spec
CONSTANTS
  k1 = k1  s1 = s1  s2 = s2  j1 = j1  o1 = o1  o2 = o2  a = a  b = b  c = c
  Keys = {k1}
  Sources = {s1, s2}
  Jobs = {j1, o1, o2}
  Runs = {a, b}
  Canonical <- OneKey
  Own <- OwnFirst
  KeysSeen <- Confirmed
  Sights = {"open", "closed"}
  Judgements = {"eligible"}
  Managed = {s1, s2}
  Trusted = {}
  Official = {s1}
  Kind <- TwoPolls
  MaxAttempts = 2
  MaxTime = 3
INVARIANTS
  JobsAgreeWithOccurrences
