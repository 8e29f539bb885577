SPECIFICATION Spec
CONSTANTS
  k1 = k1  s1 = s1  s2 = s2  j1 = j1  o1 = o1  o2 = o2  a = a  b = b  c = c
  Keys = {k1}
  Sources = {s1, s2}
  Jobs = {j1, o1, o2}
  Runs = {a, b, c}
  Canonical <- OneKey
  Own <- OwnFirst
  KeysSeen <- Confirmed
  Sights = {"open", "closed", "filtered", "missing"}
  Judgements = {"eligible", "held", "gone"}
  Managed = {s1, s2}
  Trusted = {s2}
  Official = {s1}
  Kind <- PollVerifyMark
  MaxAttempts = 2
  MaxTime = 3
INVARIANTS
  PendingHasEvent
PROPERTIES
  EventWithAlertableJob
