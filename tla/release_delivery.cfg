SPECIFICATION FairSpec
CONSTANTS
  Devices = {d1}
  Addresses = {a1, a2}
  Channels <- OneChannel
  Runs = {r1, r2}
  MaxChecks = 1
  MaxReceives = 2
  MaxFaults = 1
  d1 = d1
  a1 = a1
  a2 = a2
  r1 = r1
  r2 = r2
INVARIANTS
  SentOnce
  OnlyInactiveDevicesComeBack
  AcceptedIsWatched
PROPERTIES
  NeverReopened
  AcceptedSettles
CHECK_DEADLOCK FALSE
