SPECIFICATION FairControlSpec
CHECK_DEADLOCK FALSE
CONSTANTS
  Consumers = {c1, c2}
  Operators = {o1}
  Deliveries = 3
  Threshold = 2
  MaxCalls = 2
  MaxFaults = 2
INVARIANTS RowIsCoherent
PROPERTIES QuarantineEndsCleanly Heals
