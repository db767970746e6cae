SPECIFICATION Spec
CONSTANTS
  s1 = s1
  s2 = s2
  w1 = w1
  w2 = w2
  r1 = r1
  r2 = r2
  NoOne = NoOne
  Workers = {w1}
  Runs = {r1}
  Sales = {s1}
  MaxAsks = 1
  GiveUpAfter = 2
  Delays = {1}
  Lease = 2
  ContendedDelay = 1
  Faults = {}
PROPERTY SettledIsNeverHandedOver
