SPECIFICATION FairSpec
CONSTANTS
  s1 = s1
  s2 = s2
  w1 = w1
  w2 = w2
  r1 = r1
  r2 = r2
  NoOne = NoOne
  Workers = {w1}
  Runs = {r1, r2}
  Sales = {s1}
  MaxAsks = 1
  GiveUpAfter = 3
  Delays = {1, 2}
  Lease = 3
  ContendedDelay = 1
  Faults = {"commit"}
PROPERTIES EveryAskEnds AgreedReversalLands
