SPECIFICATION Spec
CONSTANTS
  s1 = s1
  b1 = b1
  b2 = b2
  a1 = a1
  a2 = a2
  o1 = o1
  o2 = o2
  Requests = {1, 2}
  Payouts = {1, 2, 3}
  NoPayout = 0
  NoRequest = 0
  Sales = {s1}
  Accounts = {b1, b2}
  Askers = {a1, a2}
  Operators = {o1, o2}
  NoOne = NoOne
  MaxAmount = 1
SYMMETRY QueueSymmetry
INVARIANTS
  TypeOK
  LedgerMatchesAnswers
  OneOutstanding
PROPERTIES
  EndedStands
  ClearedIsSafe
  RefusedAskKeepsProfile
