SPECIFICATION Spec
CONSTANTS
  t1 = t1
  t2 = t2
  buyer = buyer
  a1 = a1
  a2 = a2
  s1 = s1
  s2 = s2
  k1 = k1
  w1 = w1
  w2 = w2
  o1 = o1
  q1 = q1
  NoOne = NoOne
  Tickets = {t1}
  Addresses = {buyer, a1}
  SoldTo = buyer
  Savers = {s1, s2}
  Clickers = {k1}
  Sweepers = {w1, w2}
  Operators = {o1}
  Openers = {q1}
  Records = {1, 2}
  PerTicket = 1
  NamedTickets = TRUE
  MaxAssignments = 2
  MaxLost = 1
INVARIANTS TypeOK HolderProvedTheAddress LedgerTellsTheSends OneMailPerAssignment RationHoldsWithoutARace OnlyHoldersAreTold
PROPERTIES AcceptanceHasItsLink OnlyALiveSaleMoves
SYMMETRY SeatSymmetry
CHECK_DEADLOCK FALSE
