SPECIFICATION Spec
CONSTANTS
  p1 = p1
  p2 = p2
  p3 = p3
  i1 = i1
  i2 = i2
  c1 = c1
  c2 = c2
  t1 = t1
  t2 = t2
  k1 = k1
  k2 = k2
  NoSale = NoSale
  Payments = {p1, p2, p3}
  Imports = {}
  Customers = {c1, c2}
  TicketTypes = {t1, t2}
  FreeTypes = {t1}
  Rationed = {t1}
  PurchaseLimit <- LimitTwo
  Buyer <- TwoBuyers
  Calls = {k1}
  MaxQuantity = 1
  InitialCapacity <- CapacityTwo
  Capacities = {1}
  HoldWindow = 1
  MaxTime = 0
  TicketAssignment = TRUE
  Faults = {}
INVARIANTS ReplacementIsSound
PROPERTIES CommitLeavesHoldsWhole
SYMMETRY BuyerOneSymmetry
CHECK_DEADLOCK FALSE
