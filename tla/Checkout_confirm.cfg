SPECIFICATION Spec
CONSTANTS
  p1 = p1
  p2 = p2
  p3 = p3
  i1 = i1
  i2 = i2
  c1 = c1
  c2 = c2
  t1 = t1
  t2 = t2
  k1 = k1
  k2 = k2
  NoSale = NoSale
  Payments = {p1}
  Imports = {i1, i2}
  Customers = {c1, c2}
  TicketTypes = {t1, t2}
  FreeTypes = {t2}
  Rationed = {t1}
  PurchaseLimit <- LimitTwo
  Buyer <- OneBuyer
  Calls = {k1, k2}
  MaxQuantity = 2
  InitialCapacity <- CapacityTwo
  Capacities = {1, 2}
  HoldWindow = 1
  MaxTime = 1
  TicketAssignment = FALSE
  Faults = {"commit", "lostAck", "mark", "crash"}
INVARIANTS TypeOK SoldCountMatchesTickets SaleIsPaidFor AnswersAreTrue
PROPERTY ImplementsPaymentOutcome
SYMMETRY ConfirmSymmetry
