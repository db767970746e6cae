SPECIFICATION Spec
CONSTANTS
  x1 = x1
  x2 = x2
  x3 = x3
  c1 = c1
  c2 = c2
  free = free
  paid = paid
  other = other
  Transactions = {x1, x2, x3}
  Running = {"commit", "reversal", "correction", "import", "payment"}
  Customers = {c1, c2}
  TicketTypes = {1, 2}
  FreeTypes = {1}
  Sales = {free, paid, other}
  FreeSales = {free}
  ReversibleSales = {free, paid}
  ImportedSales = {other}
  Buyer <- BuyerOne
  TypesOf <- SaleTypes
  BuyersOfImports <- EitherOrder
  CartOrders <- AnyOrder
  MaxReseats = 2
INVARIANTS TypeOK NoOtherDeadlock
SYMMETRY TransactionSymmetry
