SPECIFICATION Spec
CONSTANTS
  x1 = x1
  x2 = x2
  x3 = x3
  c1 = c1
  c2 = c2
  free = free
  paid = paid
  other = other
  Transactions = {x1, x2}
  Running = {"reversal", "commit"}
  Customers = {c1, c2}
  TicketTypes = {1, 2}
  FreeTypes = {1}
  Sales = {free, other}
  FreeSales = {free}
  ReversibleSales = {free}
  ImportedSales = {}
  Buyer <- BuyerOne
  TypesOf <- SaleTypes
  BuyersOfImports <- OneBuyer
  CartOrders <- OneLine
  MaxReseats = 0
INVARIANT NoDeadlock
SYMMETRY TransactionSymmetry
