SPECIFICATION Spec
CONSTANTS
  buy = buy
  sell = sell
  c1 = c1
  c2 = c2
  Orders <- MCOrders
  Buys <- MCBuys
  Quantity <- MCQuantity
  LimitPrice <- MCLimitPrice
  Prices = {4}
  InitialBalance = 5
  MaxPaper = 3
  Callers <- MCCallers
  MaxInFlightOrders = 2
  TimeoutTicks = 0
  EnableIdempotency = TRUE
  MaxLive = 1
  MaxEvents = 2
SYMMETRY Symmetry
CHECK_DEADLOCK FALSE
INVARIANTS DuplicatesExplained NoLeak BooksBalance
PROPERTIES OneOutcome EntryKept
