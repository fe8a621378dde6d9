\* One order that two goroutines submit and one of them cancels; the rounds of the queries
\* come while the engine trades.
SPECIFICATION RoundsSpec
CONSTANTS
  o1 = o1
  o2 = o2
  w1 = w1
  w2 = w2
  Orders = {o1}
  Workers = {w1, w2}
  Submitters <- BothSubmit
  Cancelers <- OtherCancels
  MaxSends = 1
  MaxReverts = 1
  MaxCrashes = 1
PROPERTY RowsSettle
