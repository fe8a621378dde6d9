\* One goroutine submits: a sweep finds a filled order missing from the open ones.
SPECIFICATION Spec
CONSTANTS
  o1 = o1
  o2 = o2
  w1 = w1
  w2 = w2
  Orders = {o1}
  Workers = {w1, w2}
  Submitters <- OneSubmitter
  Cancelers <- OtherCancels
  MaxSends = 2
  MaxReverts = 1
  MaxCrashes = 1
INVARIANT CanceledRowsAreCanceled
