\* The same breaker: an admitted call that returns without a verdict keeps its slot.
SPECIFICATION FairSpec
CONSTANTS
  g1 = g1
  g2 = g2
  g3 = g3
  Goroutines = {g1, g2, g3}
  MaxRequests = 2
  TripAfter = 2
PROPERTY HalfOpenDecides
