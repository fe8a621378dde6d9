\* A breaker with more callers than probes; short queues with more items than places and two closers.
SPECIFICATION ConcurrencySpec
CONSTANTS
  Goroutines = {g1, g2, g3}  MaxRequests = 2  TripAfter = 2
  j1 = j1  j2 = j2  j3 = j3  j4 = j4
  Jobs = {j1, j2, j3, j4}  IdOf <- MCId  ClassOf <- MCClass  Classes = {"live"}
  JobWorkers = {w1, w2}  PoolOf <- MCPool  QueueSize = 2  Stoppers = {s1, s2}
  Records = {r1, r2}  BufferSize = 1  Closers = {s1, s2}  MaxCritical = 1
  Happenings = {e1, e2}  QoSOf <- MCQoS  MaxRetries = 1  AsyncBuffer = 1
  Updates = {r1, r2, e1, e2}  RelayBuffer = 1
INVARIANTS ProbesBounded ActiveJobsAreActive CloseLeavesNothing DeliveredByQoS
PROPERTIES DecidedByProbes HalfOpenDecidesOrLeaks QueuesImplementWorkQueue QueuesSettle
CHECK_DEADLOCK FALSE
