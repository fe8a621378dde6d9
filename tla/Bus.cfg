\* Two publishers, of three and of one event, on a subscription with a channel of
\* one event and either QoS; or the first of them on two subscriptions. The system
\* stops when every call has been made.
SPECIFICATION BusSpec
CONSTANTS
  p1 = p1
  p2 = p2
  s1 = s1
  s2 = s2
  Pubs = {p1, p2}
  Subs = {s1, s2}
  Capacity = 1
  MaxPublish = 3
  Publishes <- ThreeAndOne
INVARIANTS DeliveredInOrder AcceptedIsDelivered
PROPERTY CallsReturn
CHECK_DEADLOCK FALSE
