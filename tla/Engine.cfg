\* One or two workers beside a user that resumes and a caller that stops, or beside
\* two callers that stop, shut down and do so again. The system stops when it was
\* stopped, and when it crashed.
SPECIFICATION EngineSpec
CONSTANTS
  u1 = u1
  c1 = c1
  c2 = c2
  o1 = o1
  Teams = {{"ntp"}, {"stream"}, {"listener", "reconciliation"}}
  Users = {u1}
  Callers = {c1, c2}
  UserModes = {"idle", "live"}
  Capacity = 1
  Tolerance = 2
  Orders = {o1}
INVARIANTS HaltsWhenItMust CleanShutdown
PROPERTY CallsReturn
CHECK_DEADLOCK FALSE
