\* One process, one caller: the TUI, whose Update loop issues one call at a time.
SPECIFICATION Spec
CONSTANTS
  agent = agent
  other = other
  c1 = c1
  c2 = c2
  c3 = c3
  Procs = {agent}
  Callers = {c1}
  OwnerOf <- SerialOwner
  Calls = {"StartScan", "StartPaper", "StartLive", "QueueBacktest", "StopAll", "EmergencyStop"}
  Drifts = {0, 501}
  Commands = {}
INVARIANTS ModeAgreement AckedStopHolds
PROPERTY ImplementsControl
