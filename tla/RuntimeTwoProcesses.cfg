\* The TUI process and an emergency-stop command on the same state directory.
SPECIFICATION Spec
CONSTANTS
  agent = agent
  other = other
  c1 = c1
  c2 = c2
  c3 = c3
  Procs = {agent, other}
  Callers = {c1, c3}
  OwnerOf <- TwoProcsOwner
  Calls = {"StartLive", "EmergencyStop"}
  Drifts = {}
  Commands = {}
INVARIANT NoOpenGateAfterStop
