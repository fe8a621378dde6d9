\* Two callers race in one process, which crashes and restarts from its state
\* directory; or one beside a process put together by a command.
SPECIFICATION SharedSpec
CONSTANTS
  agent = agent
  other = other
  c1 = c1
  c2 = c2
  c3 = c3
  Procs = {agent, other}
  Callers = {c1, c2, c3}
  OwnerOf <- SharedOwner
  Calls = {"StartLive", "StartPaper", "StopAll", "EmergencyStop"}
  Drifts = {}
  Commands = {other}
INVARIANTS LiveWasPermitted ActiveOnlyOnRequest
SYMMETRY CallerSymmetry
