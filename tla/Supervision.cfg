SPECIFICATION SupervisionSpec
CONSTANTS
  Children = {c1,c2}
  MaxRetries = 2
  Window = 3
  Timeout = 1
  MaxTime = 6
  NSupervised = 2
  AgentRetries = 2
INVARIANTS
  RestartRate
  NoOrphan
  ExitLeavesNone
PROPERTIES
  SupervisorSpec
  ShutdownEnds
  AgentEnds
CHECK_DEADLOCK FALSE
