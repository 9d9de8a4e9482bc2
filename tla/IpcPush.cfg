SPECIFICATION IpcFairSpec
CONSTANTS
  None = None
  Clients = {c1}
  Signals = {s1}
  Registered = {s1}
  IPs = {ip1}
  Uids = {1000}
  AskedRoles = {"Engineer"}
  Capacity = 2
  MaxCalls = 2
PROPERTIES
  SubscribedPushed
CHECK_DEADLOCK FALSE
