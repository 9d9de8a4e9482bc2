SPECIFICATION MenuSpec
CONSTANTS
  None = None
  c1 = c1
  c2 = c2
  Clients = {c1,c2}
  Signals = {s1}
  Registered = {s1}
  IPs = {ip1}
  Uids = {1000,1001}
  AskedRoles = {"Engineer","Operator","Hmi"}
  Capacity = 2
  MaxCalls = 3
INVARIANTS
  AnswersInOrder
  PushesSubscribed
PROPERTIES
  Authority
  RequestHandled
  CycleReturns
CHECK_DEADLOCK FALSE
