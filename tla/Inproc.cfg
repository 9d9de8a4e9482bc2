SPECIFICATION InprocSpec
CONSTANTS
  Setters = {s1}
  Queuers = {q1,q2}
  MaxCalls = 2
  None = None
  Policies = {"DropOldest","DropNewest","Backpressure"}
  Depth = 2
  MaxStreamRetries = 2
  MaxWrites = 5
  Publishers = {p1,p2}
  MaxPublishes = 3
  MaxSubs = 2
  Calls = {r1,r2}
  MaxVersion = 2
  Masters = {m1,m2}
  MaxStarts = 2
  Devices = {"modbus","hart"}
  Scenarios <- MCScenarios
  Mapped <- MCMapped
  Published <- MCPublished
  MaxConnects = 2
  MaxQueries = 2
  MaxUpdates = 1
  MaxStops = 1
  Nobody = Nobody
INVARIANTS
  DeliveredInOrder
  SubscriberSeesAll
  QosFifo
  PushAgreesWithPull
  MastersToldTruth
  StopHolds
PROPERTIES
  RunAdmitsOnlyInFlight
  CallAnswered
CHECK_DEADLOCK FALSE
