SPECIFICATION ControlSpec
CONSTANTS
  Code <- MCCode
  Registry0 <- MCRegistry0
  Inputs <- MCInputs
  Alphabetical <- MCAlphabetical
  Ladders <- MCLadders
  LadderIns <- MCLadderIns
  PT = 5
  PV = 2
  CycleMs = 2
  MaxScans = 6
  Threads = {t1,t2}
  Protocols = {"modbus","hart"}
  Words = {0,1}
  Forced <- MCForced
  Faults = {"request"}
  MaxEvents = 1
  None = None
INVARIANTS
  BlocksFollowInputs
  VmSafe
  CacheTruthful
  ILComputes
  LadderAgrees
  StComputes
  GcodeMoves
PROPERTIES
  LadderCycle
  ScanEnds
  InputReachesOutput
  AdaptersStop
  
