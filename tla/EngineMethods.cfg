SPECIFICATION GroupSpec
CONSTANTS
  c1 = c1
  c2 = c2
  p1 = p1
  p2 = p2
  bad = bad
  k1 = k1
  k2 = k2
  k3 = k3
  None = None
  Clients <- TwoClients
  Ops <- AllOps
  Cmds <- ThreeCmds
  Programs <- ProgramsAndBad
  WellFormed <- TwoPrograms
  Groups = {"control", "config", "program", "hmi"}
  MaxDeploys = 3
  MaxSteps = 2
INVARIANTS
  TypeOK
  PauseHolds
  ConfigFifo
  DiscardedNeverRuns
PROPERTIES
  ProgramFixedMidCycle
  StopEndsOrPaused
  AcceptedApplied
  HotSwapSpec
  ArmedSwapLeaves
