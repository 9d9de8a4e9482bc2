SPECIFICATION GroupSpec
CONSTANTS
  c1 = c1
  c2 = c2
  p1 = p1
  p2 = p2
  bad = bad
  k1 = k1
  k2 = k2
  k3 = k3
  None = None
  Clients <- OneClient
  Ops <- ControlOps
  Cmds <- ThreeCmds
  Programs <- TwoPrograms
  WellFormed <- TwoPrograms
  Groups = {"control"}
  MaxDeploys = 0
  MaxSteps = 0
PROPERTIES
  StopEnds
