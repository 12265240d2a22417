CONSTANTS
  r1 = r1
  r2 = r2
  p1 = p1
  p2 = p2
  pi = pi
  Roots <- MCRoots
  SharedAgents <- MCSharedAgents
  Pollers <- MCPollers
  MaxFiles = 2
  MaxDeaths = 1
  MaxFaults = 1
  MaxEdits = 1
  MaxDisturbances = 1
SPECIFICATION Spec
SYMMETRY Names
INVARIANTS TypeOK RunningIsReachable InstalledIsWhole UninstalledIsGone OnePoller
PROPERTIES OperatorsFilesKept
