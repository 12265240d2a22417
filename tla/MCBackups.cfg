CONSTANTS
  a = a
  b = b
  c = c
  None = None
  Processes <- MCProcesses
  Clients <- MCClients
  Latest = 2
  FirstFts = 2
  Blank = Blank
  Listed <- MCListed
  Keep = 2
  Day <- MCDay
  Seeds <- MCSeeds
  MaxCommits = 1
  MaxFailures = 1
SPECIFICATION Spec
SYMMETRY Commands
INVARIANTS TypeOK PairsAreTrue
PROPERTIES LiveDatabaseKept DayKeepsAPair
