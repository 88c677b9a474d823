SPECIFICATION Spec
CONSTANTS
  Tracees = {t1, t2, t3}
  IPC_PRIVATE = IPC_PRIVATE
  Keys = {IPC_PRIVATE}
  MAX_SEMS = 1
  MAX_NSEMS = 1
  MAX_SEMVAL = 2
  SopsArgs <- Singles
  SetVals = {}
  SigsysModes = {FALSE}
  Mortal = {}
  MaxGeneration = 1
SYMMETRY Symmetry
INVARIANTS SleepersMustWait
