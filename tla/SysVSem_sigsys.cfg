SPECIFICATION FairSpec
CONSTANTS
  Tracees = {t1, t2}
  IPC_PRIVATE = IPC_PRIVATE
  Keys = {IPC_PRIVATE}
  MAX_SEMS = 1
  MAX_NSEMS = 2
  MAX_SEMVAL = 2
  SopsArgs <- Paired
  SetVals = {0, 2}
  SigsysModes = {TRUE, FALSE}
  Mortal = {t1, t2}
  MaxGeneration = 1
INVARIANTS TypeOK WaitStatesAgree SleepersHaveSet KickIsExpected ExactlyOnce
PROPERTY DecidedReturns
