SPECIFICATION FairSpec
CONSTANTS
  Tracees = {t1, t2, t3}
  IPC_PRIVATE = IPC_PRIVATE
  Keys = {IPC_PRIVATE}
  Texts <- OneText
  RcvArgs <- ByType
  SigsysModes = {FALSE}
  Mortal = {t1}
  MaxQueues = 1
  MaxMsgs = 2
  MaxGeneration = 0
PROPERTIES StrandedByDeath StrandedIsServed
