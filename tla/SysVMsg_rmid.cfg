SPECIFICATION Spec
CONSTANTS
  Tracees = {t1, t2}
  IPC_PRIVATE = IPC_PRIVATE
  Keys = {IPC_PRIVATE}
  Texts <- OneText
  RcvArgs <- Untyped
  SigsysModes = {FALSE}
  Mortal = {}
  MaxQueues = 1
  MaxMsgs = 1
  MaxGeneration = 1
SYMMETRY Symmetry
INVARIANT RetryFindsQueue
