SPECIFICATION Spec
CONSTANTS
  Tracees = {t1, t2}
  IPC_PRIVATE = IPC_PRIVATE
  Keys = {IPC_PRIVATE}
  Texts <- TwoTexts
  RcvArgs <- AllModes
  SigsysModes = {TRUE, FALSE}
  Mortal = {t1, t2}
  MaxQueues = 1
  MaxMsgs = 2
  MaxGeneration = 1
SYMMETRY Symmetry
INVARIANTS QueuesAgree WaitStatesAgree ReceivedOnce NoMessageLost
