SPECIFICATION FairSpec
CONSTANTS
  Tracees = {t1, t2}
  MaxShms = 1
  MaxGeneration = 1
  MaxAddr = 2
  DetachAddrs = {1}
  SigsysModes = {TRUE, FALSE}
  CloneThread = {FALSE}
  Careless = {}
  ExecveFails = TRUE
  Faults = FALSE
  Mortal = {}
PROPERTY ShmatReturns
