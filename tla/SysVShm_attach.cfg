SPECIFICATION Spec
CONSTANTS
  Tracees = {t1, t2}
  MaxShms = 1
  MaxGeneration = 1
  MaxAddr = 2
  DetachAddrs = {1, 2}
  SigsysModes = {FALSE}
  CloneThread = {TRUE, FALSE}
  Careless = {}
  ExecveFails = FALSE
  Faults = TRUE
  Mortal = {t1, t2}
SYMMETRY Symmetry
INVARIANTS ChainsAgree MappedSegmentLives HelperNeverBlocks AttachedIsRegistered
