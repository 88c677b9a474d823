SPECIFICATION Spec
CONSTANTS
  Tracees = {t1, t2}
  MaxShms = 2
  MaxGeneration = 0
  MaxAddr = 2
  DetachAddrs = {1}
  SigsysModes = {FALSE}
  CloneThread = {FALSE}
  Careless = {}
  ExecveFails = FALSE
  Faults = FALSE
  Mortal = {}
SYMMETRY Symmetry
INVARIANT RightSegment
