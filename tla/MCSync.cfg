SPECIFICATION Spec
CONSTANTS
  Devices = {1, 2}
  Keys = {1, 2}
  Values = {1, 2}
  Sessions = {s1, s2}
  Routes <- MCOwnToo
  Faults = {"disk", "crash"}
  MaxBundle = 1
  Start <- MCPairStart
  MaxTime = 2
SYMMETRY MCSessionSymmetry
INVARIANTS ViewFaithful
PROPERTIES  NoSilentClobber
CHECK_DEADLOCK FALSE
