SPECIFICATION Spec
CONSTANTS
  p1 = p1
  p2 = p2
  p3 = p3
  d1 = d1
  d2 = d2
  Procs = {p1, p2, p3}
  Digests = {d1, d2}
  Paths = {"bundle"}
  Foreign <- MCForeign
  Saved <- MCSaved
  None = None
  Torn = Torn
  MaxLog = 3
CONSTRAINT Explored
VIEW Relevant
SYMMETRY ProcSymmetry
INVARIANTS
  BundlesVerify
  HomeWhole
  RestoreAudited
