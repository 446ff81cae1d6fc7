SPECIFICATION Spec
CONSTANTS
  p1 = p1
  p2 = p2
  t1 = t1
  t2 = t2
  Procs = {p1, p2}
  Terms = {t1, t2}
  Dates = {0, 3}
  Claims = {1}
  None = None
  MaxClock = 3
  MaxRows = 4
SYMMETRY Symmetry
CONSTRAINT Explored
INVARIANTS AnswersKept NumbersIdentify LifecycleLegal
