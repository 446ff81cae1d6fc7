SPECIFICATION Spec
CONSTANTS
  a1 = a1
  a2 = a2
  Accounts = {a1, a2}
  Files <- MCFiles
  Books <- MCBooks
  End = 9
  Today = 7
SYMMETRY Symmetry
CHECK_DEADLOCK FALSE
INVARIANTS VerdictTruthful CleanRebuildWhole NoFalseAlarm
