SPECIFICATION LedgerSpec
CONSTANTS
  a1 = a1
  a2 = a2
  i1 = i1
  i2 = i2
  Unknown = Unknown
  Buys <- MCBuys
  Moves <- MCMoves
  Ratios <- MCRatios
  Books <- MCBooks
  MaxFacts = 4
CONSTRAINT FirstInA1
INVARIANTS
  HoldingsExplained
  MoneyAccounted
  FifoAgrees
  AlwaysReplays
  ClosedInMethodOrder
PROPERTIES
  NoHindsight
CHECK_DEADLOCK FALSE
