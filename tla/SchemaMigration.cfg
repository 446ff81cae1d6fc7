SPECIFICATION MigrationSpec
CONSTANTS
  old = old
  new = new
  other = other
  ours = ours
  theirs = theirs
  Openers = {old, new, other}
  Supports <- MCSupports
  Contracts = {ours, theirs}
  Contract <- MCContract
  Statements = 2
  Found = {0, 1, 2, 3}
INVARIANTS
  RecordTruthful
  OpenComplete
  StartsSucceed
