SPECIFICATION Spec
CONSTANTS
  ja = ja
  jb = jb
  jc = jc
  old1 = old1
  old2 = old2
  Conns = {c1, c2}
  Jobs = {ja, jb, jc}
  Account <- MCAccount
  Contents <- MCContents
  Legacy = {old1, old2}
  LegacyTxs <- MCLegacyTxs
  NoJob = NoJob
  MaxClock = 1
CHECK_DEADLOCK FALSE
SYMMETRY ConnSymmetry
INVARIANTS
  SourceFaithful
  BookedExactly
  SameBytesSameVerdict
