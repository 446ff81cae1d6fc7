SPECIFICATION LeaseFairSpec
CONSTANTS
  Daemons = {p1, p2, p3}
  Inodes = {i1, i2, i3, i4}
  NoInode = NoInode
  NoProc = NoProc
  NoManifest = NoManifest
  StaleManifest = StaleManifest
INVARIANTS
  LeaseBacked
  QuietOwner
PROPERTIES
  ImplementsSingleWriter
  ShutdownFreesHome
