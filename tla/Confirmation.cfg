SPECIFICATION ConfirmationSpec
CONSTANTS
  r1 = r1
  r2 = r2
  r3 = r3
  r4 = r4
  g1 = g1
  g2 = g2
  g3 = g3
  n1 = n1
  n2 = n2
  n3 = n3
  admin = admin
  reader = reader
  agent = agent
  write = write
  review = review
  list = list
  Requests = {r1, r2, r3, r4, g1, g2, g3}
  Agents = {g1, g2, g3}
  Challenges = {n1, n2, n3}
  Principal <- MCPrincipal
  Call <- MCCall
  Protected <- MCProtected
  Permitted <- MCPermitted
  NoNonce = NoNonce
  NoThread = NoThread
  TTL = 1
  MaxClock = 2
  MaxSent = 2
CHECK_DEADLOCK FALSE
SYMMETRY WriteSymmetry
INVARIANTS
  OneCallPerChallenge
  EffectsAuthorised
  RecordsTruthful
PROPERTY ChallengeKept
