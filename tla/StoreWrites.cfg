SPECIFICATION Spec
CONSTANTS
  jl = jl
  js = js
  ji = ji
  jr = jr
  dl = dl
  ds = ds
  df = df
  Conns = {c1, c2}
  Jobs = {jl, js, ji, jr}
  Kind <- MCKind
  Digest <- MCDigest
  NoJob = NoJob
  Genesis = Genesis
  Interactive = TRUE
SYMMETRY ConnSymmetry
INVARIANTS
  AuditFaithful
  ProvenanceClosed
  OutcomesTrue
  ScopedWritesAtomic
