SPECIFICATION Spec
CONSTANTS
  jl = jl
  js = js
  ji = ji
  jr = jr
  dl = dl
  ds = ds
  df = df
  Conns = {c1, c2}
  Jobs = {js, ji, jl}
  Kind <- MCKind3
  Digest <- MCDigest3
  NoJob = NoJob
  Genesis = Genesis
  Interactive = FALSE
INVARIANT AckedWritesDurable
