SPECIFICATION Spec
CONSTANTS
  r1 = r1
  r2 = r2
  p1 = p1
  d1 = d1
  a1 = a1
  None = None
  Upload = {r1}
  Worker = {r2}
  Package = {p1}
  Dep = {d1}
  Advisory = {a1}
  Depends <- MCDepends
  Score <- MCScore
  ChunkSize = 1
  MaxRetries = 1
  Ttl = 1
  Delay = 1
  MaxTime = 2
INVARIANT NothingKnownGoesLive
INVARIANT LiveIsStored
