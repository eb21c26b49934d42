\* Two connections, no symmetry (it is not sound for liveness).
SPECIFICATION FairSpec
CONSTANTS
  Conns = {c1, c2}
  Listeners = {l1, l2}
  Upstreams = {u1, u2}
  Upstream <- MCUpstream
  Keys = {k1, k2}
  None = None
  c1 = c1  c2 = c2  c3 = c3  l1 = l1  l2 = l2  u1 = u1  u2 = u2  k1 = k1  k2 = k2
PROPERTY HandshakeEnds
\* Every connection may be finished and the emulator shut down.
CHECK_DEADLOCK FALSE
