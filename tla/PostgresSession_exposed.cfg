\* A login and the CancelRequest its client sends over a second connection.
SPECIFICATION Spec
CONSTANTS
  Conns = {c1, c2}
  Listeners = {l1, l2}
  Upstreams = {u1, u2}
  Upstream <- MCUpstream
  Keys = {k1, k2}
  None = None
  c1 = c1  c2 = c2  c3 = c3  l1 = l1  l2 = l2  u1 = u1  u2 = u2  k1 = k1  k2 = k2
PROPERTY ExposedKeyIsCancellable
CHECK_DEADLOCK FALSE
