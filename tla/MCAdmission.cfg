SPECIFICATION MCSpec
CONSTANTS
  w1 = w1
  w2 = w2
  u1 = u1
  u2 = u2
  i1 = i1
  c1 = c1
  c2 = c2
  k1 = k1
  k2 = k2
  x1 = x1
  x2 = x2
  x3 = x3
  None = None
  Worker = {w1, w2}
  User = {u1, u2}
  Ip = {i1}
  Code = {c1, c2}
  Key = {k1, k2}
  Row = {x1, x2, x3}
  MaxAttempts = 1
  Ttl = 1
  Delay = 1
  n1 = n1
  n2 = n2
  g1 = g1
  g2 = g2
  Nil = Nil
  Request = {w1, w2}
  Account = {u1, u2}
  Count = {n1, n2}
  Grant = {g1, g2}
SYMMETRY Symmetry
INVARIANT OneAdminPerCode
INVARIANT GuessesBounded
INVARIANT NoticeAgrees
INVARIANT ShownIsTold
PROPERTY KeyIsRecent
