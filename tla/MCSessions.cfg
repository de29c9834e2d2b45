SPECIFICATION Spec
CONSTANTS
  r1 = r1
  r2 = r2
  s1 = s1
  s2 = s2
  m1 = m1
  m2 = m2
  i1 = i1
  None = None
  Request = {r1, r2}
  Session = {s1, s2}
  Mail = {m1, m2}
  Ip = {i1}
  MaxAttempts = 1
SYMMETRY Symmetry
INVARIANT ResetEndsSessions
INVARIANT AttemptsBounded
PROPERTY UsesEnd
INVARIANT SignedOutStays
