SPECIFICATION Spec
CONSTANTS
  a1 = a1
  a2 = a2
  t1 = t1
  f1 = f1
  f2 = f2
  None = None
  Loop = Loop
  Account = {a1, a2}
  Thread = {t1}
  Front = {f1, f2}
  MaxNews = 2
SYMMETRY Symmetry
INVARIANT ClosedAfterRevocation
INVARIANT OnlyLinkedSpeaks
INVARIANT AgreesWithRazorpay
PROPERTY ImplementsPayoutGate
