SPECIFICATION Spec
CONSTANTS
  w1 = w1
  w2 = w2
  None = None
  MaxRows = 2
  Worker = {w1, w2}
SYMMETRY Symmetry
INVARIANT LiveWasVetted
INVARIANT IndexWasVetted
INVARIANT LiveIsIndexed
INVARIANT DelistedIsPurged
INVARIANT PendingIsWatched
