SPECIFICATION Spec
CONSTANTS
  o1 = o1
  c1 = c1
  c2 = c2
  c3 = c3
  c4 = c4
  c5 = c5
  Orders = {o1}
  Calls = {c1, c2, c3, c4, c5}
  NoRequest = NoRequest
  Offered <- UsualRequests
  MaxOverlap = 2
  MaxCrashes = 0
  Faults = {}
CHECK_DEADLOCK FALSE
SYMMETRY CallSymmetry
PROPERTY DocumentedTransitions
