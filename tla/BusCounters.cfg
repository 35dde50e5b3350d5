SPECIFICATION Spec
CONSTANTS
  p1 = p1
  p2 = p2
  p3 = p3
  Publishers = {p1, p2, p3}
  Commission = Commission
  LAST_COUNTER = 6
  CancelTransfer = FALSE
INVARIANTS
  IInv

  
SYMMETRY Alike
