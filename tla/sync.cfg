SPECIFICATION Spec
CONSTANTS
  w1 = w1
  w2 = w2
  w3 = w3
  Windows <- ThreeWindows
  Nobody = Nobody
  None = None
  MaxJoins = 3
  MaxEdits = 1
  MaxReverts = 1
  MaxUpsets = 1
SYMMETRY Symmetry
INVARIANTS
  OneBroker
  
  
  NobodyIsLeftOut
CHECK_DEADLOCK FALSE
