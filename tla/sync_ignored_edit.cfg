SPECIFICATION Spec
CONSTANTS
  w1 = w1
  w2 = w2
  w3 = w3
  Windows <- ThreeWindows
  Nobody = Nobody
  None = None
  MaxJoins = 3
  MaxEdits = 2
  MaxReverts = 1
  MaxUpsets = 0
SYMMETRY Symmetry
INVARIANTS
  EveryEditArrives
CHECK_DEADLOCK FALSE
