SPECIFICATION Spec
CONSTANTS
  x1 = x1
  x2 = x2
  Transfers = {x1, x2}
  Shapes <- StallShapes
  Users = {u1}
  Handler = h
  MaxTime = 1
  MaxSubmits = 1
  None = None
INVARIANT UrbsEndBeforeTransfer
CHECK_DEADLOCK FALSE
