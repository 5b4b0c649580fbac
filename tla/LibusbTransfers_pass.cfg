SPECIFICATION FairSpec
CONSTANTS
  x1 = x1
  x2 = x2
  Transfers = {x1, x2}
  Shapes <- PassShapes
  Users = {u1}
  Handler = h
  MaxTime = 2
  MaxSubmits = 2
  None = None
INVARIANTS CallbackEndsTransfer TimeoutsCovered
PROPERTIES OneCallbackEach TimedTransferEnds
CHECK_DEADLOCK FALSE
