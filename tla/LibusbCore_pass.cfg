SPECIFICATION Spec
CONSTANTS
  Callbacks = {c1}
  MaxObjs = 3
  MaxPlugs = 3
  Threads = {t1, t2}
  Interfaces = {0, 1}
  None = None
  MaxEndpoints = 1
  Counts = {0, 1, 2}
  App = app
  MaxSyncs = 2
  Addresses = {a1, a2}
  MaxChanges = 3
  MaxStarts = 2
  MaxPolls = 1
INVARIANTS  MessagesFollowBus 
  DescriptorsParsed
PROPERTY MessagesHandled
CHECK_DEADLOCK FALSE
