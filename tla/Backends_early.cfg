SPECIFICATION Spec
CONSTANTS
  Transfers = {t1, t2}
  MaxFds = 2
  MaxCalls = 1
  Contexts = {c1, c2}
  MaxPlugs = 1
  MaxLists = 1
  None = None
  DContexts = {d1, d2}
  MaxSessions = 2
  MaxInits = 2
  Handles = {h1, h2}
  MaxOpens = 4
  Interfaces = {"i0"}
  MaxIfCalls = 3
  Callers = {w1, w2}
  MaxAsks = 3
  MaxClocks = 2
  MaxHashes = 4
PROPERTY NoEarlyRelease
CHECK_DEADLOCK FALSE
