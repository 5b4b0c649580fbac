SPECIFICATION GroupSpec
CONSTANTS
    MAX_SERIAL_INSTANCES = 4
    MaxInstances = 4
    MaxNames = 3
    MaxTransports = 4
    NumFunctions = 2
    MaxProbes = 5
    MaxRequests = 5
    MaxFunctions = 2
INVARIANTS AddsLive UsesPaired  OneRequestEach
CHECK_DEADLOCK FALSE
