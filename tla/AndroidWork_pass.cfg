SPECIFICATION MCSpec
CONSTANTS
  Devs = {d1}
  Latency <- MCLatency
  DefaultValue = 9999
  RpmSamples = 2
  HostSuspends = TRUE
  Policies = {"high", "low"}
INVARIANTS DisconnectsReported VoteMatches ConfiguredKnown
PROPERTY DisconnectEventuallyReported
