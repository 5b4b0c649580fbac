SPECIFICATION Spec
CONSTANTS
  Buffers = {b1, b2, b3}
  MaxNodes = 2
  RingSize = 2
  MaxWaits = 2
  MaxFrames = 2
  MaxConfigs = 3
  MaxUsers = 2
  MaxNum = 2
  MaxStarts = 2
  MaxFails = 2
  None = None
  Copies = 2
  MaxTunes = 2
  Slots = {s1, s2}
  MaxJobs = 2
  RetunedJobs = 1
INVARIANTS   ResetAlone
  BuffersExact  FrameComplete
 
CHECK_DEADLOCK FALSE
