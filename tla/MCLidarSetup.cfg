SPECIFICATION FairSpec
CONSTANTS
  Threads = {"cmd", "det"}
  Settings <- MCSettings
  Others <- MCOthers
  MaxFwRetries = 0
  MaxMishaps = 1
INVARIANTS
  
  SamplingConfigured
PROPERTIES
  SetUp
