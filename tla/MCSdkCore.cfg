\* Two lidars, one observer, one socket that may fail.
CONSTANTS
  Lidars = {"l1", "l2"}
  TypeOf <- MCTypeOf
  Address <- MCAddress
  NetOf <- MCNetOf
  HostIp = "host"
  Documents <- MCDocuments
  LogEnabled = FALSE
  MaxPoll = 49
  Observers = {"o1"}
  Sampling = {"l2"}
  InLoader = {"l2"}
  MaxFaults = 1
SPECIFICATION Spec

  
  
PROPERTIES
  Connected
  UninitEnds
CHECK_DEADLOCK FALSE
