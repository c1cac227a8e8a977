SPECIFICATION FairSpec
CONSTANTS
  Lidars = {"h", "m", "p"}
  TypeOf <- MCTypeOf
  Apps = {"a"}
  Offered <- MCOffered
  Held <- MCHeld
  HostIps <- MCHostIps
  MulticastIp <- MCNone
  MaxCalls = 2
  MaxPushes = 1

  
  
PROPERTIES
  CallsAnswered
CHECK_DEADLOCK FALSE
