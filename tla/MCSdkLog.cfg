SPECIFICATION FairSpec
CONSTANTS
  Lidars = {"l1"}
  Configs <- MCConfigs
  PacketsPerMb = 1
  LeftOver <- MCLeftOver
  Pushing <- MCPushing
  MaxTime = 1
  MaxPackets = 3
  MaxLate = 1
  MaxFaults = 1
INVARIANTS
  LogFaithful
  FilesShown
PROPERTIES
  SpaceFreed
  ShutdownEnds
CHECK_DEADLOCK FALSE
