SPECIFICATION FairSpec
CONSTANTS
  ScanStamps <- MCScanStamps
  ImuStamps <- MCImuStamps
  Offsets <- MCShort
  Sizes <- MCSizes
  Livox = TRUE
  TimeSync = TRUE
  TimeOffset = 1
  SyncGap = 1
  MAX_INI_COUNT = 1
  JunkEnds <- MCZeroed
  MaxScans = 3
  MaxImus = 3
INVARIANTS
  ScansInStep
  ImuExact
  ClockAtScanEnd
PROPERTIES
  BacklogDrains
