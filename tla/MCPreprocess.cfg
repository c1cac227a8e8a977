SPECIFICATION CloudSpec
CONSTANTS
  LidarTypes <- MCLidarTypes
  N_SCANS = 2
  group_size = 2
  point_filter_num = 2
  Turn = 3
  MaxTurned = 5
  MaxPoints = 9
INVARIANTS
  NoBlindPoint
  PlaneOnce
  TimesRight
\* The handler of an Ouster stops where a ring is without points.
CHECK_DEADLOCK FALSE
