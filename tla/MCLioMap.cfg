SPECIFICATION MapSpec
CONSTANTS
  Axes <- MCAxes
  Marks <- MCMarks
  CubeLen = 14
  DetRange = 4
  SensorRange = 4
  MaxStep = 1
  Correction = 1
  NUM_MAX_ITERATIONS = 3
  Bound = 3
INVARIANTS
  CubeKept
  UpdateComplete
PROPERTIES
  NearKept
