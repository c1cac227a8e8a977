-------------------------------- MODULE MCSdkLog --------------------------------
\* A small instance of SdkLog for TLC: one lidar with both types of log, which may be
\* in the middle of a file when the program starts.
EXTENDS SdkLog

MCConfigs == {[enable |-> TRUE, cache |-> 4], [enable |-> FALSE, cache |-> 4]}
MCLeftOver ==
  {{[lidar |-> "l0", type |-> 1, time |-> 0, index |-> 0, shown |-> FALSE,
     data |-> <<0, 1>>]}}
MCPushing ==
  {[t \in Types |-> IF t = 0 THEN [index |-> -1, trans |-> -1, open |-> FALSE]
                    ELSE [index |-> 0, trans |-> 1, open |-> TRUE]]}
=================================================================================
