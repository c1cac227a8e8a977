------------------------------- MODULE MCLioSync -------------------------------
EXTENDS LioSync

MCScanStamps == {0, 1, 3, 5}
MCImuStamps == {1, 3, 5, 6}
MCOffsets == 1..2
MCShort == {1}
MCSizes == {0, 6}
MCFullSize == {6}
MCZeroed == {0}
MCJunk == {0, 3}
===============================================================================
