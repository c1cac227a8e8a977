----------------------------- MODULE MCLidarSetup ------------------------------
\* Small instances of LidarSetup for TLC.
EXTENDS LidarSetup

MCSettings == <<"dataType", "scanPattern">>
MCOthers == <<"workMode", "imu">>
================================================================================
