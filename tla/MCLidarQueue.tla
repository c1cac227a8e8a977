----------------------------- MODULE MCLidarQueue ------------------------------
\* A small instance of LidarQueue for TLC.
EXTENDS LidarQueue

CONSTANT p1

MCOnePacket == {p1}
================================================================================
