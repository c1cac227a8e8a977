------------------------------ MODULE MCDriverPipe -----------------------------
\* A small instance of DriverPipe for TLC.
EXTENDS DriverPipe

MCLidars == 1..2
MCConfigured == {1}
================================================================================
