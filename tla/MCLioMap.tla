-------------------------------- MODULE MCLioMap ------------------------------
\* A small instance of LioMap for TLC: two axes, voxels on all sides of the
\* first cube and in a corner of it.
EXTENDS LioMap

MCAxes == 1..2
MCMarks == {<<-6, 0>>, <<4, -6>>, <<6, 6>>}
================================================================================
