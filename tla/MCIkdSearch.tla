------------------------------ MODULE MCIkdSearch ------------------------------
\* A small instance of IkdSearch for TLC.
EXTENDS IkdSearch

CONSTANTS s1, s2

MCSearchers == {s1, s2}
================================================================================
