----------------------------- MODULE MCPreprocess ------------------------------
\* Small instances of Preprocess for TLC.
EXTENDS Preprocess

MCLidarTypes == {"AVIA", "VELO16", "OUST64", "MID360", "other"}
================================================================================
