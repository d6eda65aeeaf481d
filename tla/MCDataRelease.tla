---------------------------- MODULE MCDataRelease ----------------------------
\* Instances of DataRelease for TLC.
EXTENDS DataRelease
=============================================================================
