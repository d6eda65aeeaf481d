-------------------------- MODULE MCIncidentStore --------------------------
\* Instances of IncidentStore for TLC.
EXTENDS IncidentStore, TLC

Symmetry == Permutations(Impacts) \cup Permutations(Runs) \cup Permutations(Slots)
=============================================================================
