-------------------------- MODULE MCIncidentOutbox --------------------------
\* Instances of IncidentOutbox for TLC.
EXTENDS IncidentOutbox
=============================================================================
