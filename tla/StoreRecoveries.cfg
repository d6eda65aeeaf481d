SPECIFICATION FairSpec
CONSTANTS
    Incidents = {i1}
    Impacts = {a1, a2}
    Runs = {r1, r2}
    NoIncident = NoIncident
    Versions = {1, 3}
    Severities = {"high"}
    Integrities = {"partial"}
    Slots = {s1}
INVARIANTS TypeOK GenerationsHaveImpacts PassedOverIsTold
PROPERTIES OnlyNewImpactReopens RecoveryIsAnnounced
CHECK_DEADLOCK FALSE
