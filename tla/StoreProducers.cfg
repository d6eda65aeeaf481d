SPECIFICATION Spec
CONSTANTS
    Incidents = {i1}
    Impacts = {a1, a2}
    Runs = {r1}
    NoIncident = NoIncident
    Versions = {1}
    Severities = {"critical"}
    Integrities = {"partial", "verified"}
    Slots = {s1}
SYMMETRY Symmetry
INVARIANT CreditIsReached
CHECK_DEADLOCK FALSE
