SPECIFICATION FairSpec
CONSTANTS
    p = p
    c = c
    v = v
    Writers = {p, c, v}
    Parents = {p}
    ChildOf <- OneChild
    MaxMain = 3
INVARIANTS TypeOK OneWriter NoOvertaking
PROPERTIES NeverGoesBack EveryRunEnds
CHECK_DEADLOCK FALSE
