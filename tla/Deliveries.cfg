SPECIFICATION Spec
CONSTANTS
    m1 = m1
    m2 = m2
    s1 = s1
    e = e
    f = f
    a = a
    r1 = r1
    r2 = r2
    Keys = {e, f, a}
    Anchors = {a}
    Recipients = {r1, r2}
    Traces <- AllTraces
    Prints = {}
    Aliases <- NoAliases
    Theme <- OwnTheme
    AnchorOf <- OneAnchor
    Monitors = {m1, m2}
    Schedulers = {s1}
    Priority = {f}
    Observed = {}
    Lease = 1
    Cooldown = 1
    MaxUpdates = 2
    MaxSlots = 2
    MaxRank = 2
    MaxTime = 2
    MaxAccidents = 1
    MaxOthers = 1
    None = None
CONSTRAINT Small
SYMMETRY Alike
INVARIANTS TypeOK CopiesHaveCauses ToldIsStored
PROPERTIES BranchKeepsClaims
CHECK_DEADLOCK FALSE
