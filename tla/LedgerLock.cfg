SPECIFICATION Spec
CONSTANTS
    p1 = p1
    p2 = p2
    p3 = p3
    k = k
    r = r
    r2 = r2
    Keys = {k}
    Anchors = {}
    Recipients = {r, r2}
    Traces = {p1, p2, p3}
    Prints = {}
    Aliases <- NoAliases
    Theme <- OneTheme
    KeyOf <- OneKey
    RankOf <- SameRank
    Senders = {p1, p2, p3}
    Watchers = {}
    Lease = 2
    Cooldown = 1
    MaxUpdates = 2
    Timeout = 1
    StaleAfter = 1
    MaxTime = 3
    MaxCrashes = 1
    None = None
    Unreadable = Unreadable
SYMMETRY Alike
INVARIANTS TypeOK OneHolder OneSender CopiesHaveCauses
PROPERTIES NothingIsForgotten ActsAtomically
CHECK_DEADLOCK FALSE
