SPECIFICATION FairSpec
CONSTANTS
    Writers = {w1, w2, w3}
    QueueFirst = {w1}
    Rebuilders = {w1}
    CacheWriters = {w2}
    Deliverers = {w1}
    Capacity = 2
    MaxFaults = 2
INVARIANTS TypeOK BasedReleaseForgetsNothing PartialKeepsOthers LedgerFollowsRelease DeliversPublished InstalledIsReported
PROPERTY EveryRunEnds
