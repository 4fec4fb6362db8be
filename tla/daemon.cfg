CONSTANTS
    d1 = d1
    d2 = d2
    Daemons = {d1, d2}
    Clients = {c1}
    NoFile = NoFile
    Stale = Stale
    NoSegment = NoSegment
    Configs <- TwoConfigs
    MaxPolls <- FewPolls
SPECIFICATION FairSpec
INVARIANT DaemonInv
INVARIANT FreshEnough
INVARIANT BracketDetectsTearing
PROPERTY UpdateDelivered
CHECK_DEADLOCK FALSE
