CONSTANTS
    Cases <- AnyCase
    MaxRounds = 2
    MaxSignals = 2
SPECIFICATION FairSpec
INVARIANT ToolInv
INVARIANT ProgramCovered
INVARIANT CountersLive
PROPERTY ToolEnds
CHECK_DEADLOCK FALSE
