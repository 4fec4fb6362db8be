CONSTANTS
    NumSockets = 2
    Boxes <- MCBoxes
    Platforms = {"skx", "spr", "perf"}
    NumSlots = 2
    Leftovers = {"raw"}
    DisabledLinks <- MCDisabled
    MaxTicks = 1
    MaxCalls = 2
SPECIFICATION Spec
INVARIANTS  Released
PROPERTY Refines
CHECK_DEADLOCK FALSE
