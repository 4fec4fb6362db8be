CONSTANTS
    Procs = {p1, p2}
    NumCores = 2
    Environments <- RootOrCareful
    SignalPoints = {"counting"}
    NmiAtStart = TRUE
    MaxKills = 1
SPECIFICATION Spec
INVARIANT LifecycleInv
INVARIANT WatchdogRestored
 
SYMMETRY ProcSymmetry
