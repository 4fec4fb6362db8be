CONSTANTS
    Readers = {r1, r2}
    Watchdog = wd
    Modulus = 4
    Rate = 1
    Delay = 1
    Latency = 1
    MaxEvents = 5
    MaxEpoch = 1
SPECIFICATION Spec
SYMMETRY ReaderSymmetry
INVARIANT IInv
INVARIANT DifferencesExact
INVARIANT NoMissedWrap
