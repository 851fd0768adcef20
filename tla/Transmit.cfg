CONSTANTS
    a1 = a1
    a2 = a2
    Addrs = {a1, a2}
    CODES = 4
    DEPTH = 2
    REPEATS = 1
    WINDOW = 1
    MaxBatch = 3
SPECIFICATION MCFairSpec
INVARIANTS TransmitSafe
PROPERTIES DispatchEnds QueueDrains
