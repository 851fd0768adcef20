CONSTANTS
    a1 = a1
    a2 = a2
    SLOTS = 4
    PER = 2
    SEQS = 12
    MAX_CODES = 2
    Addrs = {a1, a2}
    Codes = {0, 1, 2}
    MaxCode = 2
    MaxRot = 1
    FirstCode = 0
SPECIFICATION SeedSpec
INVARIANTS SeedSafe NoCodeGoesBack
