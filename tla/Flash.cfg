CONSTANTS
    a1 = a1
    a2 = a2
    c1 = c1
    c2 = c2
    SLOTS = 4
    PER = 2
    SEQS = 12
    MAX_CODES = 2
    Codes = {c1, c2}
    Addrs = {a1, a2}
SPECIFICATION Spec
SYMMETRY Symmetry
INVARIANTS RingSafe
PROPERTIES NeverUnreadableAgain KeepsPromise
