SPECIFICATION MCFairSpec
CONSTANTS
    Parts = {"trial", "backup", "update"}
    SLOTS = 2
    PER = 1
    SEQS = 7
    Nets = {home, away}
    Home = home
    Pairs = {p}
    Nothing = Nothing
    MAX_SUPERSEDED = 2
    ASSOCIATE_DEADLINE = 1
    CONFIRM_DEADLINE = 1
    MaxRequests = 2
    MaxBroken = 1
    N = 3
    PER_CHUNK = 2
    PAGES = 2
    MaxCode = 3
    MaxEdits = 2
    MaxUploads = 2
    MaxFaults = 2
    WINDOW = 1
    IMAGE_PAGES = 2
    MaxSendings = 2
    MaxMishaps = 2
INVARIANTS TrialSafe RestoreSafe UpdateSafe
PROPERTIES OneHalfMoves UnconfirmedEnds NobodyForgotten RestoreEnds UpdateComesToRest
CHECK_DEADLOCK FALSE
