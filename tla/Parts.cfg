SPECIFICATION MCSpec
CONSTANTS
    Parts = {"limiter", "provision", "log", "trip", "dedupe", "form"}
    Ids = {a, b}
    BURST = 2
    REFILL = 2
    MS = 2
    MAX_S = 9
    MaxNow = 13
    MaxSince = 6
    None = None
    CAPACITY = 2
    ROOMS = 2
    GROUPS = 2
    MAX_LINKS = 2
    MAX_LINKS_V3 = 3
    MAX_LINKED_REMOTES = 2
    OWN_SPACE = 32
    SENTINEL = 63
    STEP = 2
    MAX_STEPS = 2
    FACTORY = 5
    MIN_SUPPORTED_VERSION = 19
    MAX_SUPPORTED_VERSION = 25
    GROUP_CODE_MIN_VERSION = 23
    CODES = 8
    MAX_SHADES = 2
    BASE = 32
    MAX_TRAVEL = 5
    Times <- SomeTimes
    Bands <- SomeBands
    Elapsed <- SomeElapsed
    Remotes <- SomeRemotes
    Tables <- SomeTables
    Estates <- SomeEstates
    Backups <- SomeBackups
    MaxChanges = 3
    Lines <- SomeLines
    PanicTexts <- SomePanics
    Newline = "nl"
    RING_BYTES = 5
    TEXT = 2
    CHUNK = 2
    Empty = Empty
    MaxLogged = 2
    MaxResets = 2
    MaxReads = 1
    Narrow = 56
    Wide = 80
    Frames <- SomeFrames
    Repeats = {0, 1, 15}
    Clocks = {80, 100, 120}
    Pairs = {p, q, r}
    REMEMBERED = 2
    WINDOW = 2
    MODULUS = 6
    MAX_TIME = 4
    MAX_HEARD = 5
    Words = {"n"}
    FormKinds = {"roller", "awning"}
    Roller = "roller"
    Typed = {"t"}
    Blank = Blank
    Places = 2
    QUEUE = 2
    CHAIN = 4
    MaxInputs = 3
    MaxVisits = 1
    MaxBreaks = 1
INVARIANTS LimiterSafe TableSafe LogSafe HeardIsSent DedupeSafe FormSafe
PROPERTIES BitsLeaveByAnswer
CHECK_DEADLOCK FALSE
