CONSTANTS
    a = a
    b = b
    c = c
    None = None
    Units = {a, b, c}
    MAX_SHADES = 2
    DEBOUNCE = 1
    MAX_DEFER = 2
    EVENTS = 4
    ACKS = 1
    Rows <- Provisioning
    MaxTroubles = 1
    Members = {0}
    MaxEdits = 3
    Namespaces = 2
SPECIFICATION BrokerSpec
INVARIANTS BrokerSafe
PROPERTIES BitOutlivesEntity OrphansAreCleared HandlersEnd
CHECK_DEADLOCK FALSE
