CONSTANTS
    a = a
    b = b
    c = c
    None = None
    Units = {a, b, c}
    MAX_SHADES = 2
    DEBOUNCE = 1
    MAX_DEFER = 2
    EVENTS = 6
    ACKS = 1
    Rows <- Provisioning
    MaxTroubles = 1
    Members = {0}
    MaxEdits = 2
    Namespaces = 1
SPECIFICATION BrokerSpec
INVARIANTS GroupKeepsItsShades
CHECK_DEADLOCK FALSE
