SPECIFICATION UplinkFairSpec
CONSTANTS
    RETRY_MIN_MS = 1
    RETRY_MAX_MS = 4
    STABLE_LINK_MS = 1
    STABLE_SESSION_MS = 1
    SOCKET_TIMEOUT_S = 2
    REQUEST_TIMEOUT_S = 1
    RESYNC_INTERVAL_S = 4
    RESTART_DELAY_MS = 1
    Images <- UplinkImages
INVARIANTS UplinkSafe
PROPERTIES RetriesBackOff Rejoins
