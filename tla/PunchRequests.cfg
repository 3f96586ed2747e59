CONSTANTS
    p = p
    q = q
    Ips = {a, b}
    Ids = {p, q}
    Requests <- ClientRequests
    HALF = 3
    REG_TIMEOUT = 1
    EXPIRED_AGE = 2
    TAIL = 2
    PUNCH_REQ_DEDUPE_SEC = 1
    MAX_AGE = 7
    MAX_LOG = 4
SPECIFICATION Spec
INVARIANTS
    RecentShownOnline
    SilentShownOffline
    Deduped
    Covered
