CONSTANTS
    MS = 2
    MILLIS = 1
    LOCK_WAIT = 1
    TIMER = 2
    SILENCE = 0
    Sizes = {0, 5}
    Thresholds = {0, 4}
    StartChecks = {0}
    EnvThreshold = 4
    EnvStartCheck = 0
    MAX_TOTAL = 5
    MAX_AGE = 6
SPECIFICATION Spec
PROPERTIES BlacklistFollowed DowngradeFair SilenceBounded BlockedRelayEnds
