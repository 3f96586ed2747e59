CONSTANTS
    s1 = s1
    s2 = s2
    Word = y
    Servers = {s1, s2, y}
    Lists <- OperatorLists
    Checks = {k1, k2}
    MAX_QUEUE = 2
    MAX_COMMANDS = 1
    MAX_FLIPS = 0
SPECIFICATION RelaySpec
PROPERTIES
    HandsOutConfigured
CHECK_DEADLOCK FALSE
