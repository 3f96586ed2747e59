CONSTANTS
    s1 = s1
    s2 = s2
    Sessions = {s1, s2}
    TOKEN_TTL = 2
    KEY_TTL = 3
    MINT_DELAY = 3
    MAX_TOKENS = 2
SPECIFICATION ApiSpec
INVARIANTS
    ResolvedKeyAlive
