CONSTANTS
    d = d
    u1 = u1
    u2 = u2
    k1 = k1
    k2 = k2
    k3 = k3
    a = a
    lo = lo
    t1 = t1
    Ids <- MCIds
    Uuids <- MCUuids
    Pks <- MCPks
    Creds <- MCCreds
    Ips <- MCIps
    Loopback <- MCLoopback
    Tasks <- OneTask
    FaultModels <- EveryModel
    REG_TIMEOUT = 1
    EXPIRED_AGE = 1
    BootUptimes <- SinceBoot
    REG_PK_DUR = 0
    MaxRegPk = 0
    IP_CHANGE_DUR = 1
    Null = Null
    NoPeer = NoPeer
    NoRow = NoRow
    NoLog = NoLog
SPECIFICATION Spec
INVARIANTS IdentityPinned ConfirmedKeyStored MemoryMatchesDb
           OnlineHasAddress KeysVouched LogIsCurrent
PROPERTIES KeyOrAddressKept
SYMMETRY KeysOfOne
