CONSTANTS
    c1 = c1
    c2 = c2
    c3 = c3
    proxy = proxy
    own = own
    None = None
    Conns = {c1, c2, c3}
    Addrs = {proxy, own}
    AddrOf <- TwoProxied
    Ws = {c1, c2}
SPECIFICATION Spec
SYMMETRY Websockets
INVARIANTS
    EntriesAlive
    AtMostOneAnswer
    AnswersReachAsker
PROPERTIES
    RefusalIsTold
CHECK_DEADLOCK FALSE
