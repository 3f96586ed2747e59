CONSTANTS
    c1 = c1
    c2 = c2
    c3 = c3
    proxy = proxy
    own = own
    None = None
    Conns = {c1, c2}
    Addrs = {proxy, own}
    AddrOf <- TwoProxied
    Ws = {c1, c2}
SPECIFICATION Spec
INVARIANTS
    PeerReachesAsker
CHECK_DEADLOCK FALSE
