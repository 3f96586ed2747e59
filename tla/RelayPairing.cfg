CONSTANTS
    a = a
    Conns = {c1, c2, c3, c4}
    Uuids = {u1}
    Ips = {a}
    Sources <- BothSources
    SLEEP = 1
    None = None
SPECIFICATION Spec
INVARIANTS NoCrossTalk UsageActive TcpRelayReported
PROPERTIES RefinesMatch EarlyDropMeansReuse ParkedLeaves
