SPECIFICATION Spec
CONSTANTS
    p1 = p1
    p2 = p2
    Proxies <- BothProxies
    Enabled <- OneEnabled
    Requests = {r1, r2, r3}
    Clients = {k1, k2}
    LostAnswers = TRUE
    None = None
SYMMETRY Symmetry
INVARIANTS
    ProxySettled
    RouteCurrent
