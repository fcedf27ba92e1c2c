SPECIFICATION Spec
CONSTANTS
    g1 = g1
    g2 = g2
    r1 = r1
    r2 = r2
    hostA = hostA
    hostB = hostB
    Absent = Absent
    Gateways = {g1}
    Routes = {r1}
    NumListeners = 2
    GatewayValues <- MCTwoHTTP
    RouteValues <- MCTwoRefs
    SameNamespace <- MCSameNamespace
    HostMatches <- MCHostMatches
INVARIANTS
    EveryParentBinds
