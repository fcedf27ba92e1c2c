SPECIFICATION Spec
CONSTANTS
    g1 = g1
    g2 = g2
    r1 = r1
    r2 = r2
    hostA = hostA
    hostB = hostB
    Absent = Absent
    Gateways = {g1, g2}
    Routes = {r1, r2}
    NumListeners = 2
    GatewayValues <- MCGatewayValues
    RouteValues <- MCRouteValues
    SameNamespace <- MCSameNamespace
    HostMatches <- MCHostMatches
INVARIANTS
    BoundRouteIsCurrent
    BoundWhereAdmitted
    HeldIsReported
    PublishedIsStored
