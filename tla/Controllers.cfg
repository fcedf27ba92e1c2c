SPECIFICATION ControllersSpec
CONSTANTS
    g1 = g1
    r1 = r1
    hostA = hostA
    hostB = hostB
    Absent = Absent
    Gateways = {g1}
    Routes = {r1}
    NumListeners = 1
    MaxRevision = 4
    MaxRestarts = 1
    GatewayValues <- MCGatewayValues
    RouteValues <- MCRouteValues
    SameNamespace <- MCSameNamespace
    HostMatches <- MCHostMatches
CHECK_DEADLOCK FALSE
INVARIANTS
    OutdatedIsPending
PROPERTIES
    Converges
