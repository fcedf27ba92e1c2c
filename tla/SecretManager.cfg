SPECIFICATION Spec
CONSTANTS
    s1 = s1
    s2 = s2
    n1 = n1
    n2 = n2
    Streams = {s1, s2}
    Nodes = {n1, n2}
    a = a
    b = b
    c = c
    Names = {a, b, c}
    Lists <- MCLists
    Expiring = {a}
    NodeOf <- MCNodeOf
    NoNode = NoNode
    NoName = NoName
    Certificates <- MCCertificates
    \* 30 seconds and 30 minutes, in units of 30 seconds
    LoopTimeout = 1
    ForceInterval = 60
INVARIANTS
    TypeOK
    RefsAreWatched
    SecretsAreReferenced
    LiveStreamHoldsItsSecrets
    ClosedNodesAreForgotten
PROPERTIES
    ExpiringIsRefreshed
