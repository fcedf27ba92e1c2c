CONSTANTS
    Specs <- MCSpecs
    GrantSets <- MCGrantSets
    PodSets <- MCPodSets
    Secrets <- MCSecrets
    ServiceTypes = {"LoadBalancer"}
    IPs = {"x"}
    MaxChanges = 2
SPECIFICATION Spec
INVARIANTS
    RevokedIsPending
    BoundIsPublished
PROPERTIES
    StatusBecomesTrue
    LoopEnds
