CONSTANTS
    Nodes <- MCNodes
    ConsulNamespaces <- MCConsulNamespaces
    mapper <- MCmapper
    Specs <- MCSpecs
    GrantSets <- MCGrantSets
    Services <- MCServices
    Catalogs <- MCCatalogs
    MeshSets <- MCMeshSets
    Peerings <- MCPeerings
    MaxRetries = 1
    MaxChanges = 2
SPECIFICATION Spec
INVARIANTS
    BoundIsPermitted
PROPERTIES
    OthersKeepTheirStatuses
    RouteBecomesTrue
    RoutesSettle
