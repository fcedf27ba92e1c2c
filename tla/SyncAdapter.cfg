SPECIFICATION Spec
CONSTANTS
    Gateway = Gateway
    h1 = h1
    h2 = h2
    plain = plain
    split = split
    backend = backend
    NumListeners = 1
    Hosts = {h1, h2}
    Rules = {plain, split}
    SplitRules = {split}
    Backends = {backend}
    MaxRules = 2
    Snapshots <- MCSnapshots
INVARIANTS
    IngressIsBacked
    OnlyFailuresLeak
PROPERTIES
    ExposedWhenComplete
    ImplementsContract
