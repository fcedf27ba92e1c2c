CONSTANTS
    Configs <- MCConfigs
    DefaultConfig <- MCDefaultConfig
    MaxChanges = 2
SPECIFICATION Spec
INVARIANTS
    CachedIsCurrent
PROPERTIES
    DeletionsComplete
CHECK_DEADLOCK FALSE
