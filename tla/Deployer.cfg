CONSTANTS
    Configs <- MCConfigs
    Ports = {p1, p2}
    Counts = {0, 3}
    MaxChanges = 5
SPECIFICATION Spec
PROPERTIES
    DeployedAsWanted
CHECK_DEADLOCK FALSE
