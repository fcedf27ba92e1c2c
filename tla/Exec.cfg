CONSTANTS
    MaxVersion = 2
    Tries = 2
    MaxOutages = 1
SPECIFICATION Spec
INVARIANTS
    SignalledIsWritten
    PairOnDisk
    EnvoyWithinItsMeans
    OnlyUnderWayReturns
PROPERTIES
    AgentReturns
    RunningIsRegistered
CHECK_DEADLOCK FALSE
