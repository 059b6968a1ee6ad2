CONSTANTS
    Files <- MCFiles
    MaxAddress = 65535
    MaxSlave = 247
    MaxPollInterval = 300000
    DefaultCalcInterval = 1000
    MaxPort = 65535

SPECIFICATION Spec
CHECK_DEADLOCK FALSE

INVARIANTS
    OneVerdict
    PolledAsConfigured
    InputsAvailable
    TopicsMatch
