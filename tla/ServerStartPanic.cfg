CONSTANTS
    Configs <- MCConfigs
    Unions <- MCUnions
    MaxStarts = 2
    MaxFailures = 2
SPECIFICATION Spec
CHECK_DEADLOCK FALSE
INVARIANT SignalIsGraceful
