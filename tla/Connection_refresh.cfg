SPECIFICATION Spec
CONSTANTS
    AuthLinked = TRUE
    MaxPuts = 0
    MaxFaults = 2
    MaxOffline = 0
CHECK_DEADLOCK FALSE
INVARIANT RefreshedAfterRevocation
