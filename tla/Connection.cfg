SPECIFICATION FairSpec
CONSTANTS
    AuthLinked = TRUE
    MaxPuts = 2
    MaxFaults = 3
    MaxOffline = 2
CHECK_DEADLOCK FALSE
INVARIANTS StatesAgree QuietWhenInterrupted AlwaysTrying
PROPERTIES ImplementsWriteLink ComesUpForGood PutsAnswered
