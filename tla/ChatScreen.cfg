SPECIFICATION FairSpec
CONSTANTS
    Mine = {1, 3}
    Theirs = {2}
    MaxScreens = 2
    MaxListens = 1
    MaxDrops = 1
CHECK_DEADLOCK FALSE
INVARIANTS TypeOK NoDuplicateBubbles OwnMessagesShown ScreensShowLogAtRest
PROPERTIES NeverRetracted EventuallyShown EventuallyAcked
