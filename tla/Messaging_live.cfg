SPECIFICATION LinkedFairSpec
CONSTANTS
    a = a
    b = b
    User = {a, b}
    MsgId = {i1, i2}
    NoBox = NoBox
    NoScreen = NoScreen
    Greeting = Greeting
    LateDelivery = FALSE
    Typed <- OneSide
    MaxDrops = 1
    MaxKills = 1
CHECK_DEADLOCK FALSE
INVARIANT EntryIsSomeonesLatest
PROPERTIES Delivered ImplementsMessaging
