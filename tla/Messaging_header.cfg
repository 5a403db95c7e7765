SPECIFICATION Spec
CONSTANTS
    a = a
    b = b
    User = {a, b}
    MsgId = {i1, i2}
    NoBox = NoBox
    NoScreen = NoScreen
    Greeting = Greeting
    LateDelivery = FALSE
    Typed <- OneSide
    MaxDrops = 0
    MaxKills = 0
CHECK_DEADLOCK FALSE
INVARIANT HeaderIsFriend
