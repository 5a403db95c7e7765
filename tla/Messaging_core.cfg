SPECIFICATION Spec
CONSTANTS
    a = a
    b = b
    User = {a, b}
    MsgId = {i1, i2}
    NoBox = NoBox
    NoScreen = NoScreen
    Greeting = Greeting
    LateDelivery = TRUE
    Typed <- OneSide
    MaxDrops = 1
    MaxKills = 1
CHECK_DEADLOCK FALSE
SYMMETRY Symmetry
INVARIANTS SenderCopyLeads EntryIsLogged EntryTellsWhoSpoke CopiesAgreeAtRest
PROPERTIES ImplementsSharedLog
