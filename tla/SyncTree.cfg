CONSTANTS
    Root = Root
    Child = {a}
    Version = {v1, v2}
    None = None
    MaxObserves = 3
    MaxRemovals = 2
    MaxChanges = 2
    MaxDrops = 1
    MaxDenials = 1
SPECIFICATION FairSpec
INVARIANTS ListensCover ViewsAgree CurrentAtRest ListenedCurrentAtRest
PROPERTIES FirstValueIsHeld FirstValueComes
CHECK_DEADLOCK FALSE
