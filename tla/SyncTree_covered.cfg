CONSTANTS
    Root = Root
    Child = {a}
    Version = {v1, v2}
    None = None
    MaxObserves = 3
    MaxRemovals = 1
    MaxChanges = 1
    MaxDrops = 1
    MaxDenials = 0
SPECIFICATION Spec
INVARIANT ToldIsHeld
CHECK_DEADLOCK FALSE
