SPECIFICATION Spec
CONSTANTS
    Account = {A, B}
    NoAccount = NoAccount
    MaxSignIns = 1
    MaxLaunches = 1
CHECK_DEADLOCK FALSE
PROPERTY
    ObserverRemoved
