SPECIFICATION FairSpec
CONSTANTS
    Account = {A, B}
    NoAccount = NoAccount
    MaxSignIns = 2
    MaxLaunches = 2
CHECK_DEADLOCK FALSE
INVARIANTS TypeOK SignInAtTheEnds HomeRegisteredAtRest
PROPERTIES HomeNeedsToken SignInEnds
