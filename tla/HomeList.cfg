SPECIFICATION FairSpec
CONSTANTS
    Account = {a, b}
    NumFriends = 2
    Height = 2
    MaxNews = 2
    MaxFetches = 2
    MaxCells = 3
CHECK_DEADLOCK FALSE
INVARIANTS TypeOK TapOpensItsRow EndsInSnapshot
PROPERTY OwnListComes
