SPECIFICATION FairSpec
CONSTANTS
    Account = {a, b}
    Id = {b, c}
    MaxLookups = 2
    MaxSwitches = 1
    MaxMessages = 2
CHECK_DEADLOCK FALSE
INVARIANT TypeOK
PROPERTIES OldConversationKept Quiet LookupAnswered
