\* Two requests at a time edit a ledger of a node and an action; a transaction fails or two deadlock.
SPECIFICATION Spec
CONSTANTS
    web1 = web1  web2 = web2  kA = kA  kB = kB
    Request = {web1, web2}
    Key = {kA, kB}
    Initial = {0}
    Input <- Entries
    Import <- Sheets
    InitialNodes <- OneNode
    InitialActions <- OneAction
    MomentsPerDay = 2
    LastMoment = 3
    Shift <- OneBehind
    MaxNodes = 2
    MaxActions = 3
    MaxRequests = 4
    MaxFaults = 1
INVARIANTS LedgerAddsUp DaysAddUp
SYMMETRY RequestSymmetry
