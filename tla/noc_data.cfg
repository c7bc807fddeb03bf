\* A router with two addresses and up to three rows, the full run and one request at a time.
SPECIFICATION Spec
CONSTANTS
    router = router  cisco = cisco  mikrotik = mikrotik  jo = jo  mo = mo
    wide = wide  narrow = narrow  low = low  high = high  backwards = backwards  weekly = weekly  req = req  a = a  b = b  none = none
    MaxRows = 3
    Host = {1, 2}
    AddressOf <- Addresses
    Device = {router}
    DeviceAt <- OneRouter
    Family = {cisco, mikrotik}
    FamilyOf <- IsCisco
    SerialOptional = {cisco}
    Login = {jo, mo}
    Accepts <- LetsJoIn
    DeviceRange = {wide, narrow}
    Exclusion = {low, high, backwards}
    TargetOf <- Targets
    InitialTables <- Tables
    InitialLogins <- JoAndMo
    FullRun = weekly
    Request = {req}
    Slot = {a, b}
    None = none
    MaxEvents = 3
INVARIANTS OneRowPerDevice PendingIsCollected
PROPERTIES DeviceKept
SYMMETRY SlotSymmetry
