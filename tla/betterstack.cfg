\* Two incidents, a failing call and a restart.
SPECIFICATION FairSpec
CONSTANTS
    i1 = i1  i2 = i2
    Incident = {i1, i2}
    ReminderInterval = 2
    Lookback = 2
    MaxTime = 3
    MaxFaults = 1
    MaxCrashes = 1
INVARIANTS EachLossExplained
PROPERTIES OpenIsTracked
