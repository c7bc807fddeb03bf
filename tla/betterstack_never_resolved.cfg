\* Violated: reminders go on after the incident is resolved.
SPECIFICATION Spec
CONSTANTS
    i1 = i1  i2 = i2
    Incident = {i1}
    ReminderInterval = 2
    Lookback = 1
    MaxTime = 3
    MaxFaults = 0
    MaxCrashes = 0
INVARIANTS NoReminderOnceResolved
