\* Fair goroutines with two reactions, or with a failed call, a crash or a Stop: alerts shown, check marks, reminders, AlarmDelivery.
SPECIFICATION FairSpec
CONSTANTS
    a1 = a1  a2 = a2  fpA = fpA  t1 = t1  mainGo = mainGo  u1 = u1
    Alert = {a1, a2}
    Fingerprint = {fpA}
    Fp <- TwoOfOneAlarm
    Flusher = {t1, mainGo}
    Main = mainGo
    User = {u1}
    MaxMessages = 2
    MaxEvents = 2
    MaxTime = 1
    MayStop = TRUE
    MaxCrashes = 1
    ReminderInterval = 1
    ReminderLimit = 1
    MaxFaults = 1
    Far = 60
INVARIANTS ClosedIsResolved
PROPERTIES EveryAlertShown CheckMarkResolves DueIsReminded ImplementsDelivery
CONSTRAINT EventsOrTrouble
