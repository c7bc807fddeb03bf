\* Two administrators, a device list and a BNG check beside two executions; a call fails, a crash.
SPECIFICATION Spec
CONSTANTS
    h1 = h1  h2 = h2  g1 = g1  g2 = g2  adm1 = adm1  adm2 = adm2  v1 = v1  k1 = k1
    mainGo = mainGo  none = none
    MaxJobs = 2
    MaxDevices = 2
    MaxRuns = 3
    Host = {h1, h2}
    Cisco = {h1}
    NocScope = TRUE
    NocHosts = {h1, h2}
    InitialDevices <- OneDevice
    Inputs <- TwoInputs
    InitialJobs <- NoneOrBackup
    Runner = {g1, g2}
    Admin = {adm1, adm2}
    Viewer = {v1}
    Checker = {k1}
    Main = mainGo
    None = none
    MaxEvents = 2
INVARIANTS ScheduledAsStored StatusTellsLastRuns PendingIsRunning
SYMMETRY GoroutineSymmetry

CONSTRAINT FewAtWork
