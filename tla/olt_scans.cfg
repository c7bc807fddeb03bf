\* Two Nokia OLTs and a Huawei, every kind of scan on two goroutines.
SPECIFICATION Spec
CONSTANTS
    n1 = n1  n2 = n2  h1 = h1  cron = cron  req = req  none = none
    Nokia = {n1, n2}
    Huawei = {h1}
    Scanned <- AllKinds
    Goroutine = {cron, req}
    PreserveAbove = 1
    None = none
    MaxScans = 3
    MaxFaults = 1
INVARIANTS EachSnapshotOnce
PROPERTIES NeverOlder
