\* Documents indexed late; a failed call, a crash, a filter edit, a slow tick, a gap or the shutdown: from Elasticsearch to the thread.
SPECIFICATION PipelineSpec
CONSTANTS
    d1 = d1  d2 = d2  d3 = d3  r1 = r1  r2 = r2  r3 = r3  r4 = r4  NoFilter = NoFilter
    fpA = fpA  t1 = t1  mainGo = mainGo  fltX = fltX  fltY = fltY
    Alert = {r1, r2, r3, r4}
    Doc = {d1, d2, d3}
    DocOf <- OneSpare
    DocFp <- DocAlarms
    Fingerprint = {fpA}
    Fp <- FpToSpare
    Flusher = {t1, mainGo}
    Main = mainGo
    User = {}
    MaxMessages = 4
    MaxEvents = 0
    MaxTime = 3
    MayStop = TRUE
    MaxCrashes = 1
    ReminderInterval = 10
    ReminderLimit = 1
    MaxFaults = 1
    Far = 60
    Filter = {fltX, fltY}
    Matches <- SharedDoc
    LogTime <- LogTimes
    PollWindow = 2
    SearchAhead = 0
    HitLimit = 3
    DedupWindow = 1
    RetentionAge = 2
    IndexLag = 1
    MaxEdits = 1
INVARIANTS ShownAtMostOnce LinkedWhereShown DedupSpacing NoLogMissed StopLeavesNothingBehind
SYMMETRY SpareSymmetry
CONSTRAINT OneTrouble
