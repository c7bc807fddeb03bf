------------------------------- MODULE Workflow -------------------------------
(***************************************************************************)
(* Team workflow jobs: the HTTP handlers that edit jobs and devices        *)
(* (internal/handlers/workflow_handler.go), the scheduler that runs jobs   *)
(* on devices (internal/scheduler/WorkflowScheduler.go) and their tables   *)
(* (internal/repository/Workflow_repo.go), for one scope.                  *)
(*                                                                         *)
(* ReloadAll runs in the goroutine of each request that edited a job and   *)
(* holds no lock, not even on jobMap: two that overlap read each other's    *)
(* half-made registrations, or end the program (Go stops one that finds two *)
(* goroutines in a map).  A job is executed by gocron or by a goroutine of  *)
(* its own (Run Now).  gocron and gorm are outside the repository: an entry of     *)
(* gocron is never running twice, RemoveByTags does not stop an execution, *)
(* and Save of a row that is deleted writes it anew.                       *)
(*                                                                         *)
(* A definition named for a defect (...Forgotten, ...ByLast, ...Unfinished, *)
(* ...Unknown) is a faulty variant of the definition that follows it.      *)
(***************************************************************************)
EXTENDS Naturals, FiniteSets

CONSTANTS
    MaxJobs, MaxDevices, MaxRuns,  \* rows the tables can take (bounds)
    Host,                  \* addresses of devices
    Cisco,                 \* hosts that need "write memory" after a backup
    NocScope,              \* the "noc" scheduler: devices come from NOC data
    NocHosts,              \* hosts NOC data lists
    Inputs,                \* jobs a request may ask for
    InitialJobs,           \* tables of jobs the program may find when it starts
    InitialDevices,        \* tables of devices it may find
    Runner,                \* goroutines that execute jobs
    Admin,                 \* requests that edit jobs and devices
    Viewer,                \* requests that list devices (and sync them first)
    Checker,               \* BNG sync checks
    Main,                  \* the start of the program
    None,
    MaxEvents              \* bound on requests, failed calls and crashes together

Job == 1 .. MaxJobs
Device == 1 .. MaxDevices
Run == 1 .. MaxRuns
Reloader == Admin \cup {Main}
AllDevices == 0        \* target of a group job

(* A schedule gocron refuses is skipped as "once" is.                      *)
JobInput == [kind: {"backup", "command"}, target: Device \cup {AllDevices},
             schedule: {"once", "periodic"}]
JobRow == [input: JobInput, live: BOOLEAN, enabled: BOOLEAN,
           status: {"pending", "ok", "error"}]
DeviceRow == [live: BOOLEAN, host: Host]
RunRow == [job: Job, host: Host, status: {"pending", "ok", "error"}]

ASSUME WorkflowAssumption ==
    /\ {MaxJobs, MaxDevices, MaxRuns} \subseteq Nat
    /\ MaxEvents \in Nat
    /\ Cisco \subseteq Host /\ NocHosts \subseteq Host
    /\ NocScope \in BOOLEAN /\ Inputs \subseteq JobInput
    /\ InitialJobs \subseteq [Job -> JobRow \cup {None}]
    /\ InitialDevices \subseteq [Device -> DeviceRow \cup {None}]
    /\ None \notin Host \cup JobRow \cup DeviceRow \cup RunRow /\ Main \notin Admin

VARIABLES
    jobs,      \* table of jobs: None, or a row (live: not soft-deleted)
    devices,   \* table of devices
    runs,      \* table of runs
    regs,      \* entries gocron holds for each job
    jobMap,    \* WorkflowScheduler.jobMap: jobs whose tag is remembered
    runner,    \* executions of jobs
    adm,       \* requests that edit, and Main
    viewer, checker,
    overlapped,  \* history: two reloads of this process were under way at once
    lastRuns,  \* history: runs of the execution that last told a job's status
    overwritten,  \* history: jobs whose status was found, or put back by an edit
    requests, faults, crashes

tables == <<jobs, devices, runs>>
sched == <<regs, jobMap, overlapped>>
history == <<lastRuns, overwritten>>
bounds == <<requests, faults, crashes>>
vars == <<tables, sched, runner, adm, viewer, checker, history, bounds>>

IdleRunner == [pc |-> "idle", job |-> 0, kind |-> "command", current |-> FALSE,
               todo |-> {}, host |-> None, run |-> 0, mine |-> {},
               failed |-> FALSE]
IdleAdmin == [pc |-> "idle", job |-> 0, row |-> None, todo |-> {}]
IdleViewer == [pc |-> "idle", todo |-> {}, host |-> None, found |-> 0]
IdleChecker == [pc |-> "idle", todo |-> {}, dev |-> None, job |-> 0, run |-> 0,
                outcome |-> "pending"]

LiveJob(j) == j \in Job /\ jobs[j] # None /\ jobs[j].live
LiveDevice(d) == d \in Device /\ devices[d] # None /\ devices[d].live
Unused(table) == {i \in DOMAIN table : table[i] = None}
First(S) == CHOOSE i \in S : \A k \in S : i <= k
AtHost(h) == {d \in Device : LiveDevice(d) /\ devices[d].host = h}

Registrable(row) == row.live /\ row.enabled /\ row.input.schedule = "periodic"

(* A new row is enabled whatever the request says: gorm leaves a false      *)
(* field with a default out of the INSERT.                                  *)
NewJobRow(input) == [input |-> input, live |-> TRUE, enabled |-> TRUE, status |-> "pending"]

Budget == requests + faults + crashes < MaxEvents
Fails == Budget /\ faults' = faults + 1
Works == UNCHANGED faults
-----------------------------------------------------------------------------
(* Start registers the stored jobs before requests are served.             *)
Init ==
    /\ jobs \in InitialJobs
    /\ devices \in InitialDevices
    /\ runs = [r \in Run |-> None]
    /\ regs = [j \in Job |-> 0]
    /\ jobMap = {} /\ overlapped = FALSE
    /\ runner = [g \in Runner |-> IdleRunner]
    /\ adm = [a \in Reloader |->
                 IF a = Main THEN [IdleAdmin EXCEPT !.pc = "reload"] ELSE IdleAdmin]
    /\ viewer = [v \in Viewer |-> IdleViewer]
    /\ checker = [k \in Checker |-> IdleChecker]
    /\ lastRuns = [j \in Job |-> {}]
    /\ overwritten = {j \in Job : jobs[j] # None /\ jobs[j].status # "pending"}
    /\ requests = 0 /\ faults = 0 /\ crashes = 0

Reloading(a) == adm[a].pc \in {"remove", "list", "register", "remember"}
ReloadsOverlap == \E a, b \in Reloader : a # b /\ Reloading(a) /\ Reloading(b)

(* A crash loses everything but the tables.                                *)
Crash ==
    /\ Budget \/ ReloadsOverlap
    /\ crashes' = crashes + 1
    /\ regs' = [j \in Job |-> 0]
    /\ jobMap' = {} /\ overlapped' = FALSE
    /\ runner' = [g \in Runner |-> IdleRunner]
    /\ adm' = [a \in Reloader |->
                  IF a = Main THEN [IdleAdmin EXCEPT !.pc = "reload"] ELSE IdleAdmin]
    /\ viewer' = [v \in Viewer |-> IdleViewer]
    /\ checker' = [k \in Checker |-> IdleChecker]
    /\ UNCHANGED <<tables, history, requests, faults>>
-----------------------------------------------------------------------------
(* ReloadAll of goroutine a.                                               *)
GoTo(a, pc) == adm' = [adm EXCEPT ![a].pc = pc]

StartReload(a) ==
    /\ adm[a].pc = "reload"
    /\ adm' = [adm EXCEPT ![a].pc = "remove", ![a].todo = jobMap]
    /\ overlapped' = (overlapped \/ \E b \in Reloader : Reloading(b))
    /\ UNCHANGED <<tables, regs, jobMap, runner, viewer, checker, history, bounds>>

(* RemoveByTags: executions that run go on, on their own.                  *)
RemoveTag(a) ==
    /\ adm[a].pc = "remove"
    /\ \E j \in adm[a].todo :
          /\ regs' = [regs EXCEPT ![j] = 0]
          /\ runner' = [g \in Runner |-> IF runner[g].job = j
                                         THEN [runner[g] EXCEPT !.current = FALSE]
                                         ELSE runner[g]]
          /\ adm' = [adm EXCEPT ![a].todo = @ \ {j}]
    /\ UNCHANGED <<tables, jobMap, overlapped, viewer, checker, history, bounds>>

ResetMap(a) ==
    /\ adm[a].pc = "remove" /\ adm[a].todo = {}
    /\ jobMap' = {}
    /\ GoTo(a, "list")
    /\ UNCHANGED <<tables, regs, overlapped, runner, viewer, checker, history, bounds>>

(* ListEnabledJobs; register skips jobs that run once or whose schedule     *)
(* gocron refuses.                                                          *)
ListJobs(a) ==
    /\ adm[a].pc = "list"
    /\ \/ /\ Works
          /\ adm' = [adm EXCEPT ![a].pc = "register",
                                ![a].todo = {j \in Job : jobs[j] # None
                                                         /\ Registrable(jobs[j])}]
       \/ /\ Fails
          /\ adm' = [adm EXCEPT ![a] = IdleAdmin]
    /\ UNCHANGED <<tables, sched, runner, viewer, checker, history, requests, crashes>>

NewGocronJob(a) ==
    /\ adm[a].pc = "register"
    /\ \E j \in adm[a].todo :
          /\ regs' = [regs EXCEPT ![j] = @ + 1]
          /\ adm' = [adm EXCEPT ![a].pc = "remember", ![a].job = j, ![a].todo = @ \ {j}]
    /\ UNCHANGED <<tables, jobMap, overlapped, runner, viewer, checker, history, bounds>>

RememberTagForgotten(a) ==
    /\ adm[a].pc = "remember"
    /\ adm' = [adm EXCEPT ![a].pc = "register", ![a].job = 0]
    /\ UNCHANGED <<tables, sched, runner, viewer, checker, history, bounds>>

(* A goroutine that ranges over the map may meet the new tag or not.        *)
RememberTag(a) ==
    /\ adm[a].pc = "remember"
    /\ jobMap' = jobMap \cup {adm[a].job}
    /\ \E meet \in SUBSET {b \in Reloader : adm[b].pc = "remove"} :
          adm' = [b \in Reloader |->
                     IF b = a THEN [adm[a] EXCEPT !.pc = "register", !.job = 0]
                     ELSE IF b \in meet THEN [adm[b] EXCEPT !.todo = @ \cup {adm[a].job}]
                     ELSE adm[b]]
    /\ UNCHANGED <<tables, regs, overlapped, runner, viewer, checker, history, bounds>>

EndReload(a) ==
    /\ adm[a].pc = "register" /\ adm[a].todo = {}
    /\ adm' = [adm EXCEPT ![a] = IdleAdmin]
    /\ UNCHANGED <<tables, sched, runner, viewer, checker, history, bounds>>

Reload(a) ==
    \/ StartReload(a) \/ RemoveTag(a) \/ ResetMap(a) \/ ListJobs(a)
    \/ NewGocronJob(a) \/ RememberTag(a) \/ EndReload(a)
-----------------------------------------------------------------------------
(* Requests.                                                               *)
Serving == adm[Main].pc = "idle"

Request(idle) ==
    /\ Serving /\ idle
    /\ Budget
    /\ requests' = requests + 1
    /\ UNCHANGED crashes

(* The table of runs takes n more beside those under way (bound).          *)
RoomForRuns(n) ==
    LET ahead == UNION {{g} \X runner[g].todo : g \in Runner}
        checks == {k \in Checker : checker[k].pc # "idle"}
    IN  Cardinality(Unused(runs)) >= n + Cardinality(ahead) + 2 * Cardinality(checks)

(* A goroutine that executes job j.                                        *)
Launch(g, j, current) ==
    /\ runner[g].pc = "idle"
    /\ runner' = [runner EXCEPT ![g] = [IdleRunner EXCEPT
                     !.pc = "load", !.job = j, !.current = current]]

CreateJob(a) ==
    /\ Request(adm[a].pc = "idle") /\ Unused(jobs) # {}
    /\ UNCHANGED <<devices, runs, sched, viewer, checker, history>>
    /\ \/ /\ Fails /\ UNCHANGED <<jobs, adm, runner>>
       \/ /\ Works
          /\ \E input \in Inputs :
                /\ input.target = AllDevices \/ LiveDevice(input.target)
                /\ jobs' = [jobs EXCEPT ![First(Unused(jobs))] = NewJobRow(input)]
                /\ IF input.schedule = "once"
                   THEN /\ \E g \in Runner : Launch(g, First(Unused(jobs)), FALSE)
                        /\ UNCHANGED adm
                   ELSE /\ GoTo(a, "reload")
                        /\ UNCHANGED runner

(* UpdateJob reads the row, and saves all of it with the edits.            *)
ReadJob(a) ==
    /\ Request(adm[a].pc = "idle") /\ Works
    /\ \E j \in Job :
          /\ LiveJob(j)
          /\ adm' = [adm EXCEPT ![a].pc = "save", ![a].job = j, ![a].row = jobs[j]]
    /\ UNCHANGED <<tables, sched, runner, viewer, checker, history>>

SaveJob(a) ==
    /\ adm[a].pc = "save"
    /\ \/ /\ Fails
          /\ adm' = [adm EXCEPT ![a] = IdleAdmin]
          /\ UNCHANGED <<jobs, overwritten>>
       \/ /\ Works
          /\ \/ \E enabled \in BOOLEAN :
                   jobs' = [jobs EXCEPT ![adm[a].job] =
                               [adm[a].row EXCEPT !.enabled = enabled]]
             \/ \E schedule \in {"once", "periodic"} :
                   jobs' = [jobs EXCEPT ![adm[a].job] =
                               [adm[a].row EXCEPT !.input.schedule = schedule]]
          /\ overwritten' = IF jobs[adm[a].job].status # adm[a].row.status
                            THEN overwritten \cup {adm[a].job} ELSE overwritten
          /\ adm' = [adm EXCEPT ![a] = [IdleAdmin EXCEPT !.pc = "reload"]]
    /\ UNCHANGED <<devices, runs, sched, runner, viewer, checker, lastRuns, requests, crashes>>

DeleteJob(a) ==
    /\ Request(adm[a].pc = "idle")
    /\ \/ /\ Fails /\ UNCHANGED <<jobs, adm>>
       \/ /\ Works
          /\ \E j \in Job :
                jobs' = IF LiveJob(j) THEN [jobs EXCEPT ![j].live = FALSE] ELSE jobs
          /\ GoTo(a, "reload")
    /\ UNCHANGED <<devices, runs, sched, runner, viewer, checker, history>>

RunJobNow(a) ==
    /\ Request(adm[a].pc = "idle") /\ Works
    /\ \E g \in Runner, j \in Job : Launch(g, j, FALSE)
    /\ UNCHANGED <<tables, sched, adm, viewer, checker, history>>

CreateDevice(a) ==
    /\ Request(adm[a].pc = "idle") /\ Works /\ Unused(devices) # {}
    /\ \E h \in Host :
          devices' = [devices EXCEPT ![First(Unused(devices))] = [live |-> TRUE, host |-> h]]
    /\ UNCHANGED <<jobs, runs, sched, runner, adm, viewer, checker, history>>

(* UpdateDevice, its read and its save in one step.                        *)
UpdateDevice(a) ==
    /\ Request(adm[a].pc = "idle") /\ Works
    /\ \E d \in Device, h \in Host :
          LiveDevice(d) /\ devices' = [devices EXCEPT ![d].host = h]
    /\ UNCHANGED <<jobs, runs, sched, runner, adm, viewer, checker, history>>

DeleteDevice(a) ==
    /\ Request(adm[a].pc = "idle") /\ Works
    /\ \E d \in Device :
          LiveDevice(d) /\ devices' = [devices EXCEPT ![d].live = FALSE]
    /\ UNCHANGED <<jobs, runs, sched, runner, adm, viewer, checker, history>>

Edit(a) ==
    \/ CreateJob(a) \/ ReadJob(a) \/ SaveJob(a) \/ DeleteJob(a) \/ RunJobNow(a)
    \/ CreateDevice(a) \/ UpdateDevice(a) \/ DeleteDevice(a)
-----------------------------------------------------------------------------
(* ListDevices of the NOC page: syncNocWorkflowDevices, host by host.      *)
StartSync(v) ==
    /\ Request(viewer[v].pc = "idle") /\ Works /\ NocScope
    /\ viewer' = [viewer EXCEPT ![v].pc = "look", ![v].todo = NocHosts]
    /\ UNCHANGED <<tables, sched, runner, adm, checker, history>>

LookForDevice(v) ==
    /\ viewer[v].pc = "look"
    /\ IF viewer[v].todo = {}
       THEN viewer' = [viewer EXCEPT ![v] = IdleViewer]
       ELSE \E h \in viewer[v].todo :
               viewer' = [viewer EXCEPT
                   ![v] = [pc |-> "write", todo |-> @.todo \ {h}, host |-> h,
                           found |-> IF AtHost(h) = {} THEN 0 ELSE First(AtHost(h))]]
    /\ UNCHANGED <<tables, sched, runner, adm, checker, history, bounds>>

(* The save writes the whole row, a deleted one too.                       *)
WriteDevice(v) ==
    /\ viewer[v].pc = "write"
    /\ \/ /\ Fails
          /\ viewer' = [viewer EXCEPT ![v] = IdleViewer]
          /\ UNCHANGED devices
       \/ /\ Works
          /\ viewer' = [viewer EXCEPT ![v] = [IdleViewer EXCEPT !.pc = "look", !.todo = viewer[v].todo]]
          /\ LET row == [live |-> TRUE, host |-> viewer[v].host] IN
             devices' = IF viewer[v].found # 0
                        THEN [devices EXCEPT ![viewer[v].found] = row]
                        ELSE IF Unused(devices) = {} THEN devices  \* bound
                        ELSE [devices EXCEPT ![First(Unused(devices))] = row]
    /\ UNCHANGED <<jobs, runs, sched, runner, adm, checker, history, requests, crashes>>

Sync(v) == StartSync(v) \/ LookForDevice(v) \/ WriteDevice(v)
-----------------------------------------------------------------------------
(* gocron starts an execution unless the entry still runs one.             *)
Tick(g) ==
    /\ \E j \in Job :
          /\ Cardinality({r \in Runner : runner[r].job = j /\ runner[r].current}) < regs[j]
          /\ Launch(g, j, TRUE)
    /\ UNCHANGED <<tables, sched, adm, viewer, checker, history, bounds>>

(* resolveTargetDevices: rows as they are now; a NOC group takes one row   *)
(* of each host.                                                           *)
Targets(row) ==
    LET live == {d \in Device : LiveDevice(d)}
        first == {First(AtHost(h)) : h \in {x \in NocHosts : AtHost(x) # {}}}
        chosen == IF row.input.target # AllDevices THEN {row.input.target} \cap live
                  ELSE IF NocScope THEN first ELSE live
    IN  {<<d, devices[d].host>> : d \in chosen}

(* UpdateJobStatus: only a row that is not deleted; errors are ignored.    *)
WriteStatus(j, status, told) ==
    IF LiveJob(j)
    THEN /\ jobs' = [jobs EXCEPT ![j].status = status]
         /\ lastRuns' = [lastRuns EXCEPT ![j] = told]
         /\ overwritten' = overwritten \ {j}
    ELSE UNCHANGED <<jobs, history>>

TellStatus(j, status, told) ==
    \/ Works /\ WriteStatus(j, status, told)
    \/ Fails /\ UNCHANGED <<jobs, history>>

Load(g) ==
    /\ runner[g].pc = "load"
    /\ LET j == runner[g].job IN
       \/ /\ \/ Fails
             \/ ~LiveJob(j) /\ Works
          /\ runner' = [runner EXCEPT ![g] = IdleRunner]
          /\ UNCHANGED <<jobs, history>>
       \/ /\ LiveJob(j)
          /\ \/ Targets(jobs[j]) = {} /\ TellStatus(j, "error", {})
             \/ Fails /\ WriteStatus(j, "error", {})   \* devices not read
          /\ runner' = [runner EXCEPT ![g] = IdleRunner]
       \/ /\ LiveJob(j) /\ Targets(jobs[j]) # {} /\ Works
          /\ RoomForRuns(Cardinality(Targets(jobs[j])))
          /\ runner' = [runner EXCEPT ![g].pc = "next", ![g].kind = jobs[j].input.kind,
                                      ![g].todo = Targets(jobs[j])]
          /\ UNCHANGED <<jobs, history>>
    /\ UNCHANGED <<devices, runs, sched, adm, viewer, checker, requests, crashes>>

(* runJobForDevice up to the record of the run.                            *)
StartDevice(g) ==
    /\ runner[g].pc = "next"
    /\ \E t \in runner[g].todo :
       /\ \A u \in runner[g].todo : t[1] <= u[1]
       /\ \/ /\ Works /\ Unused(runs) # {}   \* RoomForRuns
             /\ LET r == First(Unused(runs)) IN
                /\ runs' = [runs EXCEPT ![r] = [job |-> runner[g].job, host |-> t[2],
                                                status |-> "pending"]]
                /\ runner' = [runner EXCEPT
                       ![g].pc = "send", ![g].todo = @ \ {t}, ![g].host = t[2],
                       ![g].run = r, ![g].mine = @ \cup {r}]
          \/ /\ Fails
             /\ runner' = [runner EXCEPT ![g].todo = @ \ {t}, ![g].failed = TRUE]
             /\ UNCHANGED runs
    /\ UNCHANGED <<jobs, devices, sched, adm, viewer, checker, history, requests, crashes>>

(* FinishRun of the run at hand: an error is ignored, the row stays        *)
(* pending.                                                                *)
FinishRunUnfinished(r, status) ==
    Works /\ runs' = IF status = "ok" THEN [runs EXCEPT ![r].status = status] ELSE runs

FinishRun(r, status) ==
    \/ /\ Works /\ runs' = [runs EXCEPT ![r].status = status]
    \/ /\ Fails /\ UNCHANGED runs

DeviceDoneByLast(r, failed) ==
    [r EXCEPT !.pc = "next", !.host = None, !.run = 0, !.failed = failed]

DeviceDone(r, failed) ==
    [r EXCEPT !.pc = "next", !.host = None, !.run = 0, !.failed = @ \/ failed]

(* The device answers the job's commands or not; a Cisco backup goes on to *)
(* save the configuration, which may fail.                                 *)
Send(g) ==
    /\ \/ /\ runner[g].pc = "send" /\ runner[g].kind = "backup" /\ runner[g].host \in Cisco
          /\ runner' = [runner EXCEPT ![g].pc = "saveConfig"]
          /\ Works /\ UNCHANGED runs
       \/ /\ \/ runner[g].pc = "saveConfig"
             \/ runner[g].pc = "send" /\ (runner[g].kind = "command" \/ runner[g].host \notin Cisco)
          /\ FinishRun(runner[g].run, "ok")
          /\ runner' = [runner EXCEPT ![g] = DeviceDone(@, FALSE)]
       \/ /\ runner[g].pc \in {"send", "saveConfig"}
          /\ FinishRun(runner[g].run, "error")
          /\ runner' = [runner EXCEPT ![g] = DeviceDone(@, TRUE)]
    /\ UNCHANGED <<jobs, devices, sched, adm, viewer, checker, history, requests, crashes>>

EndJob(g) ==
    /\ runner[g].pc = "next" /\ runner[g].todo = {}
    /\ TellStatus(runner[g].job, IF runner[g].failed THEN "error" ELSE "ok",
                  runner[g].mine)
    /\ runner' = [runner EXCEPT ![g] = IdleRunner]
    /\ UNCHANGED <<devices, runs, sched, adm, viewer, checker, requests, crashes>>

RunJob(g) == Load(g) \/ StartDevice(g) \/ Send(g) \/ EndJob(g)
-----------------------------------------------------------------------------
(* CheckBNGSync: the latest backup of two devices, made now if there is    *)
(* none.                                                                   *)
StartCheck(k) ==
    /\ Request(checker[k].pc = "idle") /\ Works
    /\ Cardinality(Unused(jobs)) >= 2 * Cardinality(Checker) /\ RoomForRuns(2)   \* bound
    /\ \E d, e \in Device :
          /\ d # e /\ LiveDevice(d) /\ LiveDevice(e)
          /\ checker' = [checker EXCEPT ![k].pc = "look",
                   ![k].todo = {<<d, devices[d].host>>, <<e, devices[e].host>>}]
    /\ UNCHANGED <<tables, sched, runner, adm, viewer, history>>

(* latestSuccessfulBackupForDevice                                         *)
HasBackup(dev) ==
    \E r \in Run :
        /\ runs[r] # None /\ runs[r].status = "ok" /\ runs[r].host = dev[2]
        /\ LiveJob(runs[r].job) /\ jobs[runs[r].job].input.kind = "backup"
        /\ jobs[runs[r].job].input.target \in {AllDevices, dev[1]}

(* The job of a backup made now runs once, and was not asked for anywhere. *)
LookForBackup(k) ==
    /\ checker[k].pc = "look"
    /\ IF checker[k].todo = {}
       THEN /\ Works
            /\ checker' = [checker EXCEPT ![k] = IdleChecker]
            /\ UNCHANGED jobs
       ELSE \E dev \in checker[k].todo :
            \/ /\ HasBackup(dev) /\ Works
               /\ checker' = [checker EXCEPT ![k].todo = @ \ {dev}]
               /\ UNCHANGED jobs
            \/ /\ \/ ~HasBackup(dev) /\ Works
                  \/ HasBackup(dev) /\ Fails   \* the runs of a job not read
               /\ Unused(jobs) # {}
               /\ jobs' = [jobs EXCEPT ![First(Unused(jobs))] =
                      NewJobRow([kind |-> "backup", target |-> dev[1], schedule |-> "once"])]
               /\ checker' = [checker EXCEPT ![k].pc = "create", ![k].todo = @ \ {dev},
                      ![k].dev = dev, ![k].job = First(Unused(jobs))]
            \/ /\ Fails
               /\ checker' = [checker EXCEPT ![k] = IdleChecker]
               /\ UNCHANGED jobs
    /\ UNCHANGED <<devices, runs, sched, runner, adm, viewer, history, requests, crashes>>

CreateBackupRun(k) ==
    /\ checker[k].pc = "create"
    /\ \/ /\ Works /\ Unused(runs) # {}   \* RoomForRuns
          /\ LET r == First(Unused(runs)) IN
             /\ runs' = [runs EXCEPT ![r] = [job |-> checker[k].job, host |-> checker[k].dev[2],
                                             status |-> "pending"]]
             /\ checker' = [checker EXCEPT ![k].pc = "backup", ![k].run = r]
       \/ /\ Fails
          /\ checker' = [checker EXCEPT ![k] = IdleChecker]
          /\ UNCHANGED runs
    /\ UNCHANGED <<jobs, devices, sched, runner, adm, viewer, history, requests, crashes>>

(* A backup whose end cannot be written counts as failed, and leaves the   *)
(* job pending.                                                            *)
BackupNow(k) ==
    /\ checker[k].pc = "backup"
    /\ \E outcome \in {"ok", "error"} :
          /\ FinishRun(checker[k].run, outcome)
          /\ checker' = IF outcome = "ok" /\ faults' # faults
                        THEN [checker EXCEPT ![k] = IdleChecker]
                        ELSE [checker EXCEPT ![k].pc = "tell", ![k].outcome = outcome]
    /\ UNCHANGED <<jobs, devices, sched, runner, adm, viewer, history, requests, crashes>>

TellBackupUnknown(k) ==
    /\ checker[k].pc = "tell"
    /\ TellStatus(checker[k].job, "unknown", {checker[k].run})
    /\ checker' = [checker EXCEPT ![k] = IdleChecker]
    /\ UNCHANGED <<devices, runs, sched, runner, adm, viewer, requests, crashes>>

TellBackup(k) ==
    /\ checker[k].pc = "tell"
    /\ TellStatus(checker[k].job, checker[k].outcome, {checker[k].run})
    /\ checker' = IF checker[k].outcome = "ok"
                  THEN [checker EXCEPT ![k] = [IdleChecker EXCEPT !.pc = "look",
                                                                  !.todo = checker[k].todo]]
                  ELSE [checker EXCEPT ![k] = IdleChecker]
    /\ UNCHANGED <<devices, runs, sched, runner, adm, viewer, requests, crashes>>

Check(k) ==
    \/ StartCheck(k) \/ LookForBackup(k) \/ CreateBackupRun(k) \/ BackupNow(k)
    \/ TellBackup(k)
-----------------------------------------------------------------------------
(* Nothing is under way, or only what the bounds on the tables hold up.    *)
AtRest ==
    /\ \A a \in Reloader : adm[a].pc = "idle"
    /\ \A v \in Viewer : viewer[v].pc = "idle"
    /\ \A g \in Runner :
          runner[g].pc = "idle" \/ (runner[g].pc = "load" /\ ~RoomForRuns(MaxDevices))
    /\ \A k \in Checker :
          checker[k].pc = "idle" \/ (checker[k].pc = "look" /\ Unused(jobs) = {})
    /\ UNCHANGED vars

Next ==
    \/ \E a \in Reloader : Reload(a)
    \/ \E a \in Admin : Edit(a)
    \/ \E v \in Viewer : Sync(v)
    \/ \E g \in Runner : Tick(g) \/ RunJob(g)
    \/ \E k \in Checker : Check(k)
    \/ Crash
    \/ AtRest

Spec == Init /\ [][Next]_vars
-----------------------------------------------------------------------------
TypeOK ==
    /\ jobs \in [Job -> JobRow \cup {None}]
    /\ devices \in [Device -> DeviceRow \cup {None}]
    /\ runs \in [Run -> RunRow \cup {None}]
    /\ regs \in [Job -> Nat]
    /\ jobMap \subseteq Job /\ overlapped \in BOOLEAN
    /\ \A g \in Runner :
          /\ runner[g].pc \in {"idle", "load", "next", "send", "saveConfig"}
          /\ runner[g].todo \subseteq Device \X Host
          /\ runner[g].mine \subseteq Run
          /\ runner[g].pc # "idle" => runner[g].job \in Job
          /\ runner[g].pc \in {"send", "saveConfig"} => runner[g].run \in runner[g].mine
    /\ \A a \in Reloader :
          /\ adm[a].pc \in {"idle", "save", "reload", "remove", "list", "register", "remember"}
          /\ adm[a].todo \subseteq Job
          /\ adm[a].pc = "save" => adm[a].row \in JobRow
    /\ \A v \in Viewer : viewer[v].pc \in {"idle", "look", "write"}
    /\ \A k \in Checker : checker[k].pc \in {"idle", "look", "create", "backup", "tell"}

(* ReloadAll, "removes all previously registered gocron jobs and            *)
(* re-registers every enabled WorkflowJob from the database": whenever no   *)
(* edit or reload is under way, gocron holds an entry for every enabled job *)
(* with a valid period, whatever reloads overlapped, if all could list the  *)
(* jobs; and if none overlapped it holds one for each of these jobs and     *)
(* nothing else, or nothing at all after a reload that could not list them. *)
ScheduledAsStored ==
    (\A a \in Reloader : adm[a].pc \in {"idle", "save"}) =>
        /\ faults = 0 =>
              \A j \in Job : jobs[j] # None /\ Registrable(jobs[j]) => regs[j] > 0
        /\ ~overlapped =>
              \/ \A j \in Job : regs[j] = IF jobs[j] # None /\ Registrable(jobs[j]) THEN 1 ELSE 0
              \/ faults > 0 /\ \A j \in Job : regs[j] = 0

(* The status a job shows is that of its last execution: "ok" when every   *)
(* run of it ended well, else "error" - unless the end of a run could not  *)
(* be written, an edit put an older status back, or the program found the  *)
(* status when it started.                                                 *)
StatusTellsLastRuns ==
    faults = 0 =>
        \A j \in Job \ overwritten :
            jobs[j] # None /\ jobs[j].status # "pending" =>
                (jobs[j].status = "ok") =
                    (lastRuns[j] # {} /\ \A r \in lastRuns[j] : runs[r].status = "ok")

Pending(r) == runs[r] # None /\ runs[r].status = "pending"

(* A run that shows "pending" is being executed, unless a call failed or   *)
(* the program crashed: no execution loses its record to an edit of the    *)
(* job, a deletion or another execution.                                   *)
PendingIsRunning ==
    faults + crashes = 0 =>
        \A r \in Run : Pending(r) =>
            \/ \E g \in Runner : runner[g].run = r /\ runner[g].pc \in {"send", "saveConfig"}
            \/ \E k \in Checker : checker[k].run = r /\ checker[k].pc = "backup"
=============================================================================
