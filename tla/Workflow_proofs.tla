--------------------------- MODULE Workflow_proofs ---------------------------
(***************************************************************************)
(* Proofs about Workflow, for any number of jobs, devices, runs and        *)
(* goroutines, every table found at the start and every value of the       *)
(* bounds: PendingIsRunning, StatusTellsLastRuns and ScheduledAsStored.    *)
(*                                                                         *)
(* A run that is under way belongs to one execution or check alone, which  *)
(* remembers what became of its runs until it tells the job's status; a    *)
(* reload that removed an entry lists the jobs afterwards; and one that no  *)
(* other overlapped knows at each statement which entries gocron holds.     *)
(***************************************************************************)
EXTENDS Workflow, WellFoundedInduction, TLAPS

RunnerState ==
    [pc : {"idle", "load", "next", "send", "saveConfig"}, job : Job \cup {0},
     kind : {"backup", "command"}, current : BOOLEAN, todo : SUBSET (Device \X Host),
     host : Host \cup {None}, run : Run \cup {0}, mine : SUBSET Run, failed : BOOLEAN]
AdminState ==
    [pc : {"idle", "save", "reload", "remove", "list", "register", "remember"},
     job : Job \cup {0}, row : JobRow \cup {None}, todo : SUBSET Job]
ViewerState ==
    [pc : {"idle", "look", "write"}, todo : SUBSET Host, host : Host \cup {None},
     found : Device \cup {0}]
CheckerState ==
    [pc : {"idle", "look", "create", "backup", "tell"}, todo : SUBSET (Device \X Host),
     dev : (Device \X Host) \cup {None}, job : Job \cup {0}, run : Run \cup {0},
     outcome : {"pending", "ok", "error"}]

TablesOK ==
    /\ jobs \in [Job -> JobRow \cup {None}]
    /\ devices \in [Device -> DeviceRow \cup {None}]
    /\ runs \in [Run -> RunRow \cup {None}]
    /\ lastRuns \in [Job -> SUBSET Run] /\ overwritten \subseteq Job
SchedOK == regs \in [Job -> Nat] /\ jobMap \subseteq Job /\ overlapped \in BOOLEAN
BoundsOK == requests \in Nat /\ faults \in Nat /\ crashes \in Nat

(* A goroutine's record fits its place, and names rows that are there.      *)
Executing(x) == x.pc \in {"send", "saveConfig"}
FitsRunner(x) ==
    /\ x.pc # "idle" => x.job \in Job
    /\ x.pc \in {"idle", "load"} => x.mine = {} /\ ~x.failed
    /\ Executing(x) => x.run \in x.mine
    /\ \A r \in x.mine : runs[r] # None
FitsAdmin(x) ==
    /\ x.pc \in {"save", "remember"} => x.job \in Job
    /\ x.pc = "save" => x.row \in JobRow /\ jobs[x.job] # None
FitsViewer(x) == x.pc = "write" => x.host \in Host
FitsChecker(x) ==
    /\ x.pc \in {"create", "backup", "tell"} => x.job \in Job /\ x.dev \in Device \X Host
    /\ x.pc \in {"backup", "tell"} => x.run \in Run /\ runs[x.run] # None
    /\ x.pc = "tell" => x.outcome \in {"ok", "error"}

RunnersOK == runner \in [Runner -> RunnerState] /\ \A g \in Runner : FitsRunner(runner[g])
AdminsOK == adm \in [Reloader -> AdminState] /\ \A a \in Reloader : FitsAdmin(adm[a])
ViewersOK == viewer \in [Viewer -> ViewerState] /\ \A v \in Viewer : FitsViewer(viewer[v])
CheckersOK ==
    checker \in [Checker -> CheckerState] /\ \A k \in Checker : FitsChecker(checker[k])
ToldStored == \A j \in Job : \A r \in lastRuns[j] : runs[r] # None

WorkTypeOK ==
    /\ TablesOK /\ SchedOK /\ BoundsOK
    /\ RunnersOK /\ AdminsOK /\ ViewersOK /\ CheckersOK /\ ToldStored

(* A run that is under way has one owner, and while no call has failed it   *)
(* is pending.                                                              *)
Checks(x) == x.pc = "backup"
OneOwner ==
    /\ \A g, h \in Runner :
          g # h /\ Executing(runner[g]) /\ Executing(runner[h]) => runner[g].run # runner[h].run
    /\ \A k, l \in Checker :
          k # l /\ Checks(checker[k]) /\ Checks(checker[l]) => checker[k].run # checker[l].run
    /\ \A g \in Runner, k \in Checker :
          Executing(runner[g]) /\ Checks(checker[k]) => runner[g].run # checker[k].run

(* What an execution knows of its runs, the one under way apart.            *)
Ended(x) == IF Executing(x) THEN x.mine \ {x.run} ELSE x.mine
KnowsRuns(x) ==
    /\ Executing(x) => runs[x.run].status = "pending"
    /\ x.pc = "next" \/ Executing(x) =>
          /\ \A r \in Ended(x) : runs[r].status # "pending"
          /\ x.failed <=> \E r \in Ended(x) : runs[r].status # "ok"
    /\ x.pc = "next" => x.todo # {} \/ x.mine # {}
KnowsBackup(x) ==
    /\ Checks(x) => runs[x.run].status = "pending"
    /\ x.pc = "tell" => runs[x.run].status = x.outcome
WorkKnown ==
    faults = 0 => /\ \A g \in Runner : KnowsRuns(runner[g])
                  /\ \A k \in Checker : KnowsBackup(checker[k])

WorkInv == OneOwner /\ WorkKnown /\ PendingIsRunning

(* The runs that told a job's status have ended, and the status is theirs.  *)
ToldEnded == faults = 0 => \A j \in Job : \A r \in lastRuns[j] : runs[r].status # "pending"
ToldInv == ToldEnded /\ StatusTellsLastRuns

RunInv == WorkTypeOK /\ WorkInv /\ ToldInv

(* An enabled job without an entry is about to get one.                     *)
Timed(row) == row # None /\ Registrable(row)
WillList(x) == x.pc \in {"reload", "remove", "list"}
WillRegister(x, j) == x.pc \in {"register", "remember"} /\ j \in x.todo
NoneMissing ==
    faults = 0 =>
        \A j \in Job : Timed(jobs[j]) =>
            \/ regs[j] > 0
            \/ \E a \in Reloader : WillList(adm[a]) \/ WillRegister(adm[a], j)

(* What a reload knows of gocron's entries while no other overlapped one,   *)
(* up to edits whose reload is still to begin.                              *)
Held == {j \in Job : regs[j] > 0}
Waiting == \E a \in Reloader : adm[a].pc = "reload"
AsStored ==
    \/ \A j \in Job : regs[j] = IF Timed(jobs[j]) THEN 1 ELSE 0
    \/ faults > 0 /\ \A j \in Job : regs[j] = 0
AsListed(x) ==
    /\ \A j \in Job : regs[j] = IF Timed(jobs[j]) /\ j \notin x.todo THEN 1 ELSE 0
    /\ \A j \in x.todo : Timed(jobs[j])
InReload(x) == x.pc \in {"remove", "list", "register", "remember"}
LoneKnows(x) ==
    /\ x.pc = "remove" => Held \subseteq x.todo
    /\ x.pc = "list" => Held = {} /\ jobMap = {}
    /\ x.pc \in {"register", "remember"} =>
          /\ \A j \in x.todo : regs[j] = 0
          /\ Waiting \/ AsListed(x)
    /\ x.pc = "register" => jobMap = Held
    /\ x.pc = "remember" => jobMap \cup {x.job} = Held
LoneInv ==
    ~overlapped =>
        /\ \A a, b \in Reloader : InReload(adm[a]) /\ InReload(adm[b]) => a = b
        /\ \A a \in Reloader : InReload(adm[a]) => LoneKnows(adm[a])
        /\ (\A a \in Reloader : ~InReload(adm[a])) =>
              jobMap = Held /\ (Waiting \/ AsStored)

SchedInv == NoneMissing /\ LoneInv
-----------------------------------------------------------------------------
(* A non-empty set of numbers has a least one: First is in its set.         *)
LEMMA FirstIsIn ==
    ASSUME NEW S \in SUBSET Nat, S # {}
    PROVE  First(S) \in S
<1> DEFINE R == OpToRel(<, Nat)
<1>1. IsWellFoundedOn(R, Nat) BY NatLessThanWellFounded
<1>2. \A m, n \in Nat : m < n => <<m, n>> \in R BY DEF OpToRel
<1> HIDE DEF R
<1>3. \E n \in S : \A m \in S : ~(<<m, n>> \in R) BY <1>1, WFMin
<1>4. \A m, n \in Nat : ~(m < n) => n <= m OBVIOUS
<1>5. \E n \in S : \A m \in S : n <= m BY <1>2, <1>3, <1>4
<1> QED BY <1>5 DEF First

LEMMA Ids == Job \subseteq Nat \ {0} /\ Device \subseteq Nat \ {0} /\ Run \subseteq Nat \ {0}
  BY WorkflowAssumption DEF Job, Device, Run

LEMMA NewRow ==
    ASSUME NEW table, NEW S \in SUBSET Nat, DOMAIN table = S, Unused(table) # {}
    PROVE  First(Unused(table)) \in S /\ table[First(Unused(table))] = None
<1>1. Unused(table) \in SUBSET Nat BY DEF Unused
<1>2. First(Unused(table)) \in Unused(table) BY <1>1, FirstIsIn
<1> QED BY <1>2 DEF Unused

LEMMA IdleStates ==
    /\ IdleRunner \in RunnerState /\ IdleAdmin \in AdminState
    /\ IdleViewer \in ViewerState /\ IdleChecker \in CheckerState
  BY DEF IdleRunner, IdleAdmin, IdleViewer, IdleChecker, RunnerState, AdminState,
         ViewerState, CheckerState

(* Rows stay rows: what a goroutine names stays there.                      *)
RowsStay ==
    /\ \A r \in Run : runs[r] # None => runs'[r] # None
    /\ \A j \in Job : jobs[j] # None => jobs'[j] # None

LEMMA RunnersKeep ==
    ASSUME RunnersOK, RowsStay, runner' = runner
    PROVE  RunnersOK'
  BY DEF RunnersOK, FitsRunner, RowsStay, RunnerState, Executing

LEMMA RunnerMoves ==
    ASSUME RunnersOK, RowsStay, NEW g \in Runner, NEW x \in RunnerState, FitsRunner(x)',
           runner' = [runner EXCEPT ![g] = x]
    PROVE  RunnersOK'
  BY DEF RunnersOK, FitsRunner, RowsStay, RunnerState, Executing

LEMMA AdminsKeep ==
    ASSUME AdminsOK, RowsStay, adm' = adm
    PROVE  AdminsOK'
  BY DEF AdminsOK, FitsAdmin, RowsStay, AdminState

LEMMA AdminMoves ==
    ASSUME AdminsOK, RowsStay, NEW a \in Reloader, NEW x \in AdminState, FitsAdmin(x)',
           adm' = [adm EXCEPT ![a] = x]
    PROVE  AdminsOK'
  BY DEF AdminsOK, FitsAdmin, RowsStay, AdminState

LEMMA CheckersKeep ==
    ASSUME CheckersOK, RowsStay, checker' = checker
    PROVE  CheckersOK'
  BY DEF CheckersOK, FitsChecker, RowsStay, CheckerState

LEMMA CheckerMoves ==
    ASSUME CheckersOK, RowsStay, NEW k \in Checker, NEW x \in CheckerState, FitsChecker(x)',
           checker' = [checker EXCEPT ![k] = x]
    PROVE  CheckersOK'
  BY DEF CheckersOK, FitsChecker, RowsStay, CheckerState

LEMMA ViewersKeep ==
    ASSUME ViewersOK, viewer' = viewer
    PROVE  ViewersOK'
  BY DEF ViewersOK, FitsViewer

LEMMA ViewerMoves ==
    ASSUME ViewersOK, NEW v \in Viewer, NEW x \in ViewerState, FitsViewer(x),
           viewer' = [viewer EXCEPT ![v] = x]
    PROVE  ViewersOK'
  BY DEF ViewersOK, FitsViewer

LEMMA ToldKeeps ==
    ASSUME ToldStored, TablesOK, RowsStay, lastRuns' = lastRuns
    PROVE  ToldStored'
  BY DEF ToldStored, TablesOK, RowsStay
-----------------------------------------------------------------------------
(* Types: what a reload does.                                               *)
LEMMA Unmoved ==
    ASSUME WorkTypeOK, UNCHANGED tables
    PROVE  RowsStay
  BY DEF WorkTypeOK, tables, RowsStay

LEMMA ReloadTyped ==
    ASSUME WorkTypeOK, NEW a \in Reloader, Reload(a)
    PROVE  WorkTypeOK'
<1> USE DEF WorkTypeOK
<1>0. UNCHANGED tables
  BY DEF Reload, StartReload, RemoveTag, ResetMap, ListJobs, NewGocronJob, RememberTag, EndReload,
         tables
<1>1. RowsStay BY <1>0, Unmoved
<1>2. TablesOK' /\ BoundsOK'
  <2>1. UNCHANGED <<lastRuns, overwritten>>
    BY DEF Reload, StartReload, RemoveTag, ResetMap, ListJobs, NewGocronJob, RememberTag,
           EndReload, history
  <2>2. TablesOK' BY <1>0, <2>1 DEF TablesOK, tables
  <2>3. UNCHANGED <<requests, crashes>> /\ (UNCHANGED faults \/ faults' = faults + 1)
    BY DEF Reload, StartReload, RemoveTag, ResetMap, ListJobs, NewGocronJob, RememberTag,
           EndReload, bounds, Works, Fails
  <2> QED BY <2>2, <2>3 DEF BoundsOK
<1>3. ViewersOK' /\ CheckersOK' /\ ToldStored'
  BY <1>1, ViewersKeep, CheckersKeep, ToldKeeps DEF Reload, StartReload, RemoveTag, ResetMap,
         ListJobs, NewGocronJob, RememberTag, EndReload, history
<1>4. SchedOK'
  <2>1. CASE RemoveTag(a)
    BY <2>1 DEF RemoveTag, SchedOK, AdminsOK, AdminState
  <2>2. CASE NewGocronJob(a)
    BY <2>2 DEF NewGocronJob, SchedOK, AdminsOK, AdminState
  <2>3. CASE RememberTag(a)
    BY <2>3 DEF RememberTag, SchedOK, AdminsOK, AdminState, FitsAdmin
  <2>4. CASE ResetMap(a)
    BY <2>4 DEF ResetMap, SchedOK
  <2>5. CASE ListJobs(a) \/ EndReload(a)
    BY <2>5 DEF ListJobs, EndReload, SchedOK, sched
  <2>6. CASE StartReload(a)
    BY <2>6 DEF StartReload, SchedOK
  <2> QED BY <2>1, <2>2, <2>3, <2>4, <2>5, <2>6 DEF Reload
<1>5. RunnersOK'
  <2>1. CASE RemoveTag(a)
    <3>1. PICK j \in adm[a].todo :
             runner' = [g \in Runner |-> IF runner[g].job = j
                                         THEN [runner[g] EXCEPT !.current = FALSE]
                                         ELSE runner[g]]
      BY <2>1 DEF RemoveTag
    <3>2. ASSUME NEW g \in Runner
          PROVE  runner'[g] \in RunnerState /\ FitsRunner(runner[g])'
      <4>1. runner[g] \in RunnerState /\ FitsRunner(runner[g]) BY DEF RunnersOK
      <4>2. runner'[g] = runner[g] \/ runner'[g] = [runner[g] EXCEPT !.current = FALSE]
        BY <3>1
      <4>3. runner'[g] \in RunnerState BY <4>1, <4>2, ZenonT(60) DEF RunnerState
      <4>4. /\ runner'[g].pc = runner[g].pc /\ runner'[g].job = runner[g].job
            /\ runner'[g].mine = runner[g].mine /\ runner'[g].failed = runner[g].failed
            /\ runner'[g].run = runner[g].run
        BY <4>1, <4>2 DEF RunnerState
      <4>5. runs' = runs BY <1>0 DEF tables
      <4> QED BY <4>1, <4>3, <4>4, <4>5 DEF FitsRunner, Executing
    <3> QED BY <3>1, <3>2 DEF RunnersOK
  <2>2. CASE UNCHANGED runner
    BY <1>1, <2>2, RunnersKeep
  <2>3. RemoveTag(a) \/ UNCHANGED runner
    BY DEF Reload, StartReload, ResetMap, ListJobs, NewGocronJob, RememberTag, EndReload, sched
  <2> QED BY <2>1, <2>2, <2>3
<1>6. AdminsOK'
  <2> DEFINE Moved(x) == /\ adm' = [adm EXCEPT ![a] = x] /\ x \in AdminState
                         /\ x.pc # "save" /\ (x.pc = "remember" => x.job \in Job)
  <2>0. /\ adm \in [Reloader -> AdminState] /\ adm[a] \in AdminState /\ jobMap \subseteq Job
    BY DEF AdminsOK, SchedOK
  <2>7. CASE RememberTag(a)
    <3>1. PICK meet \in SUBSET {b \in Reloader : adm[b].pc = "remove"} :
             adm' = [b \in Reloader |->
                        IF b = a THEN [adm[a] EXCEPT !.pc = "register", !.job = 0]
                        ELSE IF b \in meet THEN [adm[b] EXCEPT !.todo = @ \cup {adm[a].job}]
                        ELSE adm[b]]
      BY <2>7 DEF RememberTag
    <3>2. adm[a].job \in Job BY <2>7 DEF RememberTag, AdminsOK, FitsAdmin
    <3>3. ASSUME NEW b \in Reloader
          PROVE  adm'[b] \in AdminState /\ FitsAdmin(adm[b])'
      <4>1. adm[b] \in AdminState /\ FitsAdmin(adm[b]) BY DEF AdminsOK
      <4>2. CASE b = a
        <5>1. adm'[b] = [adm[a] EXCEPT !.pc = "register", !.job = 0] BY <3>1, <4>2
        <5>2. adm'[b] \in AdminState /\ adm'[b].pc = "register"
          BY <2>0, <5>1 DEF AdminState
        <5> QED BY <5>2 DEF FitsAdmin
      <4>3. CASE b \in meet
        <5>0. adm[b].pc = "remove" BY <3>1, <4>3
        <5>1. b # a BY <2>7, <5>0 DEF RememberTag
        <5>2. adm'[b] = [adm[b] EXCEPT !.todo = @ \cup {adm[a].job}] BY <3>1, <4>3, <5>1
        <5>3. adm'[b] \in AdminState /\ adm'[b].pc = "remove"
          BY <3>2, <4>1, <5>0, <5>2 DEF AdminState
        <5> QED BY <5>3 DEF FitsAdmin
      <4>4. CASE b # a /\ b \notin meet
        <5>1. adm'[b] = adm[b] BY <3>1, <4>4
        <5>2. jobs' = jobs BY <1>0 DEF tables
        <5> QED BY <4>1, <5>1, <5>2 DEF FitsAdmin
      <4> QED BY <4>2, <4>3, <4>4
    <3> QED BY <3>1, <3>3 DEF AdminsOK
  <2>8. ~RememberTag(a) => \E x : Moved(x)
    <3> HIDE DEF Moved
    <3>1. CASE StartReload(a)
      <4>1. Moved([adm[a] EXCEPT !.pc = "remove", !.todo = jobMap])
        BY <2>0, <3>1 DEF Moved, StartReload, AdminState
      <4> QED BY <4>1
    <3>2. CASE RemoveTag(a)
      <4>1. PICK j \in adm[a].todo : adm' = [adm EXCEPT ![a].todo = @ \ {j}]
        BY <3>2 DEF RemoveTag
      <4>2. adm[a].pc = "remove" BY <3>2 DEF RemoveTag
      <4>3. Moved([adm[a] EXCEPT !.todo = @ \ {j}])
        BY <2>0, <4>1, <4>2 DEF Moved, AdminState
      <4> QED BY <4>3
    <3>3. CASE ResetMap(a)
      <4>1. Moved([adm[a] EXCEPT !.pc = "list"])
        BY <2>0, <3>3 DEF Moved, ResetMap, GoTo, AdminState
      <4> QED BY <4>1
    <3>4. CASE ListJobs(a)
      <4>1. CASE adm' = [adm EXCEPT ![a] = IdleAdmin]
        <5>1. Moved(IdleAdmin) BY <4>1, IdleStates DEF Moved, IdleAdmin
        <5> QED BY <5>1
      <4>2. CASE adm' = [adm EXCEPT ![a].pc = "register",
                              ![a].todo = {j \in Job : jobs[j] # None /\ Registrable(jobs[j])}]
        <5> DEFINE timed == {j \in Job : jobs[j] # None /\ Registrable(jobs[j])}
        <5>1. timed \subseteq Job OBVIOUS
        <5> HIDE DEF timed
        <5>2. Moved([adm[a] EXCEPT !.pc = "register", !.todo = timed])
          BY <2>0, <4>2, <5>1 DEF Moved, timed, AdminState
        <5> QED BY <5>2
      <4> QED BY <3>4, <4>1, <4>2 DEF ListJobs
    <3>5. CASE NewGocronJob(a)
      <4>1. PICK j \in adm[a].todo :
               adm' = [adm EXCEPT ![a].pc = "remember", ![a].job = j, ![a].todo = @ \ {j}]
        BY <3>5 DEF NewGocronJob
      <4>2. j \in Job BY <2>0 DEF Moved, AdminState
      <4>3. Moved([adm[a] EXCEPT !.pc = "remember", !.job = j, !.todo = @ \ {j}])
        BY <2>0, <4>1, <4>2 DEF Moved, AdminState
      <4> QED BY <4>3
    <3>7. CASE EndReload(a)
      <4>1. Moved(IdleAdmin) BY <3>7, IdleStates DEF Moved, EndReload, IdleAdmin
      <4> QED BY <4>1
    <3> QED BY <3>1, <3>2, <3>3, <3>4, <3>5, <3>7 DEF Reload
  <2>9. CASE \E x : Moved(x)
    <3>1. PICK x : Moved(x) BY <2>9
    <3>2. FitsAdmin(x)' BY <3>1 DEF FitsAdmin
    <3> QED BY <1>1, <3>1, <3>2, AdminMoves
  <2> QED BY <2>7, <2>8, <2>9
<1> QED BY <1>1, <1>2, <1>3, <1>4, <1>5, <1>6
-----------------------------------------------------------------------------
(* Types: what requests do.                                                 *)
LEMMA LaunchTyped ==
    ASSUME RunnersOK, RowsStay, NEW g \in Runner, NEW j \in Job, NEW current \in BOOLEAN,
           Launch(g, j, current)
    PROVE  RunnersOK'
<1>1. PICK x : x = [IdleRunner EXCEPT !.pc = "load", !.job = j, !.current = current]
  OBVIOUS
<1>2. x \in RunnerState BY <1>1 DEF IdleRunner, RunnerState
<1>3. /\ x.pc = "load" /\ x.job = j /\ x.mine = {} /\ ~x.failed BY <1>1 DEF IdleRunner
<1>4. FitsRunner(x)' BY <1>3 DEF FitsRunner, Executing
<1>5. runner' = [runner EXCEPT ![g] = x] BY <1>1 DEF Launch
<1> QED BY <1>2, <1>4, <1>5, RunnerMoves

LEMMA NewJobTyped ==
    ASSUME TablesOK, Unused(jobs) # {}, NEW row \in JobRow, UNCHANGED <<devices, runs, history>>,
           jobs' = [jobs EXCEPT ![First(Unused(jobs))] = row]
    PROVE  RowsStay /\ TablesOK' /\ First(Unused(jobs)) \in Job
           /\ jobs[First(Unused(jobs))] = None
<1>1. First(Unused(jobs)) \in Job /\ jobs[First(Unused(jobs))] = None
  BY NewRow, Ids DEF TablesOK
<1>2. row # None BY WorkflowAssumption
<1> QED BY <1>1, <1>2 DEF TablesOK, RowsStay, history

LEMMA GoToTyped ==
    ASSUME AdminsOK, RowsStay, NEW a \in Reloader, GoTo(a, "reload")
    PROVE  AdminsOK'
<1>1. PICK x : x = [adm[a] EXCEPT !.pc = "reload"] OBVIOUS
<1>2. adm[a] \in AdminState BY DEF AdminsOK
<1>3. x \in AdminState /\ x.pc = "reload" BY <1>1, <1>2 DEF AdminState
<1>4. FitsAdmin(x)' BY <1>3 DEF FitsAdmin
<1>5. adm' = [adm EXCEPT ![a] = x] BY <1>1, <1>2 DEF GoTo, AdminState, AdminsOK
<1> QED BY <1>3, <1>4, <1>5, AdminMoves

LEMMA BoundsStay ==
    ASSUME BoundsOK, requests' \in {requests, requests + 1}, faults' \in {faults, faults + 1},
           crashes' \in {crashes, crashes + 1}
    PROVE  BoundsOK'
  BY DEF BoundsOK

LEMMA InputRows == \A input \in JobInput : NewJobRow(input) \in JobRow
  BY DEF NewJobRow, JobRow

LEMMA CreateJobTyped ==
    ASSUME WorkTypeOK, NEW a \in Admin, CreateJob(a)
    PROVE  WorkTypeOK'
<1> USE DEF WorkTypeOK
<1>1. a \in Reloader BY DEF Reloader
<1>2. BoundsOK' BY BoundsStay DEF CreateJob, Request, Works, Fails
<1>3. /\ UNCHANGED <<devices, runs, history>> /\ UNCHANGED sched /\ UNCHANGED viewer
      /\ UNCHANGED checker /\ UNCHANGED lastRuns /\ Unused(jobs) # {}
  BY DEF CreateJob, history
<1>4. CASE UNCHANGED <<jobs, adm, runner>>
  <2>1. RowsStay BY <1>3, <1>4 DEF RowsStay
  <2> QED BY <1>2, <1>3, <1>4, <2>1, RunnersKeep, AdminsKeep, ViewersKeep, CheckersKeep,
             ToldKeeps DEF TablesOK, SchedOK, sched, history
<1>5. CASE \E input \in Inputs :
              /\ jobs' = [jobs EXCEPT ![First(Unused(jobs))] = NewJobRow(input)]
              /\ IF input.schedule = "once"
                 THEN /\ \E g \in Runner : Launch(g, First(Unused(jobs)), FALSE)
                      /\ UNCHANGED adm
                 ELSE /\ GoTo(a, "reload")
                      /\ UNCHANGED runner
  <2>1. PICK input \in Inputs :
              /\ jobs' = [jobs EXCEPT ![First(Unused(jobs))] = NewJobRow(input)]
              /\ \/ /\ \E g \in Runner : Launch(g, First(Unused(jobs)), FALSE)
                    /\ UNCHANGED adm
                 \/ /\ GoTo(a, "reload")
                    /\ UNCHANGED runner
    BY <1>5
  <2>2. PICK row \in JobRow : row = NewJobRow(input) BY InputRows, WorkflowAssumption
  <2>3. RowsStay /\ TablesOK' /\ First(Unused(jobs)) \in Job
    BY <1>3, <2>1, <2>2, NewJobTyped
  <2>4. RunnersOK' /\ AdminsOK'
    BY <1>1, <2>1, <2>3, LaunchTyped, GoToTyped, RunnersKeep, AdminsKeep
  <2> QED BY <1>2, <1>3, <2>3, <2>4, ViewersKeep, CheckersKeep, ToldKeeps DEF SchedOK, sched
<1> QED BY <1>4, <1>5 DEF CreateJob
LEMMA ReadJobTyped ==
    ASSUME WorkTypeOK, NEW a \in Admin, ReadJob(a)
    PROVE  WorkTypeOK'
<1> USE DEF WorkTypeOK
<1>1. a \in Reloader BY DEF Reloader
<1>2. BoundsOK' BY BoundsStay DEF ReadJob, Request, Works
<1>3. UNCHANGED tables /\ UNCHANGED <<sched, runner, viewer, checker, history>>
  BY DEF ReadJob
<1>4. PICK j \in Job : /\ LiveJob(j)
                       /\ adm' = [adm EXCEPT ![a].pc = "save", ![a].job = j, ![a].row = jobs[j]]
  BY DEF ReadJob
<1>5. RowsStay BY <1>3, Unmoved
<1>6. adm[a] \in AdminState /\ jobs[j] \in JobRow /\ jobs[j] # None
  BY <1>1, <1>4 DEF AdminsOK, TablesOK, LiveJob
<1>7. PICK x : x = [adm[a] EXCEPT !.pc = "save", !.job = j, !.row = jobs[j]] OBVIOUS
<1>8. x \in AdminState /\ x.pc = "save" /\ x.job = j /\ x.row \in JobRow
  BY <1>6, <1>7 DEF AdminState
<1>9. FitsAdmin(x)' BY <1>3, <1>6, <1>8 DEF FitsAdmin, tables
<1>10. adm' = [adm EXCEPT ![a] = x] BY <1>4, <1>6, <1>7 DEF AdminState, AdminsOK
<1>11. AdminsOK' BY <1>1, <1>5, <1>8, <1>9, <1>10, AdminMoves
<1> QED BY <1>2, <1>3, <1>5, <1>11, RunnersKeep, ViewersKeep, CheckersKeep, ToldKeeps
        DEF TablesOK, SchedOK, tables, sched, history

LEMMA SaveJobTyped ==
    ASSUME WorkTypeOK, NEW a \in Admin, SaveJob(a)
    PROVE  WorkTypeOK' /\ RowsStay
<1> USE DEF WorkTypeOK
<1>1. a \in Reloader BY DEF Reloader
<1>2. BoundsOK' BY BoundsStay DEF SaveJob, Works, Fails
<1>3. UNCHANGED <<devices, runs, sched, runner, viewer, checker, lastRuns>> BY DEF SaveJob
<1>4. /\ adm[a].job \in Job /\ adm[a].row \in JobRow /\ jobs[adm[a].job] # None
  BY <1>1 DEF SaveJob, AdminsOK, FitsAdmin
<1>5. PICK row \in JobRow : jobs' = [jobs EXCEPT ![adm[a].job] = row] \/ UNCHANGED jobs
  <2>1. \A enabled \in BOOLEAN : [adm[a].row EXCEPT !.enabled = enabled] \in JobRow
    BY <1>4 DEF JobRow
  <2>2. \A schedule \in {"once", "periodic"} :
           [adm[a].row EXCEPT !.input.schedule = schedule] \in JobRow
    BY <1>4 DEF JobRow, JobInput
  <2> QED BY <1>4, <2>1, <2>2 DEF SaveJob
<1>6. jobs' \in [Job -> JobRow \cup {None}] BY <1>4, <1>5 DEF TablesOK
<1>7. \A j \in Job : jobs[j] # None => jobs'[j] # None
  BY <1>4, <1>5, WorkflowAssumption DEF TablesOK
<1>8. RowsStay BY <1>3, <1>7 DEF RowsStay
<1>9. overwritten' \subseteq Job BY <1>4 DEF SaveJob, TablesOK
<1>10. TablesOK' BY <1>3, <1>6, <1>9 DEF TablesOK
<1>11. PICK x \in {IdleAdmin, [IdleAdmin EXCEPT !.pc = "reload"]} : adm' = [adm EXCEPT ![a] = x]
  BY DEF SaveJob
<1>12. x \in AdminState /\ x.pc \in {"idle", "reload"} BY <1>11 DEF IdleAdmin, AdminState
<1>13. FitsAdmin(x)' BY <1>12 DEF FitsAdmin
<1>14. AdminsOK' BY <1>1, <1>8, <1>11, <1>12, <1>13, AdminMoves
<1> QED BY <1>2, <1>3, <1>8, <1>10, <1>14, RunnersKeep, ViewersKeep, CheckersKeep, ToldKeeps
        DEF SchedOK, sched

LEMMA DeleteJobTyped ==
    ASSUME WorkTypeOK, NEW a \in Admin, DeleteJob(a)
    PROVE  WorkTypeOK'
<1> USE DEF WorkTypeOK
<1>1. a \in Reloader BY DEF Reloader
<1>2. BoundsOK' BY BoundsStay DEF DeleteJob, Request, Works, Fails
<1>3. UNCHANGED <<devices, runs, sched, runner, viewer, checker, history>> BY DEF DeleteJob
<1>4. PICK j \in Job \cup {0} :
         UNCHANGED jobs \/ (j \in Job /\ LiveJob(j) /\ jobs' = [jobs EXCEPT ![j].live = FALSE])
  BY DEF DeleteJob
<1>5. jobs' \in [Job -> JobRow \cup {None}] /\ \A i \in Job : jobs[i] # None => jobs'[i] # None
  <2>1. CASE UNCHANGED jobs BY <2>1 DEF TablesOK
  <2>2. CASE ~UNCHANGED jobs
    <3>1. j \in Job /\ LiveJob(j) /\ jobs' = [jobs EXCEPT ![j].live = FALSE] BY <1>4, <2>2
    <3>2. jobs[j] \in JobRow BY <3>1 DEF TablesOK, LiveJob
    <3>3. [jobs[j] EXCEPT !.live = FALSE] \in JobRow BY <3>2 DEF JobRow
    <3> QED BY <3>1, <3>3, WorkflowAssumption DEF TablesOK
  <2> QED BY <2>1, <2>2
<1>6. RowsStay BY <1>3, <1>5 DEF RowsStay
<1>7. TablesOK' BY <1>3, <1>5 DEF TablesOK, history
<1>8. AdminsOK'
  <2>1. UNCHANGED adm \/ GoTo(a, "reload") BY DEF DeleteJob
  <2> QED BY <1>1, <1>6, <2>1, GoToTyped, AdminsKeep
<1> QED BY <1>2, <1>3, <1>6, <1>7, <1>8, RunnersKeep, ViewersKeep, CheckersKeep, ToldKeeps
        DEF SchedOK, sched, history

LEMMA RunJobNowTyped ==
    ASSUME WorkTypeOK, NEW a \in Admin, RunJobNow(a)
    PROVE  WorkTypeOK'
<1> USE DEF WorkTypeOK
<1>1. BoundsOK' BY BoundsStay DEF RunJobNow, Request, Works
<1>2. UNCHANGED <<tables, sched, adm, viewer, checker, history>> BY DEF RunJobNow
<1>3. RowsStay BY <1>2, Unmoved
<1>4. RunnersOK' BY <1>3, LaunchTyped DEF RunJobNow
<1> QED BY <1>1, <1>2, <1>3, <1>4, AdminsKeep, ViewersKeep, CheckersKeep, ToldKeeps
        DEF TablesOK, SchedOK, tables, sched, history

(* A step that changes devices only.                                        *)
LEMMA DevicesTyped ==
    ASSUME WorkTypeOK, BoundsOK', devices' \in [Device -> DeviceRow \cup {None}],
           UNCHANGED <<jobs, runs, sched, runner, adm, viewer, checker, history>>
    PROVE  WorkTypeOK'
<1> USE DEF WorkTypeOK
<1>1. RowsStay BY DEF RowsStay
<1> QED BY <1>1, RunnersKeep, AdminsKeep, ViewersKeep, CheckersKeep, ToldKeeps
        DEF TablesOK, SchedOK, sched, history

LEMMA EditDeviceTyped ==
    ASSUME WorkTypeOK, NEW a \in Admin, CreateDevice(a) \/ UpdateDevice(a) \/ DeleteDevice(a)
    PROVE  WorkTypeOK'
<1> USE DEF WorkTypeOK
<1>1. BoundsOK' BY BoundsStay DEF CreateDevice, UpdateDevice, DeleteDevice, Request, Works
<1>2. UNCHANGED <<jobs, runs, sched, runner, adm, viewer, checker, history>>
  BY DEF CreateDevice, UpdateDevice, DeleteDevice
<1>3. devices \in [Device -> DeviceRow \cup {None}] BY DEF TablesOK
<1>4. devices' \in [Device -> DeviceRow \cup {None}]
  <2>1. CASE CreateDevice(a)
    <3>1. PICK h \in Host :
             devices' = [devices EXCEPT ![First(Unused(devices))] = [live |-> TRUE, host |-> h]]
      BY <2>1 DEF CreateDevice
    <3>2. First(Unused(devices)) \in Device BY <2>1, NewRow, Ids DEF CreateDevice, TablesOK
    <3>3. [live |-> TRUE, host |-> h] \in DeviceRow BY DEF DeviceRow
    <3> QED BY <1>3, <3>1, <3>2, <3>3
  <2>2. CASE UpdateDevice(a)
    <3>1. PICK d \in Device, h \in Host :
             LiveDevice(d) /\ devices' = [devices EXCEPT ![d].host = h]
      BY <2>2 DEF UpdateDevice
    <3>2. devices[d] \in DeviceRow BY <1>3, <3>1 DEF LiveDevice
    <3>3. [devices[d] EXCEPT !.host = h] \in DeviceRow BY <3>2 DEF DeviceRow
    <3> QED BY <1>3, <3>1, <3>3
  <2>3. CASE DeleteDevice(a)
    <3>1. PICK d \in Device : LiveDevice(d) /\ devices' = [devices EXCEPT ![d].live = FALSE]
      BY <2>3 DEF DeleteDevice
    <3>2. devices[d] \in DeviceRow BY <1>3, <3>1 DEF LiveDevice
    <3>3. [devices[d] EXCEPT !.live = FALSE] \in DeviceRow BY <3>2 DEF DeviceRow
    <3> QED BY <1>3, <3>1, <3>3
  <2> QED BY <2>1, <2>2, <2>3
<1> QED BY <1>1, <1>2, <1>4, DevicesTyped

LEMMA EditTyped ==
    ASSUME WorkTypeOK, NEW a \in Admin, Edit(a)
    PROVE  WorkTypeOK'
  BY CreateJobTyped, ReadJobTyped, SaveJobTyped, DeleteJobTyped, RunJobNowTyped,
     EditDeviceTyped DEF Edit
-----------------------------------------------------------------------------
(* Types: what the device list does.                                        *)
LEMMA SyncTyped ==
    ASSUME WorkTypeOK, NEW v \in Viewer, Sync(v)
    PROVE  WorkTypeOK'
<1> USE DEF WorkTypeOK
<1>1. /\ UNCHANGED <<jobs, runs, sched, runner, adm, checker, history>>
  BY DEF Sync, StartSync, LookForDevice, WriteDevice, tables, bounds
<1>2. BoundsOK'
  BY BoundsStay DEF Sync, StartSync, LookForDevice, WriteDevice, bounds, Request, Works, Fails
<1>3. viewer \in [Viewer -> ViewerState] /\ viewer[v] \in ViewerState /\ FitsViewer(viewer[v])
  BY DEF ViewersOK
<1>4. ViewersOK'
  <2> DEFINE Moved(x) ==
        viewer' = [viewer EXCEPT ![v] = x] /\ x \in ViewerState /\ FitsViewer(x)
  <2>1. \E x : Moved(x)
    <3> HIDE DEF Moved
    <3>1. CASE StartSync(v)
      <4>1. Moved([viewer[v] EXCEPT !.pc = "look", !.todo = NocHosts])
        BY <1>3, <3>1, WorkflowAssumption, ZenonT(60)
           DEF Moved, StartSync, ViewerState, FitsViewer
      <4> QED BY <4>1
    <3>2. CASE LookForDevice(v) /\ viewer[v].todo = {}
      <4>1. Moved(IdleViewer)
        BY <3>2, IdleStates DEF Moved, LookForDevice, IdleViewer, FitsViewer
      <4> QED BY <4>1
    <3>3. CASE LookForDevice(v) /\ viewer[v].todo # {}
      <4>1. PICK h \in viewer[v].todo : viewer' = [viewer EXCEPT
                   ![v] = [pc |-> "write", todo |-> @.todo \ {h}, host |-> h,
                           found |-> IF AtHost(h) = {} THEN 0 ELSE First(AtHost(h))]]
        BY <3>3 DEF LookForDevice
      <4>2. PICK found : found = IF AtHost(h) = {} THEN 0 ELSE First(AtHost(h)) OBVIOUS
      <4>3. found \in Device \cup {0}
        <5>1. AtHost(h) \subseteq Device BY DEF AtHost
        <5>2. AtHost(h) \in SUBSET Nat BY <5>1, Ids
        <5> QED BY <4>2, <5>1, <5>2, FirstIsIn
      <4>4. Moved([pc |-> "write", todo |-> viewer[v].todo \ {h}, host |-> h, found |-> found])
        BY <1>3, <4>1, <4>2, <4>3 DEF Moved, ViewerState, FitsViewer
      <4> QED BY <4>4
    <3>4. CASE WriteDevice(v)
      <4>1. viewer' = [viewer EXCEPT ![v] = IdleViewer] => Moved(IdleViewer)
        BY IdleStates DEF Moved, IdleViewer, FitsViewer
      <4>2. viewer' = [viewer EXCEPT ![v] =
                          [IdleViewer EXCEPT !.pc = "look", !.todo = viewer[v].todo]]
            => Moved([IdleViewer EXCEPT !.pc = "look", !.todo = viewer[v].todo])
        BY <1>3 DEF Moved, IdleViewer, ViewerState, FitsViewer
      <4> QED BY <3>4, <4>1, <4>2 DEF WriteDevice
    <3> QED BY <3>1, <3>2, <3>3, <3>4 DEF Sync
  <2>2. PICK x : Moved(x) BY <2>1
  <2> QED BY <2>2, ViewerMoves
<1>5. devices \in [Device -> DeviceRow \cup {None}] BY DEF TablesOK
<1>6. devices' \in [Device -> DeviceRow \cup {None}]
  <2>1. CASE UNCHANGED devices BY <1>5, <2>1
  <2>2. CASE WriteDevice(v) /\ ~UNCHANGED devices
    <3>1. PICK row : row = [live |-> TRUE, host |-> viewer[v].host] OBVIOUS
    <3>2. row \in DeviceRow BY <1>3, <2>2, <3>1 DEF WriteDevice, FitsViewer, DeviceRow
    <3>3. CASE viewer[v].found # 0
      <4>1. viewer[v].found \in Device BY <1>3, <3>3 DEF ViewerState
      <4>2. devices' = [devices EXCEPT ![viewer[v].found] = row]
        BY <2>2, <3>1, <3>3 DEF WriteDevice
      <4> QED BY <1>5, <3>2, <4>1, <4>2
    <3>4. CASE viewer[v].found = 0
      <4>1. /\ Unused(devices) # {}
            /\ devices' = [devices EXCEPT ![First(Unused(devices))] = row]
        BY <2>2, <3>1, <3>4 DEF WriteDevice
      <4>2. First(Unused(devices)) \in Device BY <1>5, <4>1, NewRow, Ids
      <4> QED BY <1>5, <3>2, <4>1, <4>2
    <3> QED BY <3>3, <3>4
  <2>3. WriteDevice(v) \/ UNCHANGED devices
    BY DEF Sync, StartSync, LookForDevice, tables
  <2> QED BY <2>1, <2>2, <2>3
<1>7. RowsStay BY <1>1 DEF RowsStay
<1> QED BY <1>1, <1>2, <1>4, <1>6, <1>7, RunnersKeep, AdminsKeep, CheckersKeep, ToldKeeps
        DEF TablesOK, SchedOK, sched, history
-----------------------------------------------------------------------------
(* Types: what executions do.                                               *)
LEMMA TargetsTyped ==
    ASSUME TablesOK, NEW row \in JobRow
    PROVE  Targets(row) \subseteq Device \X Host
<1> DEFINE live == {d \in Device : LiveDevice(d)}
           first == {First(AtHost(h)) : h \in {x \in NocHosts : AtHost(x) # {}}}
<1>1. \A h \in NocHosts : AtHost(h) # {} => First(AtHost(h)) \in live
  <2> TAKE h \in NocHosts
  <2> HAVE AtHost(h) # {}
  <2>1. AtHost(h) \subseteq live BY DEF AtHost
  <2>2. AtHost(h) \in SUBSET Nat BY <2>1, Ids
  <2> QED BY <2>1, <2>2, FirstIsIn
<1>2. first \subseteq live BY <1>1
<1>3. \A d \in live : <<d, devices[d].host>> \in Device \X Host
  BY DEF LiveDevice, TablesOK, DeviceRow
<1>4. \A t \in Targets(row) : \E d \in live : t = <<d, devices[d].host>>
  BY <1>2 DEF Targets
<1> QED BY <1>3, <1>4

LEMMA TellTyped ==
    ASSUME TablesOK, ToldStored, UNCHANGED <<devices, runs>>, NEW j \in Job,
           NEW status \in {"ok", "error"}, NEW told \in SUBSET Run,
           \A r \in told : runs[r] # None,
           WriteStatus(j, status, told) \/ UNCHANGED <<jobs, history>>
    PROVE  RowsStay /\ TablesOK' /\ ToldStored'
<1>1. CASE UNCHANGED <<jobs, history>> BY <1>1 DEF TablesOK, ToldStored, RowsStay, history
<1>2. CASE /\ LiveJob(j) /\ jobs' = [jobs EXCEPT ![j].status = status]
           /\ lastRuns' = [lastRuns EXCEPT ![j] = told]
           /\ overwritten' = overwritten \ {j}
  <2>1. jobs[j] \in JobRow BY <1>2 DEF LiveJob, TablesOK
  <2>2. [jobs[j] EXCEPT !.status = status] \in JobRow BY <2>1 DEF JobRow
  <2>3. /\ jobs' \in [Job -> JobRow \cup {None}]
        /\ \A i \in Job : jobs[i] # None => jobs'[i] # None
    BY <1>2, <2>2, WorkflowAssumption DEF TablesOK
  <2>4. lastRuns' \in [Job -> SUBSET Run] /\ overwritten' \subseteq Job BY <1>2 DEF TablesOK
  <2>5. RowsStay /\ TablesOK' BY <2>3, <2>4 DEF RowsStay, TablesOK
  <2>6. ToldStored' BY <1>2 DEF ToldStored, TablesOK
  <2> QED BY <2>5, <2>6
<1> QED BY <1>1, <1>2 DEF WriteStatus

LEMMA TickTyped ==
    ASSUME WorkTypeOK, NEW g \in Runner, Tick(g)
    PROVE  WorkTypeOK'
<1> USE DEF WorkTypeOK
<1>1. UNCHANGED <<tables, sched, adm, viewer, checker, history, bounds>> BY DEF Tick
<1>2. RowsStay BY <1>1, Unmoved
<1>3. RunnersOK' BY <1>2, LaunchTyped DEF Tick
<1> QED BY <1>1, <1>2, <1>3, AdminsKeep, ViewersKeep, CheckersKeep, ToldKeeps
        DEF TablesOK, SchedOK, BoundsOK, tables, sched, history, bounds

LEMMA IdleRunnerFits == FitsRunner(IdleRunner)'
  BY DEF FitsRunner, IdleRunner, Executing

LEMMA LoadTyped ==
    ASSUME WorkTypeOK, NEW g \in Runner, Load(g)
    PROVE  WorkTypeOK'
<1> USE DEF WorkTypeOK
<1>1. BoundsOK' BY BoundsStay DEF Load, TellStatus, Works, Fails
<1>2. UNCHANGED <<devices, runs, sched, adm, viewer, checker>> BY DEF Load
<1>3. /\ runner \in [Runner -> RunnerState] /\ runner[g] \in RunnerState
      /\ FitsRunner(runner[g]) /\ runner[g].pc = "load"
  BY DEF RunnersOK, Load
<1>4. PICK j \in Job : j = runner[g].job BY <1>3 DEF FitsRunner
<1>5. WriteStatus(j, "error", {}) \/ UNCHANGED <<jobs, history>>
  BY <1>4 DEF Load, TellStatus
<1>6. RowsStay /\ TablesOK' /\ ToldStored' BY <1>2, <1>5, TellTyped
<1>7. RunnersOK'
  <2>1. CASE runner' = [runner EXCEPT ![g] = IdleRunner]
    BY <1>6, <2>1, IdleStates, IdleRunnerFits, RunnerMoves
  <2>2. CASE /\ LiveJob(j)
             /\ runner' = [runner EXCEPT ![g].pc = "next", ![g].kind = jobs[j].input.kind,
                                         ![g].todo = Targets(jobs[j])]
    <3>1. jobs[j] \in JobRow BY <2>2 DEF LiveJob, TablesOK
    <3>2. Targets(jobs[j]) \subseteq Device \X Host BY <3>1, TargetsTyped
    <3>3. jobs[j].input.kind \in {"backup", "command"} BY <3>1 DEF JobRow, JobInput
    <3>4. PICK x : x = [runner[g] EXCEPT !.pc = "next", !.kind = jobs[j].input.kind,
                                         !.todo = Targets(jobs[j])]
      OBVIOUS
    <3>5. x \in RunnerState BY <1>3, <3>2, <3>3, <3>4 DEF RunnerState
    <3>6. x.pc = "next" /\ x.job = j /\ x.mine = {}
      BY <1>3, <1>4, <3>4 DEF RunnerState, FitsRunner
    <3>7. FitsRunner(x)' BY <3>6 DEF FitsRunner, Executing
    <3>8. runner' = [runner EXCEPT ![g] = x] BY <1>3, <2>2, <3>4 DEF RunnerState
    <3> QED BY <1>6, <3>5, <3>7, <3>8, RunnerMoves
  <2> QED BY <1>4, <2>1, <2>2 DEF Load
<1> QED BY <1>1, <1>2, <1>6, <1>7, AdminsKeep, ViewersKeep, CheckersKeep DEF SchedOK, sched
LEMMA NewRunTyped ==
    ASSUME TablesOK, Unused(runs) # {}, NEW row \in RunRow, UNCHANGED <<jobs, devices, history>>,
           runs' = [runs EXCEPT ![First(Unused(runs))] = row]
    PROVE  /\ RowsStay /\ TablesOK' /\ First(Unused(runs)) \in Run
           /\ runs[First(Unused(runs))] = None /\ runs'[First(Unused(runs))] = row /\ row # None
<1>1. First(Unused(runs)) \in Run /\ runs[First(Unused(runs))] = None
  BY NewRow, Ids DEF TablesOK
<1>2. row # None BY WorkflowAssumption
<1> QED BY <1>1, <1>2 DEF TablesOK, RowsStay, history

LEMMA FinishTyped ==
    ASSUME TablesOK, NEW r \in Run, runs[r] # None, NEW status \in {"ok", "error"},
           UNCHANGED <<jobs, devices, history>>, FinishRun(r, status)
    PROVE  RowsStay /\ TablesOK'
<1>1. CASE UNCHANGED runs BY <1>1 DEF RowsStay, TablesOK, history
<1>2. CASE runs' = [runs EXCEPT ![r].status = status]
  <2>1. runs[r] \in RunRow BY DEF TablesOK
  <2>2. [runs[r] EXCEPT !.status = status] \in RunRow BY <2>1 DEF RunRow
  <2>3. [runs[r] EXCEPT !.status = status] # None BY <2>2, WorkflowAssumption
  <2> QED BY <1>2, <2>2, <2>3 DEF RowsStay, TablesOK, history
<1> QED BY <1>1, <1>2 DEF FinishRun

LEMMA StartDeviceTyped ==
    ASSUME WorkTypeOK, NEW g \in Runner, StartDevice(g)
    PROVE  WorkTypeOK'
<1> USE DEF WorkTypeOK
<1>1. BoundsOK' BY BoundsStay DEF StartDevice, Works, Fails
<1>2. UNCHANGED <<jobs, devices, sched, adm, viewer, checker, history>> BY DEF StartDevice
<1>3. /\ runner \in [Runner -> RunnerState] /\ runner[g] \in RunnerState
      /\ FitsRunner(runner[g]) /\ runner[g].pc = "next" /\ runner[g].job \in Job
  BY DEF RunnersOK, StartDevice, FitsRunner
<1>4. PICK t \in runner[g].todo :
       \/ /\ Unused(runs) # {}
          /\ runs' = [runs EXCEPT ![First(Unused(runs))] =
                         [job |-> runner[g].job, host |-> t[2], status |-> "pending"]]
          /\ runner' = [runner EXCEPT
                ![g].pc = "send", ![g].todo = @ \ {t}, ![g].host = t[2],
                ![g].run = First(Unused(runs)), ![g].mine = @ \cup {First(Unused(runs))}]
       \/ /\ runner' = [runner EXCEPT ![g].todo = @ \ {t}, ![g].failed = TRUE]
          /\ UNCHANGED runs
  BY DEF StartDevice
<1>5. t[2] \in Host BY <1>3 DEF RunnerState
<1>6. CASE UNCHANGED runs /\ runner' = [runner EXCEPT ![g].todo = @ \ {t}, ![g].failed = TRUE]
  <2>1. RowsStay BY <1>2, <1>6 DEF RowsStay
  <2>2. PICK x : x = [runner[g] EXCEPT !.todo = @ \ {t}, !.failed = TRUE] OBVIOUS
  <2>3. /\ x \in RunnerState /\ x.pc = "next" /\ x.job = runner[g].job
        /\ x.mine = runner[g].mine
    BY <1>3, <2>2 DEF RunnerState
  <2>4. FitsRunner(x)' BY <1>3, <1>6, <2>3 DEF FitsRunner, Executing
  <2>5. runner' = [runner EXCEPT ![g] = x] BY <1>3, <1>6, <2>2 DEF RunnerState
  <2>6. RunnersOK' BY <2>1, <2>3, <2>4, <2>5, RunnerMoves
  <2> QED BY <1>1, <1>2, <1>6, <2>1, <2>6, AdminsKeep, ViewersKeep, CheckersKeep, ToldKeeps
          DEF TablesOK, SchedOK, sched, history
<1>7. CASE /\ Unused(runs) # {}
           /\ runs' = [runs EXCEPT ![First(Unused(runs))] =
                          [job |-> runner[g].job, host |-> t[2], status |-> "pending"]]
           /\ runner' = [runner EXCEPT
                 ![g].pc = "send", ![g].todo = @ \ {t}, ![g].host = t[2],
                 ![g].run = First(Unused(runs)), ![g].mine = @ \cup {First(Unused(runs))}]
  <2>1. PICK row \in RunRow :
           row = [job |-> runner[g].job, host |-> t[2], status |-> "pending"]
    BY <1>3, <1>5 DEF RunRow
  <2>2. PICK r : r = First(Unused(runs)) OBVIOUS
  <2>3. RowsStay /\ TablesOK' /\ r \in Run /\ runs'[r] # None
    BY <1>2, <1>7, <2>1, <2>2, NewRunTyped
  <2>4. PICK x : x = [runner[g] EXCEPT !.pc = "send", !.todo = @ \ {t}, !.host = t[2],
                                       !.run = r, !.mine = @ \cup {r}]
    OBVIOUS
  <2>5. /\ x \in RunnerState /\ x.pc = "send" /\ x.job = runner[g].job
        /\ x.run = r /\ x.mine = runner[g].mine \cup {r}
    BY <1>3, <1>5, <2>3, <2>4, ZenonT(60) DEF RunnerState
  <2>6. \A i \in runner[g].mine : i \in Run /\ runs[i] # None
    BY <1>3 DEF FitsRunner, RunnerState
  <2>7. FitsRunner(x)' BY <1>3, <2>3, <2>5, <2>6 DEF FitsRunner, Executing, RowsStay
  <2>8. runner' = [runner EXCEPT ![g] = x] BY <1>3, <1>7, <2>2, <2>4 DEF RunnerState
  <2>9. RunnersOK' BY <2>3, <2>5, <2>7, <2>8, RunnerMoves
  <2> QED BY <1>1, <1>2, <2>3, <2>9, AdminsKeep, ViewersKeep, CheckersKeep, ToldKeeps
          DEF SchedOK, sched, history
<1> QED BY <1>4, <1>6, <1>7

(* An outcome: the run under way is written, the device is done with.       *)
LEMMA SendOutcome ==
    ASSUME NEW g \in Runner, Send(g)
    PROVE  \/ /\ runner[g].pc = "send" /\ UNCHANGED <<runs, faults>>
              /\ runner' = [runner EXCEPT ![g].pc = "saveConfig"]
           \/ \E failed \in BOOLEAN :
                 /\ Executing(runner[g])
                 /\ FinishRun(runner[g].run, IF failed THEN "error" ELSE "ok")
                 /\ runner' = [runner EXCEPT ![g] = DeviceDone(runner[g], failed)]
  BY DEF Send, Executing, Works

LEMMA SendTyped ==
    ASSUME WorkTypeOK, NEW g \in Runner, Send(g)
    PROVE  WorkTypeOK'
<1> USE DEF WorkTypeOK
<1>1. BoundsOK' BY BoundsStay DEF Send, FinishRun, Works, Fails
<1>2. UNCHANGED <<jobs, devices, sched, adm, viewer, checker, history>> BY DEF Send
<1>3. /\ runner \in [Runner -> RunnerState] /\ runner[g] \in RunnerState
      /\ FitsRunner(runner[g])
  BY DEF RunnersOK
<1>4. CASE /\ runner[g].pc = "send" /\ UNCHANGED runs
           /\ runner' = [runner EXCEPT ![g].pc = "saveConfig"]
  <2>1. RowsStay BY <1>2, <1>4 DEF RowsStay
  <2>2. PICK x : x = [runner[g] EXCEPT !.pc = "saveConfig"] OBVIOUS
  <2>3. /\ x \in RunnerState /\ x.pc = "saveConfig" /\ x.job = runner[g].job
        /\ x.run = runner[g].run /\ x.mine = runner[g].mine
    BY <1>3, <2>2 DEF RunnerState
  <2>4. FitsRunner(x)' BY <1>3, <1>4, <2>3 DEF FitsRunner, Executing
  <2>5. runner' = [runner EXCEPT ![g] = x] BY <1>3, <1>4, <2>2 DEF RunnerState
  <2>6. RunnersOK' BY <2>1, <2>3, <2>4, <2>5, RunnerMoves
  <2> QED BY <1>1, <1>2, <1>4, <2>1, <2>6, AdminsKeep, ViewersKeep, CheckersKeep, ToldKeeps
          DEF TablesOK, SchedOK, sched, history
<1>5. ASSUME NEW failed \in BOOLEAN, Executing(runner[g]),
             FinishRun(runner[g].run, IF failed THEN "error" ELSE "ok"),
             runner' = [runner EXCEPT ![g] = DeviceDone(runner[g], failed)]
      PROVE  WorkTypeOK'
  <2>1. PICK r \in Run : r = runner[g].run /\ runs[r] # None
    BY <1>3, <1>5 DEF FitsRunner, RunnerState
  <2>2. PICK status \in {"ok", "error"} : status = IF failed THEN "error" ELSE "ok" OBVIOUS
  <2>3. RowsStay /\ TablesOK' BY <1>2, <1>5, <2>1, <2>2, FinishTyped
  <2>4. PICK x : x = DeviceDone(runner[g], failed) OBVIOUS
  <2>5. /\ x \in RunnerState /\ x.pc = "next" /\ x.job = runner[g].job
        /\ x.mine = runner[g].mine
    BY <1>3, <2>4, ZenonT(60) DEF RunnerState, DeviceDone
  <2>6. \A i \in runner[g].mine : i \in Run /\ runs[i] # None
    BY <1>3 DEF FitsRunner, RunnerState
  <2>7. FitsRunner(x)' BY <1>3, <1>5, <2>3, <2>5, <2>6 DEF FitsRunner, Executing, RowsStay
  <2>8. RunnersOK' BY <1>5, <2>3, <2>4, <2>5, <2>7, RunnerMoves
  <2> QED BY <1>1, <1>2, <2>3, <2>8, AdminsKeep, ViewersKeep, CheckersKeep, ToldKeeps
          DEF SchedOK, sched, history
<1> QED BY <1>4, <1>5, SendOutcome

LEMMA EndJobTyped ==
    ASSUME WorkTypeOK, NEW g \in Runner, EndJob(g)
    PROVE  WorkTypeOK'
<1> USE DEF WorkTypeOK
<1>1. BoundsOK' BY BoundsStay DEF EndJob, TellStatus, Works, Fails
<1>2. UNCHANGED <<devices, runs, sched, adm, viewer, checker>> BY DEF EndJob
<1>3. /\ runner[g] \in RunnerState /\ FitsRunner(runner[g]) /\ runner[g].pc = "next"
  BY DEF RunnersOK, EndJob
<1>4. PICK j \in Job : j = runner[g].job BY <1>3 DEF FitsRunner
<1>5. PICK status \in {"ok", "error"} : status = IF runner[g].failed THEN "error" ELSE "ok"
  OBVIOUS
<1>6. PICK told \in SUBSET Run : told = runner[g].mine BY <1>3 DEF RunnerState
<1>7. \A r \in told : runs[r] # None BY <1>3, <1>6 DEF FitsRunner
<1>8. WriteStatus(j, status, told) \/ UNCHANGED <<jobs, history>>
  BY <1>4, <1>5, <1>6 DEF EndJob, TellStatus
<1>9. RowsStay /\ TablesOK' /\ ToldStored' BY <1>2, <1>7, <1>8, TellTyped
<1>10. RunnersOK' BY <1>9, IdleStates, IdleRunnerFits, RunnerMoves DEF EndJob
<1> QED BY <1>1, <1>2, <1>9, <1>10, AdminsKeep, ViewersKeep, CheckersKeep DEF SchedOK, sched
-----------------------------------------------------------------------------
(* Types: what BNG checks do.                                               *)
LEMMA CheckerState1 ==
    ASSUME WorkTypeOK, NEW k \in Checker
    PROVE  /\ checker \in [Checker -> CheckerState] /\ checker[k] \in CheckerState
           /\ FitsChecker(checker[k])
  BY DEF WorkTypeOK, CheckersOK

(* A check that moves to where it names nothing.                            *)
LEMMA CheckerFree ==
    ASSUME CheckersOK, RowsStay, NEW k \in Checker, NEW x \in CheckerState,
           x.pc \in {"idle", "look"}, checker' = [checker EXCEPT ![k] = x]
    PROVE  CheckersOK'
<1>1. FitsChecker(x)' BY DEF FitsChecker
<1> QED BY <1>1, CheckerMoves

LEMMA StartCheckTyped ==
    ASSUME WorkTypeOK, NEW k \in Checker, StartCheck(k)
    PROVE  WorkTypeOK'
<1> USE DEF WorkTypeOK
<1>1. BoundsOK' BY BoundsStay DEF StartCheck, Request, Works
<1>2. UNCHANGED <<tables, sched, runner, adm, viewer, history>> BY DEF StartCheck
<1>3. RowsStay BY <1>2, Unmoved
<1>4. PICK d, e \in Device :
         /\ LiveDevice(d) /\ LiveDevice(e)
         /\ checker' = [checker EXCEPT ![k].pc = "look",
                  ![k].todo = {<<d, devices[d].host>>, <<e, devices[e].host>>}]
  BY DEF StartCheck
<1>5. devices[d].host \in Host /\ devices[e].host \in Host
  BY <1>4 DEF LiveDevice, TablesOK, DeviceRow
<1>51. {<<d, devices[d].host>>, <<e, devices[e].host>>} \in SUBSET (Device \X Host)
  BY <1>5
<1>6. PICK todo \in SUBSET (Device \X Host) :
         todo = {<<d, devices[d].host>>, <<e, devices[e].host>>}
  BY <1>51
<1>7. PICK x : x = [checker[k] EXCEPT !.pc = "look", !.todo = todo] OBVIOUS
<1>8. x \in CheckerState /\ x.pc = "look" BY <1>7, CheckerState1, ZenonT(120) DEF CheckerState
<1>9. checker' = [checker EXCEPT ![k] = x] BY <1>4, <1>6, <1>7, CheckerState1 DEF CheckerState
<1>10. CheckersOK' BY <1>3, <1>8, <1>9, CheckerFree
<1> QED BY <1>1, <1>2, <1>3, <1>10, RunnersKeep, AdminsKeep, ViewersKeep, ToldKeeps
        DEF TablesOK, SchedOK, tables, sched, history

LEMMA LookForBackupTyped ==
    ASSUME WorkTypeOK, NEW k \in Checker, LookForBackup(k)
    PROVE  WorkTypeOK'
<1> USE DEF WorkTypeOK
<1>1. BoundsOK' BY BoundsStay DEF LookForBackup, Works, Fails
<1>2. UNCHANGED <<devices, runs, sched, runner, adm, viewer, history>> BY DEF LookForBackup
<1>3. checker[k] \in CheckerState BY CheckerState1
<1>4. CASE UNCHANGED jobs /\ \E x \in CheckerState : /\ x.pc \in {"idle", "look"}
                                                    /\ checker' = [checker EXCEPT ![k] = x]
  <2>1. RowsStay BY <1>2, <1>4 DEF RowsStay
  <2>2. CheckersOK' BY <1>4, <2>1, CheckerFree
  <2> QED BY <1>1, <1>2, <1>4, <2>1, <2>2, RunnersKeep, AdminsKeep, ViewersKeep, ToldKeeps
          DEF TablesOK, SchedOK, sched, history
<1>5. ASSUME NEW dev \in checker[k].todo, Unused(jobs) # {},
             jobs' = [jobs EXCEPT ![First(Unused(jobs))] =
                NewJobRow([kind |-> "backup", target |-> dev[1], schedule |-> "once"])],
             checker' = [checker EXCEPT ![k].pc = "create", ![k].todo = @ \ {dev},
                ![k].dev = dev, ![k].job = First(Unused(jobs))]
      PROVE  WorkTypeOK'
  <2>1. dev \in Device \X Host BY <1>3 DEF CheckerState
  <2>2. [kind |-> "backup", target |-> dev[1], schedule |-> "once"] \in JobInput
    BY <2>1 DEF JobInput
  <2>3. PICK row \in JobRow :
           row = NewJobRow([kind |-> "backup", target |-> dev[1], schedule |-> "once"])
    BY <2>2, InputRows
  <2>4. PICK j : j = First(Unused(jobs)) OBVIOUS
  <2>5. RowsStay /\ TablesOK' /\ j \in Job BY <1>2, <1>5, <2>3, <2>4, NewJobTyped
  <2>6. PICK x : x = [checker[k] EXCEPT !.pc = "create", !.todo = @ \ {dev}, !.dev = dev,
                                        !.job = j]
    OBVIOUS
  <2>7. x \in CheckerState /\ x.pc = "create" /\ x.job = j /\ x.dev = dev
    BY <1>3, <2>1, <2>5, <2>6 DEF CheckerState
  <2>8. FitsChecker(x)' BY <2>1, <2>5, <2>7 DEF FitsChecker
  <2>9. checker' = [checker EXCEPT ![k] = x]
    BY <1>3, <1>5, <2>4, <2>6 DEF CheckerState
  <2>10. CheckersOK' BY <2>5, <2>7, <2>8, <2>9, CheckerMoves
  <2> QED BY <1>1, <1>2, <2>5, <2>10, RunnersKeep, AdminsKeep, ViewersKeep, ToldKeeps
          DEF SchedOK, sched, history
<1>6. \A dev \in checker[k].todo :
         /\ [checker[k] EXCEPT !.todo = @ \ {dev}] \in CheckerState
         /\ checker[k].pc = "look" => [checker[k] EXCEPT !.todo = @ \ {dev}].pc = "look"
         /\ [checker EXCEPT ![k].todo = @ \ {dev}]
              = [checker EXCEPT ![k] = [checker[k] EXCEPT !.todo = @ \ {dev}]]
  BY <1>3, CheckerState1 DEF CheckerState
<1>7. IdleChecker \in CheckerState /\ IdleChecker.pc = "idle" BY IdleStates DEF IdleChecker
<1>8. CASE checker[k].todo = {}
  BY <1>4, <1>7, <1>8 DEF LookForBackup
<1>9. CASE checker[k].todo # {}
  <2>1. PICK dev \in checker[k].todo :
          \/ /\ checker' = [checker EXCEPT ![k].todo = @ \ {dev}]
             /\ UNCHANGED jobs
          \/ /\ Unused(jobs) # {}
             /\ jobs' = [jobs EXCEPT ![First(Unused(jobs))] =
                   NewJobRow([kind |-> "backup", target |-> dev[1], schedule |-> "once"])]
             /\ checker' = [checker EXCEPT ![k].pc = "create", ![k].todo = @ \ {dev},
                   ![k].dev = dev, ![k].job = First(Unused(jobs))]
          \/ /\ checker' = [checker EXCEPT ![k] = IdleChecker]
             /\ UNCHANGED jobs
    BY <1>9 DEF LookForBackup
  <2>2. checker[k].pc = "look" BY DEF LookForBackup
  <2>3. CASE UNCHANGED jobs /\ checker' = [checker EXCEPT ![k].todo = @ \ {dev}]
    <3>1. PICK x \in CheckerState : x = [checker[k] EXCEPT !.todo = @ \ {dev}] BY <1>6
    <3>2. x.pc = "look" /\ checker' = [checker EXCEPT ![k] = x] BY <1>6, <2>2, <2>3, <3>1
    <3> QED BY <1>4, <2>3, <3>2
  <2> QED BY <1>4, <1>5, <1>7, <2>1, <2>3
<1> QED BY <1>8, <1>9

LEMMA CreateBackupRunTyped ==
    ASSUME WorkTypeOK, NEW k \in Checker, CreateBackupRun(k)
    PROVE  WorkTypeOK'
<1> USE DEF WorkTypeOK
<1>1. BoundsOK' BY BoundsStay DEF CreateBackupRun, Works, Fails
<1>2. UNCHANGED <<jobs, devices, sched, runner, adm, viewer, history>> BY DEF CreateBackupRun
<1>3. /\ checker[k] \in CheckerState /\ FitsChecker(checker[k]) /\ checker[k].pc = "create"
      /\ checker[k].job \in Job /\ checker[k].dev \in Device \X Host
  BY CheckerState1 DEF CreateBackupRun, FitsChecker
<1>4. CASE UNCHANGED runs /\ checker' = [checker EXCEPT ![k] = IdleChecker]
  <2>1. RowsStay BY <1>2, <1>4 DEF RowsStay
  <2>2. IdleChecker \in CheckerState /\ IdleChecker.pc = "idle" BY IdleStates DEF IdleChecker
  <2>3. CheckersOK' BY <1>4, <2>1, <2>2, CheckerFree
  <2> QED BY <1>1, <1>2, <1>4, <2>1, <2>3, RunnersKeep, AdminsKeep, ViewersKeep, ToldKeeps
          DEF TablesOK, SchedOK, sched, history
<1>5. CASE /\ Unused(runs) # {}
           /\ runs' = [runs EXCEPT ![First(Unused(runs))] =
                 [job |-> checker[k].job, host |-> checker[k].dev[2], status |-> "pending"]]
           /\ checker' = [checker EXCEPT ![k].pc = "backup", ![k].run = First(Unused(runs))]
  <2>1. PICK row \in RunRow :
           row = [job |-> checker[k].job, host |-> checker[k].dev[2], status |-> "pending"]
    BY <1>3 DEF RunRow
  <2>2. PICK r : r = First(Unused(runs)) OBVIOUS
  <2>3. RowsStay /\ TablesOK' /\ r \in Run /\ runs'[r] # None
    BY <1>2, <1>5, <2>1, <2>2, NewRunTyped
  <2>4. PICK x : x = [checker[k] EXCEPT !.pc = "backup", !.run = r] OBVIOUS
  <2>5. /\ x \in CheckerState /\ x.pc = "backup" /\ x.job = checker[k].job
        /\ x.dev = checker[k].dev /\ x.run = r
    BY <1>3, <2>3, <2>4 DEF CheckerState
  <2>6. FitsChecker(x)' BY <1>3, <2>3, <2>5 DEF FitsChecker
  <2>7. checker' = [checker EXCEPT ![k] = x]
    BY <1>3, <1>5, <2>2, <2>4, CheckerState1 DEF CheckerState
  <2>8. CheckersOK' BY <2>3, <2>5, <2>6, <2>7, CheckerMoves
  <2> QED BY <1>1, <1>2, <2>3, <2>8, RunnersKeep, AdminsKeep, ViewersKeep, ToldKeeps
          DEF SchedOK, sched, history
<1> QED BY <1>4, <1>5 DEF CreateBackupRun

LEMMA BackupNowTyped ==
    ASSUME WorkTypeOK, NEW k \in Checker, BackupNow(k)
    PROVE  WorkTypeOK'
<1> USE DEF WorkTypeOK
<1>1. BoundsOK' BY BoundsStay DEF BackupNow, FinishRun, Works, Fails
<1>2. UNCHANGED <<jobs, devices, sched, runner, adm, viewer, history>> BY DEF BackupNow
<1>3. /\ checker[k] \in CheckerState /\ FitsChecker(checker[k]) /\ checker[k].pc = "backup"
  BY CheckerState1 DEF BackupNow
<1>4. PICK outcome \in {"ok", "error"} :
         /\ FinishRun(checker[k].run, outcome)
         /\ \/ checker' = [checker EXCEPT ![k] = IdleChecker]
            \/ checker' = [checker EXCEPT ![k].pc = "tell", ![k].outcome = outcome]
  BY DEF BackupNow
<1>5. PICK r \in Run : r = checker[k].run /\ runs[r] # None BY <1>3 DEF FitsChecker
<1>6. RowsStay /\ TablesOK' BY <1>2, <1>4, <1>5, FinishTyped
<1>7. CheckersOK'
  <2>1. CASE checker' = [checker EXCEPT ![k] = IdleChecker]
    <3>1. IdleChecker \in CheckerState /\ IdleChecker.pc = "idle"
      BY IdleStates DEF IdleChecker
    <3> QED BY <1>6, <2>1, <3>1, CheckerFree
  <2>2. CASE checker' = [checker EXCEPT ![k].pc = "tell", ![k].outcome = outcome]
    <3>1. PICK x : x = [checker[k] EXCEPT !.pc = "tell", !.outcome = outcome] OBVIOUS
    <3>2. /\ x \in CheckerState /\ x.pc = "tell" /\ x.job = checker[k].job
          /\ x.dev = checker[k].dev /\ x.run = r /\ x.outcome = outcome
      BY <1>3, <1>5, <3>1 DEF CheckerState
    <3>3. FitsChecker(x)' BY <1>3, <1>5, <1>6, <3>2 DEF FitsChecker, RowsStay
    <3>4. checker' = [checker EXCEPT ![k] = x]
      BY <1>3, <2>2, <3>1, CheckerState1 DEF CheckerState
    <3> QED BY <1>6, <3>2, <3>3, <3>4, CheckerMoves
  <2> QED BY <1>4, <2>1, <2>2
<1> QED BY <1>1, <1>2, <1>6, <1>7, RunnersKeep, AdminsKeep, ViewersKeep, ToldKeeps
        DEF SchedOK, sched, history

LEMMA TellBackupTyped ==
    ASSUME WorkTypeOK, NEW k \in Checker, TellBackup(k)
    PROVE  WorkTypeOK'
<1> USE DEF WorkTypeOK
<1>1. BoundsOK' BY BoundsStay DEF TellBackup, TellStatus, Works, Fails
<1>2. UNCHANGED <<devices, runs, sched, runner, adm, viewer>> BY DEF TellBackup
<1>3. /\ checker[k] \in CheckerState /\ FitsChecker(checker[k]) /\ checker[k].pc = "tell"
  BY CheckerState1 DEF TellBackup
<1>4. PICK j \in Job : j = checker[k].job BY <1>3 DEF FitsChecker
<1>5. PICK status \in {"ok", "error"} : status = checker[k].outcome BY <1>3 DEF FitsChecker
<1>6. PICK told \in SUBSET Run : told = {checker[k].run} BY <1>3 DEF FitsChecker
<1>7. \A r \in told : runs[r] # None BY <1>3, <1>6 DEF FitsChecker
<1>8. WriteStatus(j, status, told) \/ UNCHANGED <<jobs, history>>
  BY <1>4, <1>5, <1>6 DEF TellBackup, TellStatus
<1>9. RowsStay /\ TablesOK' /\ ToldStored' BY <1>2, <1>7, <1>8, TellTyped
<1>10. PICK x : /\ x \in {IdleChecker, [IdleChecker EXCEPT !.pc = "look",
                                                          !.todo = checker[k].todo]}
                /\ checker' = [checker EXCEPT ![k] = x]
  BY DEF TellBackup
<1>11. x \in CheckerState /\ x.pc \in {"idle", "look"}
  <2>1. CASE x = IdleChecker BY <2>1, IdleStates DEF IdleChecker
  <2>2. CASE x = [IdleChecker EXCEPT !.pc = "look", !.todo = checker[k].todo]
    BY <1>3, <2>2 DEF IdleChecker, CheckerState
  <2> QED BY <1>10, <2>1, <2>2
<1>12. CheckersOK' BY <1>9, <1>10, <1>11, CheckerFree
<1> QED BY <1>1, <1>2, <1>9, <1>12, RunnersKeep, AdminsKeep, ViewersKeep DEF SchedOK, sched

LEMMA InitTyped == ASSUME Init PROVE WorkTypeOK
<1> USE IdleStates
<1>1. TablesOK BY WorkflowAssumption DEF Init, TablesOK
<1>2. SchedOK /\ BoundsOK BY DEF Init, SchedOK, BoundsOK
<1>3. RunnersOK BY DEF Init, RunnersOK, FitsRunner, IdleRunner, Executing
<1>4. [IdleAdmin EXCEPT !.pc = "reload"] \in AdminState BY DEF IdleAdmin, AdminState
<1>5. AdminsOK BY <1>4 DEF Init, AdminsOK, FitsAdmin, IdleAdmin
<1>6. ViewersOK /\ CheckersOK
  BY DEF Init, ViewersOK, CheckersOK, FitsViewer, FitsChecker, IdleViewer, IdleChecker
<1>7. ToldStored BY DEF Init, ToldStored
<1> QED BY <1>1, <1>2, <1>3, <1>5, <1>6, <1>7 DEF WorkTypeOK

LEMMA CrashTyped == ASSUME WorkTypeOK, Crash PROVE WorkTypeOK'
<1> USE IdleStates DEF WorkTypeOK
<1>1. UNCHANGED <<tables, history, requests, faults>> /\ crashes' = crashes + 1 BY DEF Crash
<1>2. TablesOK' BY <1>1 DEF TablesOK, tables, history
<1>3. SchedOK' BY DEF Crash, SchedOK
<1>4. BoundsOK' BY <1>1 DEF BoundsOK
<1>5. RunnersOK' BY DEF Crash, RunnersOK, FitsRunner, IdleRunner, Executing
<1>6. [IdleAdmin EXCEPT !.pc = "reload"] \in AdminState BY DEF IdleAdmin, AdminState
<1>7. AdminsOK' BY <1>6 DEF Crash, AdminsOK, FitsAdmin, IdleAdmin
<1>8. ViewersOK' /\ CheckersOK'
  BY DEF Crash, ViewersOK, CheckersOK, FitsViewer, FitsChecker, IdleViewer, IdleChecker
<1>9. ToldStored' BY <1>1 DEF ToldStored, tables, history
<1> QED BY <1>2, <1>3, <1>4, <1>5, <1>7, <1>8, <1>9

LEMMA StutterTyped == ASSUME WorkTypeOK, UNCHANGED vars PROVE WorkTypeOK'
  BY DEF vars, tables, sched, history, bounds, WorkTypeOK, TablesOK, SchedOK, BoundsOK, RunnersOK,
         AdminsOK, ViewersOK, CheckersOK, ToldStored, FitsRunner, FitsAdmin, FitsViewer,
         FitsChecker

(* Every table, goroutine and counter keeps its type.                       *)
LEMMA StepTyped == ASSUME WorkTypeOK, [Next]_vars PROVE WorkTypeOK'
<1>1. CASE \E a \in Reloader : Reload(a) BY <1>1, ReloadTyped
<1>2. CASE \E a \in Admin : Edit(a) BY <1>2, EditTyped
<1>3. CASE \E v \in Viewer : Sync(v) BY <1>3, SyncTyped
<1>4. CASE \E g \in Runner : Tick(g) \/ RunJob(g)
  BY <1>4, TickTyped, LoadTyped, StartDeviceTyped, SendTyped, EndJobTyped DEF RunJob
<1>5. CASE \E k \in Checker : Check(k)
  BY <1>5, StartCheckTyped, LookForBackupTyped, CreateBackupRunTyped, BackupNowTyped,
     TellBackupTyped DEF Check
<1>6. CASE Crash BY <1>6, CrashTyped
<1>7. CASE AtRest \/ UNCHANGED vars BY <1>7, StutterTyped DEF AtRest
<1> QED BY <1>1, <1>2, <1>3, <1>4, <1>5, <1>6, <1>7 DEF Next
-----------------------------------------------------------------------------
(* The work under way: steps that start or end no run.                      *)
SameRunner(x, y) ==
    x.pc = y.pc /\ x.run = y.run /\ x.mine = y.mine /\ x.failed = y.failed /\ x.todo = y.todo
SameChecker(x, y) == x.pc = y.pc /\ x.run = y.run /\ x.outcome = y.outcome
FreshLoad(x) == x.pc = "next" => x.mine = {} /\ ~x.failed /\ x.todo # {}
RunnersQuiet ==
    \A g \in Runner :
        \/ SameRunner(runner'[g], runner[g])
        \/ /\ ~Executing(runner[g]) /\ ~Executing(runner'[g])
           /\ faults' = 0 => FreshLoad(runner'[g])
CheckersQuiet ==
    \A k \in Checker : \/ SameChecker(checker'[k], checker[k])
                       \/ checker[k].pc # "backup" /\ checker'[k].pc \in {"idle", "look", "create"}
Later == (faults' = 0 => faults = 0) /\ (faults' + crashes' = 0 => faults + crashes = 0)
WorkQuiet == UNCHANGED runs /\ RunnersQuiet /\ CheckersQuiet /\ Later

LEMMA SumIsZero == \A m, n \in Nat : m + n = 0 <=> m = 0 /\ n = 0
  OBVIOUS

LEMMA LaterHolds ==
    ASSUME BoundsOK, faults' \in {faults, faults + 1}, crashes' \in {crashes, crashes + 1}
    PROVE  Later
<1>1. faults \in Nat /\ crashes \in Nat BY DEF BoundsOK
<1>2. faults' \in Nat /\ crashes' \in Nat /\ faults' >= faults /\ crashes' >= crashes
  BY <1>1
<1>3. faults' = 0 => faults = 0 BY <1>1, <1>2
<1>4. crashes' = 0 => crashes = 0 BY <1>1, <1>2
<1>5. PICK m, n \in Nat : m = faults' /\ n = crashes' BY <1>2
<1>6. m + n = 0 => m = 0 /\ n = 0 BY SumIsZero
<1> QED BY <1>1, <1>3, <1>4, <1>5, <1>6 DEF Later

LEMMA QuietKeepsOwners ==
    ASSUME OneOwner, RunnersQuiet, CheckersQuiet
    PROVE  OneOwner'
<1>1. \A g \in Runner : Executing(runner'[g]) =>
         Executing(runner[g]) /\ runner'[g].run = runner[g].run
  BY DEF RunnersQuiet, SameRunner, Executing
<1>2. \A k \in Checker : Checks(checker'[k]) =>
         Checks(checker[k]) /\ checker'[k].run = checker[k].run
  BY DEF CheckersQuiet, SameChecker, Checks
<1>3. \A g \in Runner : Executing(runner[g])' =>
         Executing(runner[g]) /\ runner'[g].run = runner[g].run
  BY <1>1 DEF Executing
<1>4. \A k \in Checker : Checks(checker[k])' =>
         Checks(checker[k]) /\ checker'[k].run = checker[k].run
  BY <1>2 DEF Checks
<1> QED BY <1>3, <1>4 DEF OneOwner

LEMMA QuietKeepsWork ==
    ASSUME WorkInv, WorkQuiet
    PROVE  WorkInv'
<1>1. OneOwner' BY QuietKeepsOwners DEF WorkInv, WorkQuiet
<1>2. WorkKnown'
  <2> SUFFICES ASSUME faults' = 0
               PROVE  /\ \A g \in Runner : KnowsRuns(runner[g])'
                      /\ \A k \in Checker : KnowsBackup(checker[k])'
    BY DEF WorkKnown
  <2>1. faults = 0 BY DEF WorkQuiet, Later
  <2>2. ASSUME NEW g \in Runner PROVE KnowsRuns(runner[g])'
    <3>1. KnowsRuns(runner[g]) BY <2>1 DEF WorkInv, WorkKnown
    <3>2. UNCHANGED runs BY DEF WorkQuiet
    <3>3. CASE SameRunner(runner'[g], runner[g])
      BY <3>1, <3>2, <3>3 DEF SameRunner, KnowsRuns, Ended, Executing
    <3>4. CASE ~Executing(runner'[g]) /\ FreshLoad(runner'[g])
      BY <3>4 DEF KnowsRuns, Ended, Executing, FreshLoad
    <3> QED BY <3>3, <3>4 DEF WorkQuiet, RunnersQuiet
  <2>3. ASSUME NEW k \in Checker PROVE KnowsBackup(checker[k])'
    <3>1. KnowsBackup(checker[k]) BY <2>1 DEF WorkInv, WorkKnown
    <3> QED BY <3>1 DEF WorkQuiet, CheckersQuiet, SameChecker, KnowsBackup, Checks
  <2> QED BY <2>2, <2>3
<1>3. PendingIsRunning'
  <2> SUFFICES ASSUME faults' + crashes' = 0, NEW r \in Run, Pending(r)'
               PROVE  \/ \E g \in Runner : runner'[g].run = r /\ Executing(runner'[g])
                      \/ \E k \in Checker : checker'[k].run = r /\ checker'[k].pc = "backup"
    BY DEF PendingIsRunning, Executing
  <2>1. \/ \E g \in Runner : runner[g].run = r /\ runner[g].pc \in {"send", "saveConfig"}
        \/ \E k \in Checker : checker[k].run = r /\ checker[k].pc = "backup"
    BY DEF WorkInv, PendingIsRunning, WorkQuiet, Later, Pending
  <2>2. CASE \E g \in Runner : runner[g].run = r /\ runner[g].pc \in {"send", "saveConfig"}
    BY <2>2 DEF WorkQuiet, RunnersQuiet, SameRunner, Executing
  <2>3. CASE \E k \in Checker : checker[k].run = r /\ checker[k].pc = "backup"
    BY <2>3 DEF WorkQuiet, CheckersQuiet, SameChecker
  <2> QED BY <2>1, <2>2, <2>3
<1> QED BY <1>1, <1>2, <1>3 DEF WorkInv

(* What a goroutine knows stays true while its own runs are left alone.     *)
LEMMA RunsLeftAlone ==
    ASSUME NEW x \in RunnerState, FitsRunner(x), KnowsRuns(x),
           \A r \in x.mine : runs'[r] = runs[r]
    PROVE  KnowsRuns(x)'
<1>1. Ended(x) \subseteq x.mine BY DEF Ended
<1>2. Executing(x) => x.run \in x.mine BY DEF FitsRunner
<1>3. /\ Executing(x)' <=> Executing(x) /\ Ended(x)' = Ended(x) BY DEF Executing, Ended
<1> QED BY <1>1, <1>2, <1>3 DEF KnowsRuns, Executing, Ended

LEMMA BackupLeftAlone ==
    ASSUME NEW x \in CheckerState, KnowsBackup(x),
           x.pc \in {"backup", "tell"} => runs'[x.run] = runs[x.run]
    PROVE  KnowsBackup(x)'
  BY DEF KnowsBackup, Checks
(* A run that starts or ends is nobody else's.                              *)
LEMMA OwnRun ==
    ASSUME WorkTypeOK
    PROVE  /\ \A g \in Runner : /\ runner[g] \in RunnerState /\ FitsRunner(runner[g])
                                /\ \A r \in runner[g].mine : r \in Run /\ runs[r] # None
                                /\ Executing(runner[g]) => runner[g].run \in runner[g].mine
           /\ \A k \in Checker : /\ checker[k] \in CheckerState
                                 /\ checker[k].pc \in {"backup", "tell"} =>
                                       checker[k].run \in Run /\ runs[checker[k].run] # None
           /\ runs \in [Run -> RunRow \cup {None}]
           /\ runner \in [Runner -> RunnerState] /\ checker \in [Checker -> CheckerState]
  BY DEF WorkTypeOK, RunnersOK, CheckersOK, FitsRunner, FitsChecker, RunnerState, TablesOK

LEMMA RunBegins ==
    ASSUME WorkTypeOK, WorkInv, Later, NEW g \in Runner, NEW r \in Run, runs[r] = None,
           NEW row \in RunRow, row.status = "pending", runs' = [runs EXCEPT ![r] = row],
           NEW x \in RunnerState, runner' = [runner EXCEPT ![g] = x], ~Executing(runner[g]),
           runner[g].pc = "next", x.pc = "send", x.run = r, x.mine = runner[g].mine \cup {r},
           x.failed = runner[g].failed, UNCHANGED checker
    PROVE  WorkInv'
<1>1. /\ \A h \in Runner \ {g} : runner'[h] = runner[h]
      /\ runner'[g] = x /\ runs'[r] = row /\ \A i \in Run \ {r} : runs'[i] = runs[i]
  BY OwnRun
<1>2. \A h \in Runner : r \notin runner[h].mine /\ (Executing(runner[h]) => runner[h].run # r)
  BY OwnRun
<1>3. \A k \in Checker : checker[k].pc \in {"backup", "tell"} => checker[k].run # r
  BY OwnRun
<1>4. \A h \in Runner : Executing(runner[h])' => h = g \/ Executing(runner[h])
  BY <1>1 DEF Executing
<1>5. OneOwner'
  <2>1. OneOwner BY DEF WorkInv
  <2>2. ASSUME NEW h \in Runner, NEW i \in Runner, h # i, Executing(runner[h])',
               Executing(runner[i])'
        PROVE  runner'[h].run # runner'[i].run
    BY <1>1, <1>2, <1>4, <2>1, <2>2 DEF OneOwner
  <2>3. ASSUME NEW h \in Runner, NEW k \in Checker, Executing(runner[h])', Checks(checker[k])
        PROVE  runner'[h].run # checker[k].run
    BY <1>1, <1>3, <1>4, <2>1, <2>3 DEF OneOwner, Checks
  <2>4. \A k \in Checker : Checks(checker[k])' <=> Checks(checker[k]) BY DEF Checks
  <2>5. \A k, l \in Checker : k # l /\ Checks(checker[k])' /\ Checks(checker[l])' =>
           checker'[k].run # checker'[l].run
    BY <2>1, <2>4 DEF OneOwner
  <2> QED BY <2>2, <2>3, <2>4, <2>5 DEF OneOwner
<1>6. WorkKnown'
  <2> SUFFICES ASSUME faults' = 0
               PROVE  /\ \A h \in Runner : KnowsRuns(runner[h])'
                      /\ \A k \in Checker : KnowsBackup(checker[k])'
    BY DEF WorkKnown
  <2>1. WorkKnown /\ faults = 0 BY DEF WorkInv, Later
  <2>2. KnowsRuns(x)'
    <3>1. x.pc = "send" /\ Ended(x) = runner[g].mine BY <1>2 DEF Ended, Executing
    <3>2. KnowsRuns(runner[g]) /\ Ended(runner[g]) = runner[g].mine
      BY <2>1 DEF WorkKnown, Ended, Executing
    <3>3. \A i \in runner[g].mine : runs'[i] = runs[i] BY <1>1, <1>2, OwnRun
    <3>4. Ended(x)' = Ended(x) BY DEF Ended, Executing
    <3> QED BY <1>1, <3>1, <3>2, <3>3, <3>4 DEF KnowsRuns, Executing
  <2>3. ASSUME NEW h \in Runner \ {g} PROVE KnowsRuns(runner[h])'
    <3>1. PICK y \in RunnerState : y = runner[h] BY OwnRun
    <3>2. FitsRunner(y) /\ KnowsRuns(y) /\ \A i \in y.mine : runs'[i] = runs[i]
      BY <1>1, <1>2, <2>1, <3>1, OwnRun DEF WorkKnown
    <3>3. KnowsRuns(y)' BY <3>2, RunsLeftAlone
    <3>4. runner'[h] = y BY <1>1, <3>1
    <3> QED BY <3>3, <3>4 DEF KnowsRuns, Ended, Executing
  <2>4. KnowsRuns(runner[g])' BY <1>1, <2>2 DEF KnowsRuns, Ended, Executing
  <2>5. ASSUME NEW k \in Checker PROVE KnowsBackup(checker[k])'
    <3>1. KnowsBackup(checker[k]) BY <2>1 DEF WorkKnown
    <3>2. checker[k].pc \in {"backup", "tell"} => runs'[checker[k].run] = runs[checker[k].run]
      BY <1>1, <1>3, OwnRun
    <3> QED BY <3>1, <3>2 DEF KnowsBackup, Checks
  <2> QED BY <2>3, <2>4, <2>5
<1>7. PendingIsRunning'
  <2> SUFFICES ASSUME faults' + crashes' = 0, NEW i \in Run, Pending(i)'
               PROVE  \/ \E h \in Runner : /\ runner'[h].run = i
                                           /\ runner'[h].pc \in {"send", "saveConfig"}
                      \/ \E k \in Checker : checker'[k].run = i /\ checker'[k].pc = "backup"
    BY DEF PendingIsRunning
  <2>1. CASE i = r BY <1>1, <2>1
  <2>2. CASE i # r
    <3>1. Pending(i) BY <1>1, <2>2 DEF Pending
    <3>2. \/ \E h \in Runner : runner[h].run = i /\ runner[h].pc \in {"send", "saveConfig"}
          \/ \E k \in Checker : checker[k].run = i /\ checker[k].pc = "backup"
      BY <3>1 DEF WorkInv, PendingIsRunning, Later
    <3> QED BY <1>1, <3>2
  <2> QED BY <2>1, <2>2
<1> QED BY <1>5, <1>6, <1>7 DEF WorkInv

LEMMA BackupBegins ==
    ASSUME WorkTypeOK, WorkInv, Later, NEW k \in Checker, NEW r \in Run, runs[r] = None,
           NEW row \in RunRow, row.status = "pending", runs' = [runs EXCEPT ![r] = row],
           NEW x \in CheckerState, checker' = [checker EXCEPT ![k] = x],
           checker[k].pc = "create", x.pc = "backup", x.run = r, UNCHANGED runner
    PROVE  WorkInv'
<1>1. /\ \A l \in Checker \ {k} : checker'[l] = checker[l]
      /\ checker'[k] = x /\ runs'[r] = row /\ \A i \in Run \ {r} : runs'[i] = runs[i]
  BY OwnRun
<1>2. \A h \in Runner : r \notin runner[h].mine /\ (Executing(runner[h]) => runner[h].run # r)
  BY OwnRun
<1>3. \A l \in Checker : checker[l].pc \in {"backup", "tell"} => checker[l].run # r
  BY OwnRun
<1>4. \A h \in Runner : Executing(runner[h])' <=> Executing(runner[h]) BY DEF Executing
<1>5. OneOwner'
  <2>1. OneOwner BY DEF WorkInv
  <2>2. \A l \in Checker : Checks(checker[l])' => l = k \/ Checks(checker[l])
    BY <1>1 DEF Checks
  <2>3. ASSUME NEW l \in Checker, NEW i \in Checker, l # i, Checks(checker[l])',
               Checks(checker[i])'
        PROVE  checker'[l].run # checker'[i].run
    BY <1>1, <1>3, <2>1, <2>2, <2>3 DEF OneOwner, Checks
  <2>4. ASSUME NEW h \in Runner, NEW l \in Checker, Executing(runner[h]), Checks(checker[l])'
        PROVE  runner[h].run # checker'[l].run
    BY <1>1, <1>2, <2>1, <2>2, <2>4 DEF OneOwner
  <2>5. \A g, h \in Runner : g # h /\ Executing(runner[g])' /\ Executing(runner[h])' =>
           runner'[g].run # runner'[h].run
    BY <1>4, <2>1 DEF OneOwner
  <2> QED BY <1>4, <2>3, <2>4, <2>5 DEF OneOwner
<1>6. WorkKnown'
  <2> SUFFICES ASSUME faults' = 0
               PROVE  /\ \A h \in Runner : KnowsRuns(runner[h])'
                      /\ \A l \in Checker : KnowsBackup(checker[l])'
    BY DEF WorkKnown
  <2>1. WorkKnown /\ faults = 0 BY DEF WorkInv, Later
  <2>2. ASSUME NEW h \in Runner PROVE KnowsRuns(runner[h])'
    <3>1. PICK y \in RunnerState : y = runner[h] BY OwnRun
    <3>2. FitsRunner(y) /\ KnowsRuns(y) /\ \A i \in y.mine : runs'[i] = runs[i]
      BY <1>1, <1>2, <2>1, <3>1, OwnRun DEF WorkKnown
    <3>3. KnowsRuns(y)' BY <3>2, RunsLeftAlone
    <3> QED BY <3>1, <3>3 DEF KnowsRuns, Ended, Executing
  <2>3. KnowsBackup(checker[k])' BY <1>1 DEF KnowsBackup, Checks
  <2>4. ASSUME NEW l \in Checker \ {k} PROVE KnowsBackup(checker[l])'
    <3>1. KnowsBackup(checker[l]) BY <2>1 DEF WorkKnown
    <3>2. checker[l].pc \in {"backup", "tell"} => runs'[checker[l].run] = runs[checker[l].run]
      BY <1>1, <1>3, OwnRun
    <3> QED BY <1>1, <3>1, <3>2 DEF KnowsBackup, Checks
  <2> QED BY <2>2, <2>3, <2>4
<1>7. PendingIsRunning'
  <2> SUFFICES ASSUME faults' + crashes' = 0, NEW i \in Run, Pending(i)'
               PROVE  \/ \E h \in Runner : /\ runner'[h].run = i
                                           /\ runner'[h].pc \in {"send", "saveConfig"}
                      \/ \E l \in Checker : checker'[l].run = i /\ checker'[l].pc = "backup"
    BY DEF PendingIsRunning
  <2>1. CASE i = r BY <1>1, <2>1
  <2>2. CASE i # r
    <3>1. Pending(i) BY <1>1, <2>2 DEF Pending
    <3>2. \/ \E h \in Runner : runner[h].run = i /\ runner[h].pc \in {"send", "saveConfig"}
          \/ \E l \in Checker : checker[l].run = i /\ checker[l].pc = "backup"
      BY <3>1 DEF WorkInv, PendingIsRunning, Later
    <3> QED BY <1>1, <3>2
  <2> QED BY <2>1, <2>2
<1> QED BY <1>5, <1>6, <1>7 DEF WorkInv
(* FinishRun leaves the other runs alone, and fails or writes the status.   *)
LEMMA FinishWrites ==
    ASSUME WorkTypeOK, NEW r \in Run, runs[r] # None, NEW status, FinishRun(r, status)
    PROVE  /\ \A i \in Run \ {r} : runs'[i] = runs[i]
           /\ faults' = 0 => runs'[r].status = status
           /\ faults' \in {faults, faults + 1}
<1>1. runs \in [Run -> RunRow \cup {None}] /\ runs[r] \in RunRow /\ faults \in Nat
  BY DEF WorkTypeOK, TablesOK, BoundsOK
<1>2. CASE Works /\ runs' = [runs EXCEPT ![r].status = status]
  BY <1>1, <1>2 DEF RunRow, Works
<1>3. CASE Fails /\ UNCHANGED runs BY <1>1, <1>3 DEF Fails
<1> QED BY <1>2, <1>3 DEF FinishRun

(* While no call has failed, the run a goroutine executes is on nobody      *)
(* else's record.                                                           *)
LEMMA NobodyElse ==
    ASSUME WorkTypeOK, WorkInv, faults = 0, NEW g \in Runner, Executing(runner[g])
    PROVE  /\ runs[runner[g].run].status = "pending"
           /\ \A h \in Runner \ {g} : runner[g].run \notin runner[h].mine
           /\ \A k \in Checker : checker[k].pc \in {"backup", "tell"} =>
                                     checker[k].run # runner[g].run
<1>1. WorkKnown /\ OneOwner BY DEF WorkInv
<1>2. runs[runner[g].run].status = "pending" BY <1>1 DEF WorkKnown, KnowsRuns
<1>3. ASSUME NEW h \in Runner \ {g} PROVE runner[g].run \notin runner[h].mine
  <2>1. FitsRunner(runner[h]) /\ runner[h] \in RunnerState BY OwnRun
  <2>2. CASE Executing(runner[h])
    <3>1. \A i \in runner[h].mine \ {runner[h].run} : runs[i].status # "pending"
      BY <1>1, <2>2 DEF WorkKnown, KnowsRuns, Ended
    <3>2. runner[h].run # runner[g].run BY <1>1, <2>2 DEF OneOwner
    <3> QED BY <1>2, <3>1, <3>2
  <2>3. CASE runner[h].pc = "next"
    BY <1>1, <1>2, <2>3 DEF WorkKnown, KnowsRuns, Ended, Executing
  <2>4. CASE runner[h].pc \in {"idle", "load"} BY <2>1, <2>4 DEF FitsRunner
  <2> QED BY <2>1, <2>2, <2>3, <2>4 DEF RunnerState, Executing
<1>4. ASSUME NEW k \in Checker, checker[k].pc \in {"backup", "tell"}
      PROVE  checker[k].run # runner[g].run
  <2>1. CASE Checks(checker[k]) BY <1>1, <2>1 DEF OneOwner
  <2>2. CASE checker[k].pc = "tell"
    <3>1. runs[checker[k].run].status = checker[k].outcome BY <1>1, <2>2 DEF WorkKnown, KnowsBackup
    <3>2. checker[k].outcome \in {"ok", "error"}
      BY <2>2 DEF WorkTypeOK, CheckersOK, FitsChecker
    <3> QED BY <1>2, <3>1, <3>2
  <2> QED BY <1>4, <2>1, <2>2 DEF Checks
<1> QED BY <1>2, <1>3, <1>4

LEMMA NobodyElseChecks ==
    ASSUME WorkTypeOK, WorkInv, faults = 0, NEW k \in Checker, Checks(checker[k])
    PROVE  /\ runs[checker[k].run].status = "pending"
           /\ \A h \in Runner : checker[k].run \notin runner[h].mine
           /\ \A l \in Checker \ {k} : checker[l].pc \in {"backup", "tell"} =>
                                           checker[l].run # checker[k].run
<1>1. WorkKnown /\ OneOwner BY DEF WorkInv
<1>2. runs[checker[k].run].status = "pending" BY <1>1 DEF WorkKnown, KnowsBackup
<1>3. ASSUME NEW h \in Runner PROVE checker[k].run \notin runner[h].mine
  <2>1. FitsRunner(runner[h]) /\ runner[h] \in RunnerState BY OwnRun
  <2>2. CASE Executing(runner[h])
    <3>1. \A i \in runner[h].mine \ {runner[h].run} : runs[i].status # "pending"
      BY <1>1, <2>2 DEF WorkKnown, KnowsRuns, Ended
    <3>2. runner[h].run # checker[k].run BY <1>1, <2>2 DEF OneOwner
    <3> QED BY <1>2, <3>1, <3>2
  <2>3. CASE runner[h].pc = "next"
    BY <1>1, <1>2, <2>3 DEF WorkKnown, KnowsRuns, Ended, Executing
  <2>4. CASE runner[h].pc \in {"idle", "load"} BY <2>1, <2>4 DEF FitsRunner
  <2> QED BY <2>1, <2>2, <2>3, <2>4 DEF RunnerState, Executing
<1>4. ASSUME NEW l \in Checker \ {k}, checker[l].pc \in {"backup", "tell"}
      PROVE  checker[l].run # checker[k].run
  <2>1. CASE Checks(checker[l]) BY <1>1, <2>1 DEF OneOwner
  <2>2. CASE checker[l].pc = "tell"
    <3>1. runs[checker[l].run].status = checker[l].outcome BY <1>1, <2>2 DEF WorkKnown, KnowsBackup
    <3>2. checker[l].outcome \in {"ok", "error"}
      BY <2>2 DEF WorkTypeOK, CheckersOK, FitsChecker
    <3> QED BY <1>2, <3>1, <3>2
  <2> QED BY <1>4, <2>1, <2>2 DEF Checks
<1> QED BY <1>2, <1>3, <1>4

LEMMA RunEnds ==
    ASSUME WorkTypeOK, WorkInv, UNCHANGED <<checker, crashes>>, NEW g \in Runner,
           Executing(runner[g]), NEW failed \in BOOLEAN,
           FinishRun(runner[g].run, IF failed THEN "error" ELSE "ok"),
           runner' = [runner EXCEPT ![g] = DeviceDone(runner[g], failed)]
    PROVE  WorkInv'
<1>1. PICK r \in Run : r = runner[g].run /\ runs[r] # None /\ r \in runner[g].mine BY OwnRun
<1>2. PICK x : x = DeviceDone(runner[g], failed) OBVIOUS
<1>3. PICK status : status = IF failed THEN "error" ELSE "ok" OBVIOUS
<1>4. /\ \A i \in Run \ {r} : runs'[i] = runs[i]
      /\ faults' = 0 => runs'[r].status = status
      /\ faults' \in {faults, faults + 1}
  BY <1>1, <1>3, FinishWrites
<1>5. /\ \A h \in Runner \ {g} : runner'[h] = runner[h]
      /\ runner'[g] = x
  BY <1>2, OwnRun
<1>6. /\ x.pc = "next" /\ x.mine = runner[g].mine /\ x.failed = (runner[g].failed \/ failed)
  BY <1>2, OwnRun DEF DeviceDone, RunnerState
<1>7. Later BY <1>4, LaterHolds DEF WorkTypeOK
<1>8. OneOwner'
  <2>1. \A h \in Runner : Executing(runner[h])' => /\ h # g /\ Executing(runner[h])
                                                  /\ runner'[h].run = runner[h].run
    BY <1>5, <1>6 DEF Executing
  <2>2. \A k \in Checker : Checks(checker[k])' <=> Checks(checker[k]) BY DEF Checks
  <2> QED BY <2>1, <2>2 DEF OneOwner, WorkInv
<1>9. WorkKnown'
  <2> SUFFICES ASSUME faults' = 0
               PROVE  /\ \A h \in Runner : KnowsRuns(runner[h])'
                      /\ \A k \in Checker : KnowsBackup(checker[k])'
    BY DEF WorkKnown
  <2>1. WorkKnown /\ faults = 0 BY <1>7 DEF WorkInv, Later
  <2>2. KnowsRuns(runner[g])'
    <3>1. Ended(runner[g]) = runner[g].mine \ {r} BY <1>1 DEF Ended
    <3>2. /\ \A i \in Ended(runner[g]) : runs[i].status # "pending"
          /\ runner[g].failed <=> \E i \in Ended(runner[g]) : runs[i].status # "ok"
      BY <2>1 DEF WorkKnown, KnowsRuns
    <3>3. \A i \in Ended(runner[g]) : runs'[i] = runs[i] BY <1>4, <3>1, OwnRun
    <3>4. runs'[r].status = status BY <1>4
    <3>5. Ended(x)' = runner[g].mine BY <1>6 DEF Ended, Executing
    <3>6. \A i \in runner[g].mine : i = r \/ i \in Ended(runner[g]) BY <3>1
    <3>7. \A i \in runner[g].mine : runs'[i].status # "pending"
      BY <1>3, <3>2, <3>3, <3>4, <3>6
    <3>8. x.failed <=> \E i \in runner[g].mine : runs'[i].status # "ok"
      <4>1. failed <=> status # "ok" BY <1>3
      <4>2. x.failed <=> runner[g].failed \/ status # "ok" BY <1>6, <4>1
      <4>3. (\E i \in runner[g].mine : runs'[i].status # "ok") <=>
               runs'[r].status # "ok" \/ \E i \in Ended(runner[g]) : runs'[i].status # "ok"
        BY <1>1, <3>1, <3>6
      <4>4. (\E i \in Ended(runner[g]) : runs'[i].status # "ok") <=>
               \E i \in Ended(runner[g]) : runs[i].status # "ok"
        BY <3>3
      <4> QED BY <3>2, <3>4, <4>2, <4>3, <4>4
    <3>9. KnowsRuns(x)' BY <1>1, <1>6, <3>5, <3>7, <3>8 DEF KnowsRuns, Executing
    <3> QED BY <1>5, <3>9 DEF KnowsRuns, Ended, Executing
  <2>3. ASSUME NEW h \in Runner \ {g} PROVE KnowsRuns(runner[h])'
    <3>1. PICK y \in RunnerState : y = runner[h] BY OwnRun
    <3>2. FitsRunner(y) /\ KnowsRuns(y) BY <2>1, <3>1, OwnRun DEF WorkKnown
    <3>3. r \notin y.mine BY <1>1, <2>1, <3>1, NobodyElse
    <3>4. \A i \in y.mine : runs'[i] = runs[i] BY <1>4, <3>1, <3>3, OwnRun
    <3>5. KnowsRuns(y)' BY <3>2, <3>4, RunsLeftAlone
    <3> QED BY <1>5, <3>1, <3>5 DEF KnowsRuns, Ended, Executing
  <2>4. ASSUME NEW k \in Checker PROVE KnowsBackup(checker[k])'
    <3>1. KnowsBackup(checker[k]) BY <2>1 DEF WorkKnown
    <3>2. checker[k].pc \in {"backup", "tell"} => checker[k].run # r
      BY <1>1, <2>1, NobodyElse
    <3>3. checker[k].pc \in {"backup", "tell"} => runs'[checker[k].run] = runs[checker[k].run]
      BY <1>4, <3>2, OwnRun
    <3> QED BY <3>1, <3>3 DEF KnowsBackup, Checks
  <2> QED BY <2>2, <2>3, <2>4
<1>10. PendingIsRunning'
  <2> SUFFICES ASSUME faults' + crashes' = 0, NEW i \in Run, Pending(i)'
               PROVE  \/ \E h \in Runner : /\ runner'[h].run = i
                                           /\ runner'[h].pc \in {"send", "saveConfig"}
                      \/ \E k \in Checker : checker'[k].run = i /\ checker'[k].pc = "backup"
    BY DEF PendingIsRunning
  <2>1. faults \in Nat /\ crashes \in Nat BY DEF WorkTypeOK, BoundsOK
  <2>2. faults' \in Nat /\ crashes' \in Nat BY <1>4, <2>1
  <2>3. faults' = 0 BY <2>2, SumIsZero
  <2>4. i # r BY <1>3, <1>4, <2>3 DEF Pending
  <2>5. Pending(i) BY <1>4, <2>4 DEF Pending
  <2>6. \/ \E h \in Runner : runner[h].run = i /\ runner[h].pc \in {"send", "saveConfig"}
        \/ \E k \in Checker : checker[k].run = i /\ checker[k].pc = "backup"
    BY <1>7, <2>5 DEF WorkInv, PendingIsRunning, Later
  <2> QED BY <1>1, <1>5, <2>4, <2>6
<1> QED BY <1>8, <1>9, <1>10 DEF WorkInv

LEMMA BackupEnds ==
    ASSUME WorkTypeOK, WorkInv, UNCHANGED <<runner, crashes>>, NEW k \in Checker,
           Checks(checker[k]), NEW status \in {"ok", "error"},
           FinishRun(checker[k].run, status), NEW x \in CheckerState,
           checker' = [checker EXCEPT ![k] = x], x.pc \in {"tell", "idle"},
           x.pc = "tell" => x.run = checker[k].run /\ x.outcome = status
    PROVE  WorkInv'
<1>1. PICK r \in Run : r = checker[k].run /\ runs[r] # None BY OwnRun DEF Checks
<1>2. /\ \A i \in Run \ {r} : runs'[i] = runs[i]
      /\ faults' = 0 => runs'[r].status = status
      /\ faults' \in {faults, faults + 1}
  BY <1>1, FinishWrites
<1>3. (\A l \in Checker \ {k} : checker'[l] = checker[l]) /\ checker'[k] = x BY OwnRun
<1>4. Later BY <1>2, LaterHolds DEF WorkTypeOK
<1>5. OneOwner'
  <2>1. \A l \in Checker : Checks(checker[l])' => /\ Checks(checker[l])
                                                  /\ checker'[l].run = checker[l].run
    BY <1>3 DEF Checks
  <2>2. \A h \in Runner : Executing(runner[h])' <=> Executing(runner[h]) BY DEF Executing
  <2> QED BY <2>1, <2>2 DEF OneOwner, WorkInv
<1>6. WorkKnown'
  <2> SUFFICES ASSUME faults' = 0
               PROVE  /\ \A h \in Runner : KnowsRuns(runner[h])'
                      /\ \A l \in Checker : KnowsBackup(checker[l])'
    BY DEF WorkKnown
  <2>1. WorkKnown /\ faults = 0 BY <1>4 DEF WorkInv, Later
  <2>2. ASSUME NEW h \in Runner PROVE KnowsRuns(runner[h])'
    <3>1. PICK y \in RunnerState : y = runner[h] BY OwnRun
    <3>2. FitsRunner(y) /\ KnowsRuns(y) BY <2>1, <3>1, OwnRun DEF WorkKnown
    <3>3. r \notin y.mine BY <1>1, <2>1, <3>1, NobodyElseChecks
    <3>4. \A i \in y.mine : runs'[i] = runs[i] BY <1>2, <3>1, <3>3, OwnRun
    <3>5. KnowsRuns(y)' BY <3>2, <3>4, RunsLeftAlone
    <3> QED BY <3>1, <3>5 DEF KnowsRuns, Ended, Executing
  <2>3. KnowsBackup(checker[k])' BY <1>1, <1>2, <1>3 DEF KnowsBackup, Checks
  <2>4. ASSUME NEW l \in Checker \ {k} PROVE KnowsBackup(checker[l])'
    <3>1. KnowsBackup(checker[l]) BY <2>1 DEF WorkKnown
    <3>2. checker[l].pc \in {"backup", "tell"} => checker[l].run # r
      BY <1>1, <2>1, NobodyElseChecks
    <3>3. checker[l].pc \in {"backup", "tell"} => runs'[checker[l].run] = runs[checker[l].run]
      BY <1>2, <3>2, OwnRun
    <3> QED BY <1>3, <3>1, <3>3 DEF KnowsBackup, Checks
  <2> QED BY <2>2, <2>3, <2>4
<1>7. PendingIsRunning'
  <2> SUFFICES ASSUME faults' + crashes' = 0, NEW i \in Run, Pending(i)'
               PROVE  \/ \E h \in Runner : /\ runner'[h].run = i
                                           /\ runner'[h].pc \in {"send", "saveConfig"}
                      \/ \E l \in Checker : checker'[l].run = i /\ checker'[l].pc = "backup"
    BY DEF PendingIsRunning
  <2>1. faults \in Nat /\ crashes \in Nat BY DEF WorkTypeOK, BoundsOK
  <2>2. faults' \in Nat /\ crashes' \in Nat BY <1>2, <2>1
  <2>3. faults' = 0 BY <2>2, SumIsZero
  <2>4. i # r BY <1>2, <2>3 DEF Pending
  <2>5. Pending(i) BY <1>2, <2>4 DEF Pending
  <2>6. \/ \E h \in Runner : runner[h].run = i /\ runner[h].pc \in {"send", "saveConfig"}
        \/ \E l \in Checker : checker[l].run = i /\ checker[l].pc = "backup"
    BY <1>4, <2>5 DEF WorkInv, PendingIsRunning, Later
  <2> QED BY <1>1, <1>3, <2>4, <2>6
<1> QED BY <1>5, <1>6, <1>7 DEF WorkInv
-----------------------------------------------------------------------------
(* The work under way, action by action.                                    *)
LEMMA StartDeviceWork ==
    ASSUME WorkTypeOK, WorkInv, NEW g \in Runner, StartDevice(g)
    PROVE  WorkInv'
<1>1. UNCHANGED <<jobs, devices, checker, crashes>> /\ faults' \in {faults, faults + 1}
  BY DEF StartDevice, Works, Fails
<1>2. Later BY <1>1, LaterHolds DEF WorkTypeOK
<1>3. /\ runner \in [Runner -> RunnerState] /\ runner[g] \in RunnerState
      /\ FitsRunner(runner[g]) /\ runner[g].pc = "next" /\ runner[g].job \in Job
  BY OwnRun DEF StartDevice, FitsRunner
<1>4. PICK t \in runner[g].todo :
       \/ /\ Unused(runs) # {}
          /\ runs' = [runs EXCEPT ![First(Unused(runs))] =
                         [job |-> runner[g].job, host |-> t[2], status |-> "pending"]]
          /\ runner' = [runner EXCEPT
                ![g].pc = "send", ![g].todo = @ \ {t}, ![g].host = t[2],
                ![g].run = First(Unused(runs)), ![g].mine = @ \cup {First(Unused(runs))}]
       \/ /\ faults' = faults + 1
          /\ runner' = [runner EXCEPT ![g].todo = @ \ {t}, ![g].failed = TRUE]
          /\ UNCHANGED runs
  BY DEF StartDevice, Fails
<1>5. t[2] \in Host BY <1>3 DEF RunnerState
<1>6. CASE /\ UNCHANGED runs /\ faults' = faults + 1
           /\ runner' = [runner EXCEPT ![g].todo = @ \ {t}, ![g].failed = TRUE]
  <2>1. faults' # 0 BY <1>6 DEF WorkTypeOK, BoundsOK
  <2>2. runner'[g].pc = "next" /\ \A h \in Runner \ {g} : runner'[h] = runner[h]
    BY <1>3, <1>6 DEF RunnerState
  <2>3. RunnersQuiet BY <1>3, <2>1, <2>2 DEF RunnersQuiet, SameRunner, Executing
  <2>4. CheckersQuiet BY <1>1 DEF CheckersQuiet, SameChecker
  <2> QED BY <1>2, <1>6, <2>3, <2>4, QuietKeepsWork DEF WorkQuiet
<1>7. CASE /\ Unused(runs) # {}
           /\ runs' = [runs EXCEPT ![First(Unused(runs))] =
                          [job |-> runner[g].job, host |-> t[2], status |-> "pending"]]
           /\ runner' = [runner EXCEPT
                 ![g].pc = "send", ![g].todo = @ \ {t}, ![g].host = t[2],
                 ![g].run = First(Unused(runs)), ![g].mine = @ \cup {First(Unused(runs))}]
  <2>1. PICK row \in RunRow :
           row = [job |-> runner[g].job, host |-> t[2], status |-> "pending"]
    BY <1>3, <1>5 DEF RunRow
  <2>2. row.status = "pending" BY <2>1
  <2>3. PICK r : r = First(Unused(runs)) OBVIOUS
  <2>4. r \in Run /\ runs[r] = None
    BY <1>7, <2>3, NewRow, Ids, OwnRun
  <2>5. PICK x : x = [runner[g] EXCEPT !.pc = "send", !.todo = @ \ {t}, !.host = t[2],
                                       !.run = r, !.mine = @ \cup {r}]
    OBVIOUS
  <2>6. /\ x \in RunnerState /\ x.pc = "send" /\ x.run = r
        /\ x.mine = runner[g].mine \cup {r} /\ x.failed = runner[g].failed
    BY <1>3, <1>5, <2>4, <2>5, ZenonT(60) DEF RunnerState
  <2>7. runner' = [runner EXCEPT ![g] = x] BY <1>3, <1>7, <2>3, <2>5 DEF RunnerState
  <2>8. runs' = [runs EXCEPT ![r] = row] BY <1>7, <2>1, <2>3
  <2>9. ~Executing(runner[g]) BY <1>3 DEF Executing
  <2> QED BY <1>1, <1>2, <1>3, <2>2, <2>4, <2>6, <2>7, <2>8, <2>9, RunBegins
<1> QED BY <1>4, <1>6, <1>7

LEMMA SendWork ==
    ASSUME WorkTypeOK, WorkInv, NEW g \in Runner, Send(g)
    PROVE  WorkInv'
<1>1. UNCHANGED <<checker, crashes>> BY DEF Send
<1>2. runner \in [Runner -> RunnerState] /\ runner[g] \in RunnerState BY OwnRun
<1>3. CASE /\ runner[g].pc = "send" /\ UNCHANGED <<runs, faults>>
           /\ runner' = [runner EXCEPT ![g].pc = "saveConfig"]
  <2>1. Later BY <1>1, <1>3 DEF Later
  <2>2. \A h \in Runner \ {g} : runner'[h] = runner[h] BY <1>2, <1>3
  <2>3. PICK x : x = runner'[g] OBVIOUS
  <2>4. /\ x.pc = "saveConfig" /\ x.run = runner[g].run /\ x.mine = runner[g].mine
        /\ x.failed = runner[g].failed /\ x.todo = runner[g].todo
    BY <1>2, <1>3, <2>3 DEF RunnerState
  <2>5. OneOwner'
    <3>1. \A h \in Runner : Executing(runner[h])' =>
             Executing(runner[h]) /\ runner'[h].run = runner[h].run
      BY <1>3, <2>2, <2>3, <2>4 DEF Executing
    <3>2. \A k \in Checker : Checks(checker[k])' <=> Checks(checker[k]) BY <1>1 DEF Checks
    <3> QED BY <1>1, <3>1, <3>2 DEF OneOwner, WorkInv
  <2>6. WorkKnown'
    <3>1. ASSUME faults = 0, NEW h \in Runner \ {g} PROVE KnowsRuns(runner[h])'
      <4>1. KnowsRuns(runner[h]) BY <3>1 DEF WorkInv, WorkKnown
      <4> QED BY <1>3, <2>2, <4>1 DEF KnowsRuns, Ended, Executing
    <3>2. ASSUME faults = 0 PROVE KnowsRuns(runner[g])'
      <4>1. KnowsRuns(runner[g]) BY <3>2 DEF WorkInv, WorkKnown
      <4> QED BY <1>3, <2>3, <2>4, <4>1 DEF KnowsRuns, Ended, Executing
    <3>3. ASSUME faults = 0, NEW k \in Checker PROVE KnowsBackup(checker[k])'
      <4>1. KnowsBackup(checker[k]) BY <3>3 DEF WorkInv, WorkKnown
      <4> QED BY <1>1, <1>3, <4>1 DEF KnowsBackup, Checks
    <3> QED BY <1>3, <3>1, <3>2, <3>3 DEF WorkKnown
  <2>7. PendingIsRunning'
    <3> SUFFICES ASSUME faults' + crashes' = 0, NEW r \in Run, Pending(r)'
                 PROVE  \/ \E h \in Runner : /\ runner'[h].run = r
                                             /\ runner'[h].pc \in {"send", "saveConfig"}
                        \/ \E k \in Checker : checker'[k].run = r /\ checker'[k].pc = "backup"
      BY DEF PendingIsRunning
    <3>1. \/ \E h \in Runner : runner[h].run = r /\ runner[h].pc \in {"send", "saveConfig"}
          \/ \E k \in Checker : checker[k].run = r /\ checker[k].pc = "backup"
      BY <1>3, <2>1 DEF WorkInv, PendingIsRunning, Later, Pending
    <3> QED BY <1>1, <2>2, <2>3, <2>4, <3>1
  <2> QED BY <2>5, <2>6, <2>7 DEF WorkInv
<1>4. ASSUME NEW failed \in BOOLEAN, Executing(runner[g]),
             FinishRun(runner[g].run, IF failed THEN "error" ELSE "ok"),
             runner' = [runner EXCEPT ![g] = DeviceDone(runner[g], failed)]
      PROVE  WorkInv'
  BY <1>1, <1>4, RunEnds
<1> QED BY <1>3, <1>4, SendOutcome

LEMMA CreateBackupRunWork ==
    ASSUME WorkTypeOK, WorkInv, NEW k \in Checker, CreateBackupRun(k)
    PROVE  WorkInv'
<1>1. UNCHANGED <<jobs, devices, runner, crashes>> /\ faults' \in {faults, faults + 1}
  BY DEF CreateBackupRun, Works, Fails
<1>2. Later BY <1>1, LaterHolds DEF WorkTypeOK
<1>3. /\ checker[k] \in CheckerState /\ FitsChecker(checker[k]) /\ checker[k].pc = "create"
      /\ checker[k].job \in Job /\ checker[k].dev \in Device \X Host
  BY CheckerState1 DEF CreateBackupRun, FitsChecker
<1>4. CASE UNCHANGED runs /\ checker' = [checker EXCEPT ![k] = IdleChecker]
  <2>1. \A l \in Checker : l = k \/ checker'[l] = checker[l] BY <1>4, OwnRun
  <2>2. checker'[k].pc = "idle" BY <1>4, OwnRun DEF IdleChecker
  <2>3. CheckersQuiet BY <1>3, <2>1, <2>2 DEF CheckersQuiet, SameChecker
  <2>4. RunnersQuiet BY <1>1 DEF RunnersQuiet, SameRunner
  <2> QED BY <1>2, <1>4, <2>3, <2>4, QuietKeepsWork DEF WorkQuiet
<1>5. CASE /\ Unused(runs) # {}
           /\ runs' = [runs EXCEPT ![First(Unused(runs))] =
                 [job |-> checker[k].job, host |-> checker[k].dev[2], status |-> "pending"]]
           /\ checker' = [checker EXCEPT ![k].pc = "backup", ![k].run = First(Unused(runs))]
  <2>1. PICK row \in RunRow :
           row = [job |-> checker[k].job, host |-> checker[k].dev[2], status |-> "pending"]
    BY <1>3 DEF RunRow
  <2>2. row.status = "pending" BY <2>1
  <2>3. PICK r : r = First(Unused(runs)) OBVIOUS
  <2>4. r \in Run /\ runs[r] = None BY <1>5, <2>3, NewRow, Ids, OwnRun
  <2>5. PICK x : x = [checker[k] EXCEPT !.pc = "backup", !.run = r] OBVIOUS
  <2>6. x \in CheckerState /\ x.pc = "backup" /\ x.run = r
    BY <1>3, <2>4, <2>5 DEF CheckerState
  <2>7. checker' = [checker EXCEPT ![k] = x]
    BY <1>3, <1>5, <2>3, <2>5, OwnRun, ZenonT(60) DEF CheckerState
  <2>8. runs' = [runs EXCEPT ![r] = row] BY <1>5, <2>1, <2>3
  <2> QED BY <1>1, <1>2, <1>3, <2>2, <2>4, <2>6, <2>7, <2>8, BackupBegins
<1> QED BY <1>4, <1>5 DEF CreateBackupRun

LEMMA BackupNowWork ==
    ASSUME WorkTypeOK, WorkInv, NEW k \in Checker, BackupNow(k)
    PROVE  WorkInv'
<1>1. UNCHANGED <<runner, crashes>> BY DEF BackupNow
<1>2. checker[k] \in CheckerState /\ checker[k].pc = "backup" BY OwnRun DEF BackupNow
<1>3. PICK outcome \in {"ok", "error"} :
         /\ FinishRun(checker[k].run, outcome)
         /\ \/ checker' = [checker EXCEPT ![k] = IdleChecker]
            \/ checker' = [checker EXCEPT ![k].pc = "tell", ![k].outcome = outcome]
  BY DEF BackupNow
<1>4. Checks(checker[k]) BY <1>2 DEF Checks
<1>5. CASE checker' = [checker EXCEPT ![k] = IdleChecker]
  <2>1. PICK x : x = IdleChecker OBVIOUS
  <2>2. x \in CheckerState /\ x.pc = "idle" BY <2>1, IdleStates DEF IdleChecker
  <2> QED BY <1>1, <1>3, <1>4, <1>5, <2>1, <2>2, BackupEnds
<1>6. CASE checker' = [checker EXCEPT ![k].pc = "tell", ![k].outcome = outcome]
  <2>1. PICK x : x = [checker[k] EXCEPT !.pc = "tell", !.outcome = outcome] OBVIOUS
  <2>2. x \in CheckerState /\ x.pc = "tell" /\ x.run = checker[k].run /\ x.outcome = outcome
    BY <1>2, <2>1 DEF CheckerState
  <2>3. checker' = [checker EXCEPT ![k] = x] BY <1>2, <1>6, <2>1, OwnRun DEF CheckerState
  <2> QED BY <1>1, <1>3, <1>4, <2>2, <2>3, BackupEnds
<1> QED BY <1>3, <1>5, <1>6
-----------------------------------------------------------------------------
(* The work under way: the steps that leave the table of runs alone.        *)
LEMMA SameQuiet ==
    ASSUME WorkTypeOK
    PROVE  /\ UNCHANGED runner => RunnersQuiet
           /\ UNCHANGED checker => CheckersQuiet
  BY DEF RunnersQuiet, CheckersQuiet, SameRunner, SameChecker

LEMMA RunnerQuiet ==
    ASSUME WorkTypeOK, NEW g \in Runner, NEW x \in RunnerState, runner' = [runner EXCEPT ![g] = x],
           ~Executing(runner[g]), ~Executing(x), faults' = 0 => FreshLoad(x)
    PROVE  RunnersQuiet
<1>1. runner'[g] = x /\ \A h \in Runner \ {g} : runner'[h] = runner[h] BY OwnRun
<1> QED BY <1>1 DEF RunnersQuiet, SameRunner, Executing, FreshLoad

LEMMA CheckerQuiet ==
    ASSUME WorkTypeOK, NEW k \in Checker, NEW x \in CheckerState,
           checker' = [checker EXCEPT ![k] = x], checker[k].pc # "backup",
           x.pc \in {"idle", "look", "create"}
    PROVE  CheckersQuiet
<1>1. checker'[k] = x /\ \A l \in Checker \ {k} : checker'[l] = checker[l] BY OwnRun
<1> QED BY <1>1 DEF CheckersQuiet, SameChecker

LEMMA ReloadWork ==
    ASSUME WorkTypeOK, WorkInv, NEW a \in Reloader, Reload(a)
    PROVE  WorkInv'
<1>1. UNCHANGED <<runs, checker, crashes>> /\ faults' \in {faults, faults + 1}
  BY DEF Reload, StartReload, RemoveTag, ResetMap, ListJobs, NewGocronJob, RememberTag, EndReload,
         tables, bounds, Works, Fails
<1>2. RunnersQuiet
  <2>1. CASE RemoveTag(a)
    <3>1. PICK j \in adm[a].todo :
             runner' = [g \in Runner |-> IF runner[g].job = j
                                         THEN [runner[g] EXCEPT !.current = FALSE]
                                         ELSE runner[g]]
      BY <2>1 DEF RemoveTag
    <3>2. ASSUME NEW g \in Runner PROVE SameRunner(runner'[g], runner[g])
      <4>1. runner[g] \in RunnerState BY OwnRun
      <4>2. runner'[g] = runner[g] \/ runner'[g] = [runner[g] EXCEPT !.current = FALSE]
        BY <3>1
      <4> QED BY <4>1, <4>2 DEF SameRunner, RunnerState
    <3> QED BY <3>2 DEF RunnersQuiet
  <2>2. RemoveTag(a) \/ UNCHANGED runner
    BY DEF Reload, StartReload, ResetMap, ListJobs, NewGocronJob, RememberTag, EndReload, sched
  <2> QED BY <2>1, <2>2, SameQuiet
<1>3. Later BY <1>1, LaterHolds DEF WorkTypeOK
<1> QED BY <1>1, <1>2, <1>3, SameQuiet, QuietKeepsWork DEF WorkQuiet

LEMMA LaunchQuiet ==
    ASSUME WorkTypeOK, NEW g \in Runner, NEW j \in Job, NEW current \in BOOLEAN,
           Launch(g, j, current)
    PROVE  RunnersQuiet
<1>1. PICK x : x = [IdleRunner EXCEPT !.pc = "load", !.job = j, !.current = current]
  OBVIOUS
<1>2. x \in RunnerState BY <1>1, IdleStates DEF RunnerState
<1>3. x.pc = "load" BY <1>1 DEF IdleRunner
<1>4. runner[g].pc = "idle" /\ runner' = [runner EXCEPT ![g] = x] BY <1>1 DEF Launch
<1> QED BY <1>2, <1>3, <1>4, RunnerQuiet DEF Executing, FreshLoad

LEMMA EditWork ==
    ASSUME WorkTypeOK, WorkInv, NEW a \in Admin, Edit(a)
    PROVE  WorkInv'
<1>1. UNCHANGED <<runs, checker, crashes>> /\ faults' \in {faults, faults + 1}
  BY DEF Edit, CreateJob, ReadJob, SaveJob, DeleteJob, RunJobNow, CreateDevice, UpdateDevice,
         DeleteDevice, Request, tables, Works, Fails
<1>2. RunnersQuiet
  <2>1. CASE UNCHANGED runner BY <2>1, SameQuiet
  <2>2. CASE \E g \in Runner, j \in Job : Launch(g, j, FALSE) BY <2>2, LaunchQuiet
  <2>3. CreateJob(a) => Unused(jobs) # {}
    BY DEF CreateJob
  <2>4. Unused(jobs) # {} => First(Unused(jobs)) \in Job
    BY NewRow, Ids DEF WorkTypeOK, TablesOK
  <2>5. CASE CreateJob(a)
    <3>1. UNCHANGED runner \/ \E g \in Runner : Launch(g, First(Unused(jobs)), FALSE)
      BY <2>5 DEF CreateJob
    <3> QED BY <2>1, <2>2, <2>3, <2>4, <2>5, <3>1
  <2>6. CASE RunJobNow(a) BY <2>2, <2>6 DEF RunJobNow
  <2>7. CASE UNCHANGED runner BY <2>7, SameQuiet
  <2>8. CreateJob(a) \/ RunJobNow(a) \/ UNCHANGED runner
    BY DEF Edit, ReadJob, SaveJob, DeleteJob, CreateDevice, UpdateDevice, DeleteDevice
  <2> QED BY <2>5, <2>6, <2>7, <2>8
<1>3. Later BY <1>1, LaterHolds DEF WorkTypeOK
<1> QED BY <1>1, <1>2, <1>3, SameQuiet, QuietKeepsWork DEF WorkQuiet

LEMMA SyncWork ==
    ASSUME WorkTypeOK, WorkInv, NEW v \in Viewer, Sync(v)
    PROVE  WorkInv'
<1>1. UNCHANGED <<runs, runner, checker, crashes>> /\ faults' \in {faults, faults + 1}
  BY DEF Sync, StartSync, LookForDevice, WriteDevice, Request, tables, bounds, Works, Fails
<1>2. Later BY <1>1, LaterHolds DEF WorkTypeOK
<1> QED BY <1>1, <1>2, SameQuiet, QuietKeepsWork DEF WorkQuiet

LEMMA TickWork ==
    ASSUME WorkTypeOK, WorkInv, NEW g \in Runner, Tick(g)
    PROVE  WorkInv'
<1>1. UNCHANGED <<runs, checker, faults, crashes>> BY DEF Tick, tables, bounds
<1>2. RunnersQuiet BY LaunchQuiet DEF Tick
<1>3. Later BY <1>1, LaterHolds DEF WorkTypeOK
<1> QED BY <1>1, <1>2, <1>3, SameQuiet, QuietKeepsWork DEF WorkQuiet

LEMMA LoadWork ==
    ASSUME WorkTypeOK, WorkInv, NEW g \in Runner, Load(g)
    PROVE  WorkInv'
<1>1. UNCHANGED <<runs, checker, crashes>> /\ faults' \in {faults, faults + 1}
  BY DEF Load, TellStatus, Works, Fails
<1>2. runner[g].pc = "load" /\ runner[g] \in RunnerState /\ FitsRunner(runner[g])
  BY OwnRun DEF Load
<1>3. RunnersQuiet
  <2>1. CASE runner' = [runner EXCEPT ![g] = IdleRunner]
    <3>1. IdleRunner \in RunnerState /\ IdleRunner.pc = "idle" BY IdleStates DEF IdleRunner
    <3> QED BY <1>2, <2>1, <3>1, RunnerQuiet DEF Executing, FreshLoad
  <2>2. CASE /\ Targets(jobs[runner[g].job]) # {} /\ LiveJob(runner[g].job)
             /\ runner' = [runner EXCEPT ![g].pc = "next",
                              ![g].kind = jobs[runner[g].job].input.kind,
                              ![g].todo = Targets(jobs[runner[g].job])]
    <3>1. PICK kind, todo : /\ kind = jobs[runner[g].job].input.kind
                            /\ todo = Targets(jobs[runner[g].job])
      OBVIOUS
    <3>2. PICK x : x = [runner[g] EXCEPT !.pc = "next", !.kind = kind, !.todo = todo] OBVIOUS
    <3>3. jobs[runner[g].job] \in JobRow
      BY <2>2 DEF LiveJob, WorkTypeOK, TablesOK
    <3>4. kind \in {"backup", "command"} BY <3>1, <3>3 DEF JobRow, JobInput
    <3>5. todo \in SUBSET (Device \X Host) BY <3>1, <3>3, TargetsTyped DEF WorkTypeOK
    <3>6. x \in RunnerState BY <1>2, <3>2, <3>4, <3>5 DEF RunnerState
    <3>7. FreshLoad(x) /\ ~Executing(x)
      BY <1>2, <2>2, <3>1, <3>2 DEF FreshLoad, FitsRunner, Executing, RunnerState
    <3>8. runner' = [runner EXCEPT ![g] = x] BY <2>2, <3>1, <3>2
    <3> QED BY <1>2, <3>6, <3>7, <3>8, RunnerQuiet DEF Executing
  <2> QED BY <2>1, <2>2 DEF Load
<1>4. Later BY <1>1, LaterHolds DEF WorkTypeOK
<1> QED BY <1>1, <1>3, <1>4, SameQuiet, QuietKeepsWork DEF WorkQuiet

LEMMA EndJobWork ==
    ASSUME WorkTypeOK, WorkInv, NEW g \in Runner, EndJob(g)
    PROVE  WorkInv'
<1>1. UNCHANGED <<runs, checker, crashes>> /\ faults' \in {faults, faults + 1}
  BY DEF EndJob, TellStatus, Works, Fails
<1>2. IdleRunner \in RunnerState /\ IdleRunner.pc = "idle" BY IdleStates DEF IdleRunner
<1>3. runner[g].pc = "next" /\ runner' = [runner EXCEPT ![g] = IdleRunner] BY DEF EndJob
<1>4. RunnersQuiet BY <1>2, <1>3, RunnerQuiet DEF Executing, FreshLoad
<1>5. Later BY <1>1, LaterHolds DEF WorkTypeOK
<1> QED BY <1>1, <1>4, <1>5, SameQuiet, QuietKeepsWork DEF WorkQuiet

LEMMA StartCheckWork ==
    ASSUME WorkTypeOK, WorkInv, NEW k \in Checker, StartCheck(k)
    PROVE  WorkInv'
<1>1. UNCHANGED <<runs, runner, crashes>> /\ faults' \in {faults, faults + 1}
  BY DEF StartCheck, Request, tables, Works
<1>2. checker[k].pc = "idle" /\ checker[k] \in CheckerState BY OwnRun DEF StartCheck, Request
<1>3. PICK todo : checker' = [checker EXCEPT ![k].pc = "look", ![k].todo = todo]
  BY DEF StartCheck
<1>4. checker'[k].pc = "look" /\ \A l \in Checker \ {k} : checker'[l] = checker[l]
  BY <1>2, <1>3, OwnRun DEF CheckerState
<1>5. CheckersQuiet BY <1>2, <1>4 DEF CheckersQuiet, SameChecker
<1>6. Later BY <1>1, LaterHolds DEF WorkTypeOK
<1> QED BY <1>1, <1>5, <1>6, SameQuiet, QuietKeepsWork DEF WorkQuiet

LEMMA LookForBackupWork ==
    ASSUME WorkTypeOK, WorkInv, NEW k \in Checker, LookForBackup(k)
    PROVE  WorkInv'
<1>1. UNCHANGED <<runs, runner, crashes>> /\ faults' \in {faults, faults + 1}
  BY DEF LookForBackup, Works, Fails
<1>2. checker[k].pc = "look" /\ checker[k] \in CheckerState BY OwnRun DEF LookForBackup
<1>3. /\ checker'[k].pc \in {"idle", "look", "create"}
      /\ \A l \in Checker \ {k} : checker'[l] = checker[l]
  <2>1. CASE checker' = [checker EXCEPT ![k] = IdleChecker]
    BY <2>1, OwnRun DEF IdleChecker
  <2>2. CASE \E dev \in checker[k].todo : checker' = [checker EXCEPT ![k].todo = @ \ {dev}]
    BY <1>2, <2>2, OwnRun DEF CheckerState
  <2>3. CASE \E dev \in checker[k].todo :
                checker' = [checker EXCEPT ![k].pc = "create", ![k].todo = @ \ {dev},
                               ![k].dev = dev, ![k].job = First(Unused(jobs))]
    BY <1>2, <2>3, OwnRun DEF CheckerState
  <2> QED BY <2>1, <2>2, <2>3 DEF LookForBackup
<1>4. CheckersQuiet BY <1>2, <1>3 DEF CheckersQuiet, SameChecker
<1>5. Later BY <1>1, LaterHolds DEF WorkTypeOK
<1> QED BY <1>1, <1>4, <1>5, SameQuiet, QuietKeepsWork DEF WorkQuiet

LEMMA TellBackupWork ==
    ASSUME WorkTypeOK, WorkInv, NEW k \in Checker, TellBackup(k)
    PROVE  WorkInv'
<1>1. UNCHANGED <<runs, runner, crashes>> /\ faults' \in {faults, faults + 1}
  BY DEF TellBackup, TellStatus, Works, Fails
<1>2. checker[k].pc = "tell" BY DEF TellBackup
<1>3. /\ checker'[k].pc \in {"idle", "look"}
      /\ \A l \in Checker \ {k} : checker'[l] = checker[l]
  BY OwnRun DEF TellBackup, IdleChecker
<1>4. CheckersQuiet BY <1>2, <1>3 DEF CheckersQuiet, SameChecker
<1>5. Later BY <1>1, LaterHolds DEF WorkTypeOK
<1> QED BY <1>1, <1>4, <1>5, SameQuiet, QuietKeepsWork DEF WorkQuiet

LEMMA CrashWork ==
    ASSUME WorkTypeOK, Crash
    PROVE  WorkInv'
<1>1. /\ \A g \in Runner : runner'[g] = IdleRunner
      /\ \A k \in Checker : checker'[k] = IdleChecker
  BY DEF Crash
<1>2. OneOwner'
  BY <1>1 DEF OneOwner, Executing, Checks, IdleRunner, IdleChecker
<1>3. WorkKnown'
  BY <1>1 DEF WorkKnown, KnowsRuns, KnowsBackup, Executing, Checks, IdleRunner, IdleChecker
<1>4. PendingIsRunning'
  <2>1. PICK m, n \in Nat : m = faults' /\ n = crashes' BY DEF Crash, WorkTypeOK, BoundsOK
  <2>2. n # 0 BY <2>1 DEF Crash, WorkTypeOK, BoundsOK
  <2>3. ~(faults' + crashes' = 0) BY <2>1, <2>2, SumIsZero
  <2> QED BY <2>3 DEF PendingIsRunning
<1> QED BY <1>2, <1>3, <1>4 DEF WorkInv

LEMMA InitWork ==
    ASSUME Init
    PROVE  WorkInv
<1>1. OneOwner BY DEF Init, OneOwner, Executing, Checks, IdleRunner, IdleChecker
<1>2. WorkKnown
  BY DEF Init, WorkKnown, KnowsRuns, KnowsBackup, Executing, Checks, IdleRunner, IdleChecker
<1>3. PendingIsRunning BY DEF Init, PendingIsRunning, Pending
<1> QED BY <1>1, <1>2, <1>3 DEF WorkInv

LEMMA StepWork ==
    ASSUME WorkTypeOK, WorkInv, [Next]_vars
    PROVE  WorkInv'
<1>1. CASE \E a \in Reloader : Reload(a) BY <1>1, ReloadWork
<1>2. CASE \E a \in Admin : Edit(a) BY <1>2, EditWork
<1>3. CASE \E v \in Viewer : Sync(v) BY <1>3, SyncWork
<1>4. CASE \E g \in Runner : Tick(g) \/ RunJob(g)
  BY <1>4, TickWork, LoadWork, StartDeviceWork, SendWork, EndJobWork DEF RunJob
<1>5. CASE \E k \in Checker : Check(k)
  BY <1>5, StartCheckWork, LookForBackupWork, CreateBackupRunWork, BackupNowWork,
     TellBackupWork DEF Check
<1>6. CASE Crash BY <1>6, CrashWork
<1>7. CASE AtRest \/ UNCHANGED vars
  <2>1. UNCHANGED <<runs, runner, checker, faults, crashes>>
    BY <1>7 DEF AtRest, vars, tables, bounds
  <2>2. Later BY <2>1 DEF Later
  <2> QED BY <2>1, <2>2, SameQuiet, QuietKeepsWork DEF WorkQuiet
<1> QED BY <1>1, <1>2, <1>3, <1>4, <1>5, <1>6, <1>7 DEF Next
-----------------------------------------------------------------------------
(* The status of a job: while no call fails, a run that has ended stays as  *)
(* it is, and a step keeps a job's status with the runs that told it or     *)
(* tells both anew.                                                         *)
EndedStay ==
    \A r \in Run : runs[r] # None /\ runs[r].status # "pending" => runs'[r] = runs[r]
StatusKept ==
    /\ lastRuns' = lastRuns
    /\ \A j \in Job : j \notin overwritten' /\ jobs'[j] # None /\ jobs'[j].status # "pending" =>
          j \notin overwritten /\ jobs[j] # None /\ jobs[j].status = jobs'[j].status

LEMMA RunsAdded ==
    ASSUME WorkTypeOK, Unused(runs) # {}, NEW row,
           runs' = [runs EXCEPT ![First(Unused(runs))] = row]
    PROVE  EndedStay
<1>1. runs[First(Unused(runs))] = None BY NewRow, Ids DEF WorkTypeOK, TablesOK
<1> QED BY <1>1, OwnRun DEF EndedStay

LEMMA RunFinished ==
    ASSUME WorkTypeOK, NEW r \in Run, runs[r].status = "pending", NEW status,
           FinishRun(r, status)
    PROVE  EndedStay
<1>1. \A i \in Run \ {r} : runs'[i] = runs[i] BY OwnRun DEF FinishRun
<1> QED BY <1>1 DEF EndedStay

LEMMA EndedStays ==
    ASSUME WorkTypeOK, WorkInv, faults = 0, [Next]_vars
    PROVE  EndedStay
<1>1. CASE UNCHANGED runs BY <1>1 DEF EndedStay
<1>2. ASSUME NEW g \in Runner, StartDevice(g) PROVE EndedStay
  <2>1. Unused(runs) # {} \/ UNCHANGED runs BY <1>2 DEF StartDevice
  <2>2. UNCHANGED runs \/ \E row : runs' = [runs EXCEPT ![First(Unused(runs))] = row]
    BY <1>2 DEF StartDevice
  <2> QED BY <1>1, <2>1, <2>2, RunsAdded
<1>3. ASSUME NEW k \in Checker, CreateBackupRun(k) PROVE EndedStay
  <2>1. Unused(runs) # {} \/ UNCHANGED runs BY <1>3 DEF CreateBackupRun
  <2>2. UNCHANGED runs \/ \E row : runs' = [runs EXCEPT ![First(Unused(runs))] = row]
    BY <1>3 DEF CreateBackupRun
  <2> QED BY <1>1, <2>1, <2>2, RunsAdded
<1>4. ASSUME NEW g \in Runner, Send(g) PROVE EndedStay
  <2>1. Executing(runner[g]) BY <1>4 DEF Send, Executing
  <2>2. runner[g].run \in Run /\ runs[runner[g].run].status = "pending"
    BY <2>1, NobodyElse, OwnRun
  <2>3. UNCHANGED runs \/ \E status \in {"ok", "error"} : FinishRun(runner[g].run, status)
    BY <1>4 DEF Send
  <2> QED BY <1>1, <2>2, <2>3, RunFinished
<1>5. ASSUME NEW k \in Checker, BackupNow(k) PROVE EndedStay
  <2>1. Checks(checker[k]) BY <1>5 DEF BackupNow, Checks
  <2>2. checker[k].run \in Run /\ runs[checker[k].run].status = "pending"
    BY <2>1, NobodyElseChecks, OwnRun DEF Checks
  <2>3. \E status \in {"ok", "error"} : FinishRun(checker[k].run, status)
    BY <1>5 DEF BackupNow
  <2> QED BY <2>2, <2>3, RunFinished
<1>6. CASE \E a \in Reloader : Reload(a)
  BY <1>1, <1>6 DEF Reload, StartReload, RemoveTag, ResetMap, ListJobs, NewGocronJob, RememberTag,
         EndReload, tables
<1>7. CASE \E a \in Admin : Edit(a)
  BY <1>1, <1>7 DEF Edit, CreateJob, ReadJob, SaveJob, DeleteJob, RunJobNow, CreateDevice,
         UpdateDevice, DeleteDevice, tables
<1>8. CASE \E v \in Viewer : Sync(v)
  BY <1>1, <1>8 DEF Sync, StartSync, LookForDevice, WriteDevice, tables
<1>9. CASE \E g \in Runner : Tick(g) \/ RunJob(g)
  <2>1. PICK g \in Runner : Tick(g) \/ RunJob(g) BY <1>9
  <2>2. CASE Tick(g) \/ Load(g) \/ EndJob(g)
    BY <1>1, <2>2 DEF Tick, Load, EndJob, tables
  <2> QED BY <1>2, <1>4, <2>1, <2>2 DEF RunJob
<1>10. CASE \E k \in Checker : Check(k)
  <2>1. PICK k \in Checker : Check(k) BY <1>10
  <2>2. CASE StartCheck(k) \/ LookForBackup(k) \/ TellBackup(k)
    BY <1>1, <2>2 DEF StartCheck, LookForBackup, TellBackup, tables
  <2> QED BY <1>3, <1>5, <2>1, <2>2 DEF Check
<1>11. CASE Crash \/ AtRest \/ UNCHANGED vars
  BY <1>1, <1>11 DEF Crash, AtRest, vars, tables
<1> QED BY <1>6, <1>7, <1>8, <1>9, <1>10, <1>11 DEF Next

LEMMA KeptTold ==
    ASSUME WorkTypeOK, ToldInv, faults = 0, EndedStay, StatusKept
    PROVE  ToldInv'
<1>1. \A j \in Job : \A r \in lastRuns[j] :
         r \in Run /\ runs[r] # None /\ runs[r].status # "pending"
  BY DEF WorkTypeOK, TablesOK, ToldStored, ToldInv, ToldEnded
<1>2. \A j \in Job : \A r \in lastRuns[j] : runs'[r] = runs[r] BY <1>1 DEF EndedStay
<1>3. ToldEnded' BY <1>1, <1>2 DEF ToldEnded, StatusKept
<1>4. StatusTellsLastRuns'
  <2> SUFFICES ASSUME NEW j \in Job \ overwritten', jobs'[j] # None,
                      jobs'[j].status # "pending"
               PROVE  (jobs'[j].status = "ok") =
                         (lastRuns'[j] # {} /\ \A r \in lastRuns'[j] : runs'[r].status = "ok")
    BY DEF StatusTellsLastRuns
  <2>1. j \notin overwritten /\ jobs[j] # None /\ jobs[j].status = jobs'[j].status
    BY DEF StatusKept
  <2>2. (jobs[j].status = "ok") =
           (lastRuns[j] # {} /\ \A r \in lastRuns[j] : runs[r].status = "ok")
    BY <2>1 DEF ToldInv, StatusTellsLastRuns
  <2>3. lastRuns'[j] = lastRuns[j] BY DEF StatusKept
  <2>4. (\A r \in lastRuns[j] : runs[r].status = "ok") <=>
           (\A r \in lastRuns[j] : runs'[r].status = "ok")
    BY <1>2
  <2> QED BY <2>1, <2>2, <2>3, <2>4
<1> QED BY <1>3, <1>4 DEF ToldInv

LEMMA Told ==
    ASSUME WorkTypeOK, ToldInv, faults = 0, UNCHANGED runs, NEW j \in Job,
           NEW status \in {"ok", "error"}, NEW told \in SUBSET Run,
           \A r \in told : runs[r].status # "pending",
           status = "ok" <=> told # {} /\ \A r \in told : runs[r].status = "ok",
           WriteStatus(j, status, told) \/ UNCHANGED <<jobs, history>>
    PROVE  ToldInv'
<1>1. EndedStay BY DEF EndedStay
<1>2. CASE UNCHANGED <<jobs, history>>
  <2>1. StatusKept BY <1>2 DEF StatusKept, history
  <2> QED BY <1>1, <2>1, KeptTold
<1>3. CASE /\ LiveJob(j) /\ jobs' = [jobs EXCEPT ![j].status = status]
           /\ lastRuns' = [lastRuns EXCEPT ![j] = told]
           /\ overwritten' = overwritten \ {j}
  <2>1. /\ lastRuns'[j] = told /\ jobs'[j].status = status
        /\ \A i \in Job \ {j} : lastRuns'[i] = lastRuns[i] /\ jobs'[i] = jobs[i]
    BY <1>3 DEF LiveJob, WorkTypeOK, TablesOK, JobRow
  <2>2. ToldEnded'
    <3>1. \A i \in Job \ {j} : \A r \in lastRuns[i] : runs[r].status # "pending"
      BY DEF ToldInv, ToldEnded
    <3>2. \A i \in Job : \A r \in lastRuns'[i] : runs'[r].status # "pending"
      BY <2>1, <3>1
    <3> QED BY <3>2 DEF ToldEnded
  <2>3. StatusTellsLastRuns'
    <3> SUFFICES ASSUME NEW i \in Job \ overwritten', jobs'[i] # None,
                        jobs'[i].status # "pending"
                 PROVE  (jobs'[i].status = "ok") =
                           (lastRuns'[i] # {} /\ \A r \in lastRuns'[i] : runs'[r].status = "ok")
      BY DEF StatusTellsLastRuns
    <3>1. CASE i = j BY <2>1, <3>1
    <3>2. CASE i # j
      <4>1. lastRuns'[i] = lastRuns[i] /\ jobs'[i] = jobs[i] BY <2>1, <3>2
      <4>2. i \notin overwritten BY <1>3, <3>2
      <4>3. (jobs[i].status = "ok") =
               (lastRuns[i] # {} /\ \A r \in lastRuns[i] : runs[r].status = "ok")
        BY <4>1, <4>2 DEF ToldInv, StatusTellsLastRuns
      <4> QED BY <4>1, <4>3
    <3> QED BY <3>1, <3>2
  <2> QED BY <2>2, <2>3 DEF ToldInv
<1> QED BY <1>2, <1>3 DEF WriteStatus

LEMMA FaultsGrow ==
    ASSUME WorkTypeOK, [Next]_vars
    PROVE  /\ faults \in Nat /\ faults' \in {faults, faults + 1}
           /\ faults' = 0 => faults = 0
<1>1. faults \in Nat BY DEF WorkTypeOK, BoundsOK
<1> SUFFICES faults' \in {faults, faults + 1} BY <1>1
<1>2. CASE \E a \in Reloader : Reload(a)
  BY <1>1, <1>2 DEF Reload, StartReload, RemoveTag, ResetMap, ListJobs, NewGocronJob,
         RememberTag, EndReload, bounds, Works, Fails
<1>3. CASE \E a \in Admin : Edit(a)
  BY <1>1, <1>3 DEF Edit, CreateJob, ReadJob, SaveJob, DeleteJob, RunJobNow, CreateDevice,
         UpdateDevice, DeleteDevice, Works, Fails
<1>4. CASE \E v \in Viewer : Sync(v)
  BY <1>1, <1>4 DEF Sync, StartSync, LookForDevice, WriteDevice, bounds, Works, Fails
<1>5. CASE \E g \in Runner : Tick(g) \/ RunJob(g)
  <2>1. PICK g \in Runner : Tick(g) \/ RunJob(g) BY <1>5
  <2>2. CASE Tick(g) BY <2>2 DEF Tick, bounds
  <2>3. CASE Load(g) BY <1>1, <2>3 DEF Load, TellStatus, Works, Fails
  <2>4. CASE StartDevice(g) BY <1>1, <2>4 DEF StartDevice, Works, Fails
  <2>5. CASE Send(g) BY <1>1, <2>5 DEF Send, FinishRun, Works, Fails
  <2>6. CASE EndJob(g) BY <1>1, <2>6 DEF EndJob, TellStatus, Works, Fails
  <2> QED BY <2>1, <2>2, <2>3, <2>4, <2>5, <2>6 DEF RunJob
<1>6. CASE \E k \in Checker : Check(k)
  BY <1>1, <1>6, ZenonT(120)
     DEF Check, StartCheck, LookForBackup, CreateBackupRun, BackupNow, TellBackup,
         TellStatus, FinishRun, Works, Fails
<1>7. CASE Crash \/ AtRest \/ UNCHANGED vars
  BY <1>1, <1>7 DEF Crash, AtRest, vars, bounds
<1> QED BY <1>2, <1>3, <1>4, <1>5, <1>6, <1>7 DEF Next

LEMMA NoFault ==
    ASSUME faults = 0, faults' = 0
    PROVE  ~Fails
  BY DEF Fails

LEMMA NewJobKept ==
    ASSUME WorkTypeOK, UNCHANGED history, Unused(jobs) # {}, NEW input,
           jobs' = [jobs EXCEPT ![First(Unused(jobs))] = NewJobRow(input)]
    PROVE  StatusKept
<1>1. First(Unused(jobs)) \in Job /\ jobs \in [Job -> JobRow \cup {None}]
  BY NewRow, Ids DEF WorkTypeOK, TablesOK
<1>2. NewJobRow(input).status = "pending" BY DEF NewJobRow
<1> QED BY <1>1, <1>2 DEF StatusKept, history

LEMMA EditTold ==
    ASSUME WorkTypeOK, faults = 0, faults' = 0, NEW a \in Admin, Edit(a)
    PROVE  StatusKept
<1>0. ~Fails /\ jobs \in [Job -> JobRow \cup {None}] BY NoFault DEF WorkTypeOK, TablesOK
<1>1. CASE UNCHANGED <<jobs, history>> BY <1>1 DEF StatusKept, history
<1>2. CASE CreateJob(a)
  <2>1. UNCHANGED history /\ Unused(jobs) # {} BY <1>2 DEF CreateJob
  <2>2. \E input : jobs' = [jobs EXCEPT ![First(Unused(jobs))] = NewJobRow(input)]
    BY <1>0, <1>2 DEF CreateJob
  <2> QED BY <2>1, <2>2, NewJobKept
<1>3. CASE SaveJob(a)
  <2>1. adm[a].pc = "save" BY <1>3 DEF SaveJob
  <2>2. PICK j, row : j = adm[a].job /\ row = adm[a].row OBVIOUS
  <2>3. j \in Job /\ row \in JobRow /\ jobs[j] # None
    BY <2>1, <2>2 DEF WorkTypeOK, AdminsOK, FitsAdmin, Reloader
  <2> DEFINE Saves(new) == jobs' = [jobs EXCEPT ![j] = new] /\ new.status = row.status
  <2>4. PICK new : Saves(new)
    <3> HIDE DEF Saves
    <3>1. \/ \E enabled \in BOOLEAN : jobs' = [jobs EXCEPT ![j] = [row EXCEPT !.enabled = enabled]]
          \/ \E schedule \in {"once", "periodic"} :
                jobs' = [jobs EXCEPT ![j] = [row EXCEPT !.input.schedule = schedule]]
      BY <1>0, <1>3, <2>2 DEF SaveJob
    <3>2. \A enabled : [row EXCEPT !.enabled = enabled].status = row.status
      BY <2>3 DEF JobRow
    <3>3. \A schedule : [row EXCEPT !.input.schedule = schedule].status = row.status
      BY <2>3 DEF JobRow
    <3>4. CASE \E enabled \in BOOLEAN : jobs' = [jobs EXCEPT ![j] = [row EXCEPT !.enabled = enabled]]
      <4>1. PICK enabled \in BOOLEAN : jobs' = [jobs EXCEPT ![j] = [row EXCEPT !.enabled = enabled]]
        BY <3>4
      <4>2. PICK new : new = [row EXCEPT !.enabled = enabled] OBVIOUS
      <4>3. Saves(new) BY <3>2, <4>1, <4>2 DEF Saves
      <4> QED BY <4>3
    <3>5. CASE \E schedule \in {"once", "periodic"} :
                  jobs' = [jobs EXCEPT ![j] = [row EXCEPT !.input.schedule = schedule]]
      <4>1. PICK schedule \in {"once", "periodic"} :
               jobs' = [jobs EXCEPT ![j] = [row EXCEPT !.input.schedule = schedule]]
        BY <3>5
      <4>2. PICK new : new = [row EXCEPT !.input.schedule = schedule] OBVIOUS
      <4>3. Saves(new) BY <3>3, <4>1, <4>2 DEF Saves
      <4> QED BY <4>3
    <3> QED BY <3>1, <3>4, <3>5
  <2>5. /\ lastRuns' = lastRuns
        /\ overwritten' = IF jobs[j].status # row.status THEN overwritten \cup {j} ELSE overwritten
    BY <1>0, <1>3, <2>2 DEF SaveJob
  <2>6. jobs'[j] = new /\ \A i \in Job \ {j} : jobs'[i] = jobs[i] BY <1>0, <2>3, <2>4
  <2> QED BY <2>3, <2>4, <2>5, <2>6 DEF StatusKept
<1>4. CASE DeleteJob(a)
  <2>1. PICK j \in Job : jobs' = IF LiveJob(j) THEN [jobs EXCEPT ![j].live = FALSE] ELSE jobs
    BY <1>0, <1>4 DEF DeleteJob
  <2>2. UNCHANGED history BY <1>4 DEF DeleteJob
  <2>3. \A i \in Job : jobs'[i] # None => jobs[i] # None /\ jobs'[i].status = jobs[i].status
    BY <1>0, <2>1 DEF LiveJob, JobRow
  <2> QED BY <2>2, <2>3 DEF StatusKept, history
<1>5. CreateJob(a) \/ SaveJob(a) \/ DeleteJob(a) \/ UNCHANGED <<jobs, history>>
  BY DEF Edit, ReadJob, RunJobNow, CreateDevice, UpdateDevice, DeleteDevice, tables
<1> QED BY <1>1, <1>2, <1>3, <1>4, <1>5

LEMMA LoadTold ==
    ASSUME WorkTypeOK, ToldInv, faults = 0, NEW g \in Runner, Load(g)
    PROVE  ToldInv'
<1>1. runner[g].job \in Job BY OwnRun DEF Load, FitsRunner
<1>2. WriteStatus(runner[g].job, "error", {}) \/ UNCHANGED <<jobs, history>>
  BY DEF Load, TellStatus
<1>3. UNCHANGED runs BY DEF Load
<1>4. "error" \in {"ok", "error"} /\ {} \in SUBSET Run OBVIOUS
<1> QED BY <1>1, <1>2, <1>3, <1>4, Told

LEMMA EndJobTold ==
    ASSUME WorkTypeOK, WorkInv, ToldInv, faults = 0, NEW g \in Runner, EndJob(g)
    PROVE  ToldInv'
<1>1. PICK x : x = runner[g] OBVIOUS
<1>2. PICK status : status = IF x.failed THEN "error" ELSE "ok" OBVIOUS
<1>3. x.pc = "next" /\ x.todo = {} BY <1>1 DEF EndJob
<1>4. x \in RunnerState /\ x.job \in Job /\ x.mine \in SUBSET Run
  BY <1>1, <1>3, OwnRun DEF FitsRunner, RunnerState
<1>5. KnowsRuns(x) BY <1>1 DEF WorkInv, WorkKnown
<1>6. Ended(x) = x.mine BY <1>3 DEF Ended, Executing
<1>7. /\ \A r \in x.mine : runs[r].status # "pending"
      /\ x.failed <=> \E r \in x.mine : runs[r].status # "ok"
      /\ x.mine # {}
  BY <1>3, <1>5, <1>6 DEF KnowsRuns
<1>8. status \in {"ok", "error"} /\ (status = "ok" <=> ~x.failed) BY <1>2
<1>9. status = "ok" <=> x.mine # {} /\ \A r \in x.mine : runs[r].status = "ok"
  BY <1>7, <1>8
<1>10. WriteStatus(x.job, status, x.mine) \/ UNCHANGED <<jobs, history>>
  BY <1>1, <1>2 DEF EndJob, TellStatus
<1>11. UNCHANGED runs BY DEF EndJob
<1> QED BY <1>4, <1>7, <1>8, <1>9, <1>10, <1>11, Told

LEMMA TellBackupTold ==
    ASSUME WorkTypeOK, WorkInv, ToldInv, faults = 0, NEW k \in Checker, TellBackup(k)
    PROVE  ToldInv'
<1>1. PICK x : x = checker[k] OBVIOUS
<1>2. x.pc = "tell" /\ x \in CheckerState BY <1>1, OwnRun DEF TellBackup
<1>3. x.job \in Job /\ x.run \in Run /\ x.outcome \in {"ok", "error"}
  BY <1>1, <1>2 DEF WorkTypeOK, CheckersOK, FitsChecker
<1>4. runs[x.run].status = x.outcome BY <1>1, <1>2 DEF WorkInv, WorkKnown, KnowsBackup
<1>5. PICK told \in SUBSET Run : told = {x.run} BY <1>3
<1>6. WriteStatus(x.job, x.outcome, told) \/ UNCHANGED <<jobs, history>>
  BY <1>1, <1>5 DEF TellBackup, TellStatus
<1>7. UNCHANGED runs BY DEF TellBackup
<1> QED BY <1>3, <1>4, <1>5, <1>6, <1>7, Told, ZenonT(60)

LEMMA StepTold ==
    ASSUME WorkTypeOK, WorkInv, ToldInv, [Next]_vars
    PROVE  ToldInv'
<1>1. CASE faults' = 0 /\ faults = 0
  <2>1. EndedStay BY <1>1, EndedStays
  <2>2. CASE UNCHANGED <<jobs, history>>
    <3>1. StatusKept BY <2>2 DEF StatusKept, history
    <3> QED BY <1>1, <2>1, <3>1, KeptTold
  <2>3. CASE \E a \in Reloader : Reload(a)
    BY <2>2, <2>3 DEF Reload, StartReload, RemoveTag, ResetMap, ListJobs, NewGocronJob,
           RememberTag, EndReload, tables
  <2>4. CASE \E a \in Admin : Edit(a) BY <1>1, <2>1, <2>4, EditTold, KeptTold
  <2>5. CASE \E v \in Viewer : Sync(v)
    BY <2>2, <2>5 DEF Sync, StartSync, LookForDevice, WriteDevice, tables
  <2>6. CASE \E g \in Runner : Tick(g) \/ RunJob(g)
    <3>1. PICK g \in Runner : Tick(g) \/ RunJob(g) BY <2>6
    <3>2. CASE Tick(g) \/ StartDevice(g) \/ Send(g)
      BY <2>2, <3>2 DEF Tick, StartDevice, Send, tables
    <3> QED BY <1>1, <3>1, <3>2, LoadTold, EndJobTold DEF RunJob
  <2>7. CASE \E k \in Checker : Check(k)
    <3>1. PICK k \in Checker : Check(k) BY <2>7
    <3>2. CASE StartCheck(k) \/ CreateBackupRun(k) \/ BackupNow(k)
      BY <2>2, <3>2 DEF StartCheck, CreateBackupRun, BackupNow, tables
    <3>3. CASE LookForBackup(k)
      <4>1. UNCHANGED history BY <3>3 DEF LookForBackup
      <4>2. \/ UNCHANGED jobs
            \/ /\ Unused(jobs) # {}
               /\ \E input : jobs' = [jobs EXCEPT ![First(Unused(jobs))] = NewJobRow(input)]
        BY <3>3 DEF LookForBackup
      <4>3. StatusKept \/ UNCHANGED <<jobs, history>> BY <4>1, <4>2, NewJobKept
      <4> QED BY <1>1, <2>1, <2>2, <4>3, KeptTold
    <3> QED BY <1>1, <3>1, <3>2, <3>3, TellBackupTold DEF Check
  <2>8. CASE Crash \/ AtRest \/ UNCHANGED vars
    BY <2>2, <2>8 DEF Crash, AtRest, vars, tables
  <2> QED BY <2>3, <2>4, <2>5, <2>6, <2>7, <2>8 DEF Next
<1>2. CASE faults' # 0 BY <1>2 DEF ToldInv, ToldEnded, StatusTellsLastRuns
<1>3. faults' = 0 => faults = 0 BY FaultsGrow
<1> QED BY <1>1, <1>2, <1>3

LEMMA InitTold ==
    ASSUME Init
    PROVE  ToldInv
<1>1. ToldEnded BY DEF Init, ToldEnded
<1>2. StatusTellsLastRuns BY DEF Init, StatusTellsLastRuns
<1> QED BY <1>1, <1>2 DEF ToldInv
-----------------------------------------------------------------------------
(* gocron's entries: what a reload does to them.                            *)
LEMMA Lone ==
    ASSUME SchedInv, ~overlapped, NEW a \in Reloader, InReload(adm[a])
    PROVE  LoneKnows(adm[a]) /\ \A b \in Reloader \ {a} : ~InReload(adm[b])
  BY DEF SchedInv, LoneInv

LEMMA NoneReloads ==
    ASSUME SchedInv, ~overlapped, \A a \in Reloader : ~InReload(adm[a])
    PROVE  jobMap = Held /\ (Waiting \/ AsStored)
  BY DEF SchedInv, LoneInv

(* The one goroutine that reloads moves on, or begins or ends.              *)
LEMMA LoneMoves ==
    ASSUME WorkTypeOK, NEW a \in Reloader, NEW x \in AdminState, adm' = [adm EXCEPT ![a] = x],
           \A b \in Reloader \ {a} : ~InReload(adm[b]),
           InReload(x) => LoneKnows(x)',
           ~InReload(x) => jobMap' = Held' /\ (Waiting' \/ AsStored')
    PROVE  LoneInv'
<1>1. adm'[a] = x /\ \A b \in Reloader \ {a} : adm'[b] = adm[b]
  BY DEF WorkTypeOK, AdminsOK
<1>2. \A b \in Reloader \ {a} : ~InReload(adm'[b]) BY <1>1
<1>3. \A b, c \in Reloader : InReload(adm'[b]) /\ InReload(adm'[c]) => b = c BY <1>2
<1>4. ASSUME NEW b \in Reloader, InReload(adm'[b]) PROVE LoneKnows(adm[b])'
  <2>1. b = a BY <1>2, <1>4
  <2>2. InReload(x) BY <1>1, <1>4, <2>1
  <2> QED BY <1>1, <2>1, <2>2 DEF LoneKnows, AsListed
<1>5. ASSUME \A b \in Reloader : ~InReload(adm'[b])
      PROVE  jobMap' = Held' /\ (Waiting' \/ AsStored')
  <2>1. ~InReload(x) BY <1>1, <1>5
  <2> QED BY <2>1
<1>6. \A b \in Reloader : InReload(adm[b])' <=> InReload(adm'[b]) BY DEF InReload
<1> QED BY <1>3, <1>4, <1>5, <1>6 DEF LoneInv

(* Nobody comes to wait for a reload, or ceases to.                         *)
LEMMA WaitingSame ==
    ASSUME WorkTypeOK, NEW a \in Reloader, NEW x \in AdminState, adm' = [adm EXCEPT ![a] = x],
           adm[a].pc # "reload", x.pc # "reload"
    PROVE  Waiting' <=> Waiting
<1>1. adm'[a] = x /\ \A b \in Reloader \ {a} : adm'[b] = adm[b]
  BY DEF WorkTypeOK, AdminsOK
<1> QED BY <1>1 DEF Waiting

(* A goroutine's step leaves no enabled job without an entry to come if it  *)
(* will list the jobs, or gave an entry to each it was to register.         *)
LEMMA MissingMoves ==
    ASSUME SchedInv, faults' = 0 => faults = 0, NEW a \in Reloader,
           \A b \in Reloader \ {a} : adm'[b].pc = adm[b].pc /\ adm[b].todo \subseteq adm'[b].todo,
           \/ WillList(adm[a])'
           \/ /\ faults' = 0 => ~WillList(adm[a])
              /\ \A j \in Job :
                    /\ Timed(jobs[j])' => Timed(jobs[j])
                    /\ regs[j] > 0 => regs'[j] > 0
                    /\ WillRegister(adm[a], j) => regs'[j] > 0 \/ WillRegister(adm[a], j)'
    PROVE  NoneMissing'
<1>1. CASE WillList(adm[a])' BY <1>1 DEF NoneMissing
<1>2. CASE /\ faults' = 0 => ~WillList(adm[a])
           /\ \A j \in Job :
                 /\ Timed(jobs[j])' => Timed(jobs[j])
                 /\ regs[j] > 0 => regs'[j] > 0
                 /\ WillRegister(adm[a], j) => regs'[j] > 0 \/ WillRegister(adm[a], j)'
  <2> SUFFICES ASSUME faults' = 0, NEW j \in Job, Timed(jobs[j])'
               PROVE  \/ regs'[j] > 0
                      \/ \E b \in Reloader : WillList(adm[b])' \/ WillRegister(adm[b], j)'
    BY DEF NoneMissing
  <2>1. regs[j] > 0 \/ \E b \in Reloader : WillList(adm[b]) \/ WillRegister(adm[b], j)
    BY <1>2 DEF SchedInv, NoneMissing
  <2>2. CASE regs[j] > 0 BY <1>2, <2>2
  <2>3. ASSUME NEW b \in Reloader, WillList(adm[b]) \/ WillRegister(adm[b], j), b # a
        PROVE  WillList(adm[b])' \/ WillRegister(adm[b], j)'
    <3>1. adm'[b].pc = adm[b].pc /\ adm[b].todo \subseteq adm'[b].todo BY <2>3
    <3> QED BY <2>3, <3>1 DEF WillList, WillRegister
  <2>4. CASE WillRegister(adm[a], j) BY <1>2, <2>4
  <2> QED BY <1>2, <2>1, <2>2, <2>3, <2>4
<1> QED BY <1>1, <1>2

(* A step that touches neither gocron nor what it should hold.              *)
TimedKept == \A j \in Job : Timed(jobs'[j]) <=> Timed(jobs[j])
FaultsKept == faults > 0 => faults' > 0
LEMMA SchedQuiet ==
    ASSUME WorkTypeOK, SchedInv, UNCHANGED <<sched, adm>>, TimedKept, FaultsKept
    PROVE  SchedInv'
<1>1. Held' = Held /\ Waiting' = Waiting /\ UNCHANGED <<regs, jobMap, overlapped>>
  BY DEF Held, Waiting, sched
<1>2. AsStored => AsStored' BY <1>1 DEF AsStored, TimedKept, FaultsKept, Timed, Registrable
<1>3. \A j \in Job : Timed(jobs[j])' <=> Timed(jobs[j]) BY DEF TimedKept, Timed, Registrable
<1>4. ASSUME NEW a \in Reloader, LoneKnows(adm[a]) PROVE LoneKnows(adm[a])'
  <2>1. PICK x : x = adm[a] /\ x = adm'[a] OBVIOUS
  <2>2. x.todo \subseteq Job BY <2>1 DEF WorkTypeOK, AdminsOK, AdminState
  <2>3. LoneKnows(x) BY <1>4, <2>1
  <2>4. AsListed(x) => AsListed(x)' BY <1>1, <1>3, <2>2 DEF AsListed
  <2>5. LoneKnows(x)' BY <1>1, <2>3, <2>4 DEF LoneKnows
  <2> QED BY <2>1, <2>5 DEF LoneKnows, AsListed
<1>5. LoneInv' BY <1>1, <1>2, <1>4 DEF SchedInv, LoneInv, InReload
<1>6. faults' = 0 => faults = 0
  <2>1. faults \in Nat BY DEF WorkTypeOK, BoundsOK
  <2> QED BY <2>1 DEF FaultsKept
<1>7. NoneMissing' BY <1>1, <1>3, <1>6 DEF SchedInv, NoneMissing, WillList, WillRegister
<1> QED BY <1>5, <1>7 DEF SchedInv

LEMMA TellTimed ==
    ASSUME WorkTypeOK, NEW j, NEW status \in {"ok", "error"}, NEW told,
           WriteStatus(j, status, told) \/ UNCHANGED jobs
    PROVE  TimedKept
<1>1. CASE UNCHANGED jobs BY <1>1 DEF TimedKept
<1>2. CASE LiveJob(j) /\ jobs' = [jobs EXCEPT ![j].status = status]
  <2>1. j \in Job /\ jobs \in [Job -> JobRow \cup {None}] /\ jobs[j] \in JobRow
    BY <1>2 DEF LiveJob, WorkTypeOK, TablesOK
  <2>2. PICK row : row = [jobs[j] EXCEPT !.status = status] OBVIOUS
  <2>3. /\ jobs'[j] = row /\ row.live = jobs[j].live /\ row.enabled = jobs[j].enabled
        /\ row.input = jobs[j].input
        /\ \A i \in Job \ {j} : jobs'[i] = jobs[i]
    BY <1>2, <2>1, <2>2 DEF JobRow
  <2>4. row # None
    <3>1. row \in JobRow BY <2>1, <2>2 DEF JobRow
    <3> QED BY <3>1, WorkflowAssumption
  <2> QED BY <1>2, <2>1, <2>3, <2>4 DEF TimedKept, Timed, Registrable, LiveJob
<1> QED BY <1>1, <1>2 DEF WriteStatus, history

LEMMA OnceTimed ==
    ASSUME WorkTypeOK, Unused(jobs) # {}, NEW input, input.schedule = "once",
           jobs' = [jobs EXCEPT ![First(Unused(jobs))] = NewJobRow(input)]
    PROVE  TimedKept
<1>1. PICK j \in Job : j = First(Unused(jobs)) /\ jobs[j] = None
  BY NewRow, Ids DEF WorkTypeOK, TablesOK
<1>2. /\ jobs'[j] = NewJobRow(input) /\ \A i \in Job \ {j} : jobs'[i] = jobs[i]
  BY <1>1 DEF WorkTypeOK, TablesOK
<1>3. ~Registrable(NewJobRow(input)) BY DEF Registrable, NewJobRow
<1> QED BY <1>1, <1>2, <1>3 DEF TimedKept, Timed

(* Where reloads overlapped they still do; where a step ends without, they  *)
(* did not.                                                                 *)
LEMMA ReloadMissing ==
    ASSUME WorkTypeOK, SchedInv, NEW a \in Reloader, Reload(a)
    PROVE  NoneMissing'
<1>1. /\ adm \in [Reloader -> AdminState] /\ regs \in [Job -> Nat] /\ jobMap \subseteq Job
      /\ faults \in Nat
  BY DEF WorkTypeOK, AdminsOK, SchedOK, BoundsOK
<1>2. adm[a] \in AdminState BY <1>1
<1>3. jobs' = jobs
  BY DEF Reload, StartReload, RemoveTag, ResetMap, ListJobs, NewGocronJob, RememberTag, EndReload,
         tables
<1>4. \A j \in Job : Timed(jobs[j])' <=> Timed(jobs[j]) BY <1>3 DEF Timed, Registrable
<1>5. faults' = 0 => faults = 0
  <2>1. CASE ListJobs(a) BY <1>1, <2>1 DEF ListJobs, Works, Fails
  <2>2. CASE ~ListJobs(a)
    <3>1. UNCHANGED bounds
      BY <2>2 DEF Reload, StartReload, RemoveTag, ResetMap, NewGocronJob, RememberTag, EndReload
    <3> QED BY <3>1 DEF bounds
  <2> QED BY <2>1, <2>2
<1>6. CASE StartReload(a) \/ RemoveTag(a) \/ ResetMap(a)
  <2>1. /\ \A b \in Reloader \ {a} : adm'[b] = adm[b]
        /\ adm'[a].pc \in {"remove", "list"}
    BY <1>1, <1>2, <1>6 DEF StartReload, RemoveTag, ResetMap, GoTo, AdminState
  <2> QED BY <1>5, <2>1, MissingMoves DEF WillList
<1>7. CASE ListJobs(a)
  <2>1. \A b \in Reloader \ {a} : adm'[b] = adm[b] BY <1>1, <1>7 DEF ListJobs
  <2>2. CASE Fails
    <3>1. faults' # 0 BY <1>1, <2>2 DEF Fails
    <3> QED BY <3>1 DEF NoneMissing
  <2>3. CASE adm' = [adm EXCEPT ![a].pc = "register",
                          ![a].todo = {j \in Job : jobs[j] # None /\ Registrable(jobs[j])}]
    <3>1. /\ adm'[a].pc = "register"
          /\ \A j \in Job : Timed(jobs[j]) => j \in adm'[a].todo
      BY <1>1, <1>2, <2>3 DEF AdminState, Timed
    <3> QED BY <1>4, <3>1 DEF NoneMissing, WillRegister
  <2> QED BY <1>7, <2>2, <2>3 DEF ListJobs
<1>8. CASE NewGocronJob(a)
  <2>1. PICK j \in adm[a].todo :
           /\ regs' = [regs EXCEPT ![j] = @ + 1]
           /\ adm' = [adm EXCEPT ![a].pc = "remember", ![a].job = j, ![a].todo = @ \ {j}]
    BY <1>8 DEF NewGocronJob
  <2>2. j \in Job BY <1>2 DEF AdminState
  <2>3. /\ \A b \in Reloader \ {a} : adm'[b] = adm[b]
        /\ adm'[a].pc = "remember" /\ adm'[a].todo = adm[a].todo \ {j}
    BY <1>1, <1>2, <2>1 DEF AdminState
  <2>4. regs'[j] = regs[j] + 1 /\ \A i \in Job \ {j} : regs'[i] = regs[i] BY <1>1, <2>1, <2>2
  <2>5. regs'[j] > 0 BY <1>1, <2>2, <2>4
  <2>6. adm[a].pc = "register" BY <1>8 DEF NewGocronJob
  <2>7. \A i \in Job : /\ regs[i] > 0 => regs'[i] > 0
                       /\ WillRegister(adm[a], i) => regs'[i] > 0 \/ WillRegister(adm[a], i)'
    BY <2>3, <2>4, <2>5 DEF WillRegister
  <2>8. ~WillList(adm[a]) BY <2>6 DEF WillList
  <2> QED BY <1>4, <1>5, <2>3, <2>7, <2>8, MissingMoves
<1>9. CASE RememberTag(a)
  <2>1. PICK meet \in SUBSET {b \in Reloader : adm[b].pc = "remove"} :
           adm' = [b \in Reloader |->
                      IF b = a THEN [adm[a] EXCEPT !.pc = "register", !.job = 0]
                      ELSE IF b \in meet THEN [adm[b] EXCEPT !.todo = @ \cup {adm[a].job}]
                      ELSE adm[b]]
    BY <1>9 DEF RememberTag
  <2>2. adm'[a] = [adm[a] EXCEPT !.pc = "register", !.job = 0] BY <2>1
  <2>3. adm'[a].pc = "register" /\ adm'[a].todo = adm[a].todo BY <1>2, <2>2 DEF AdminState
  <2>4. ASSUME NEW b \in Reloader \ {a}
        PROVE  adm'[b].pc = adm[b].pc /\ adm[b].todo \subseteq adm'[b].todo
    <3>1. adm[b] \in AdminState BY <1>1
    <3>2. adm'[b] = adm[b] \/ adm'[b] = [adm[b] EXCEPT !.todo = @ \cup {adm[a].job}] BY <2>1
    <3> QED BY <3>1, <3>2 DEF AdminState
  <2>5. adm[a].pc = "remember" /\ regs' = regs BY <1>9 DEF RememberTag
  <2>6. ~WillList(adm[a]) BY <2>5 DEF WillList
  <2>7. \A i \in Job : WillRegister(adm[a], i) => WillRegister(adm[a], i)'
    BY <2>3 DEF WillRegister
  <2> QED BY <1>4, <1>5, <2>4, <2>5, <2>6, <2>7, MissingMoves
<1>10. CASE EndReload(a)
  <2>1. /\ \A b \in Reloader \ {a} : adm'[b] = adm[b]
        /\ adm[a].pc = "register" /\ adm[a].todo = {} /\ regs' = regs
    BY <1>1, <1>10 DEF EndReload, sched
  <2>2. ~WillList(adm[a]) /\ \A i \in Job : ~WillRegister(adm[a], i)
    BY <2>1 DEF WillList, WillRegister
  <2> QED BY <1>4, <1>5, <2>1, <2>2, MissingMoves
<1> QED BY <1>6, <1>7, <1>8, <1>9, <1>10 DEF Reload

LEMMA ReloadSched ==
    ASSUME WorkTypeOK, SchedInv, NEW a \in Reloader, Reload(a)
    PROVE  SchedInv'
<1>0. SUFFICES ASSUME ~overlapped' PROVE LoneInv' BY ReloadMissing DEF SchedInv, LoneInv
<1>1. ~overlapped
  BY <1>0 DEF Reload, StartReload, RemoveTag, ResetMap, ListJobs, NewGocronJob, RememberTag,
              EndReload, sched
<1>2. \A b \in Reloader \ {a} : ~InReload(adm[b])
  <2>1. CASE StartReload(a)
    BY <1>0, <2>1 DEF StartReload, Reloading, InReload
  <2>2. CASE ~StartReload(a)
    <3>1. InReload(adm[a])
      BY <2>2 DEF Reload, RemoveTag, ResetMap, ListJobs, NewGocronJob, RememberTag, EndReload,
                  InReload
    <3> QED BY <1>1, <3>1, Lone
  <2> QED BY <2>1, <2>2
<1>3. /\ adm[a] \in AdminState /\ regs \in [Job -> Nat] /\ jobMap \subseteq Job /\ faults \in Nat
      /\ FitsAdmin(adm[a]) /\ adm \in [Reloader -> AdminState]
  BY DEF WorkTypeOK, AdminsOK, SchedOK, BoundsOK
<1>4. jobs' = jobs
  BY DEF Reload, StartReload, RemoveTag, ResetMap, ListJobs, NewGocronJob, RememberTag, EndReload,
         tables
<1>5. InReload(adm[a]) => LoneKnows(adm[a]) BY <1>1, Lone
<1>6. CASE StartReload(a)
  <2>1. PICK x : x = [adm[a] EXCEPT !.pc = "remove", !.todo = jobMap] OBVIOUS
  <2>2. x \in AdminState /\ x.pc = "remove" /\ x.todo = jobMap BY <1>3, <2>1 DEF AdminState
  <2>3. adm' = [adm EXCEPT ![a] = x] BY <1>6, <2>1 DEF StartReload
  <2>4. adm[a].pc = "reload" BY <1>6 DEF StartReload
  <2>5. \A b \in Reloader : ~InReload(adm[b]) BY <1>2, <2>4 DEF InReload
  <2>6. Held' = Held /\ jobMap = Held BY <1>1, <1>6, <2>5, NoneReloads DEF StartReload, Held
  <2>7. LoneKnows(x)' BY <2>2, <2>6 DEF LoneKnows
  <2> QED BY <1>2, <2>2, <2>3, <2>7, LoneMoves DEF InReload
<1>7. CASE RemoveTag(a)
  <2>1. PICK j \in adm[a].todo :
           regs' = [regs EXCEPT ![j] = 0] /\ adm' = [adm EXCEPT ![a].todo = @ \ {j}]
    BY <1>7 DEF RemoveTag
  <2>2. PICK x : x = [adm[a] EXCEPT !.todo = @ \ {j}] OBVIOUS
  <2>3. adm[a].pc = "remove" BY <1>7 DEF RemoveTag
  <2>4. x \in AdminState /\ x.pc = "remove" /\ x.todo = adm[a].todo \ {j}
    BY <1>3, <2>2, <2>3 DEF AdminState
  <2>5. adm' = [adm EXCEPT ![a] = x] BY <2>1, <2>2
  <2>6. Held \subseteq adm[a].todo BY <1>5, <2>3 DEF LoneKnows, InReload
  <2>7. Held' \subseteq x.todo
    <3>1. j \in Job BY <1>3 DEF AdminState
    <3>2. regs'[j] = 0 /\ \A i \in Job \ {j} : regs'[i] = regs[i] BY <1>3, <2>1, <3>1
    <3>3. j \notin Held' BY <3>2 DEF Held
    <3>4. \A i \in Held' : i \in Held /\ i # j BY <3>2, <3>3 DEF Held
    <3> QED BY <2>4, <2>6, <3>4
  <2>8. LoneKnows(x)' BY <2>4, <2>7 DEF LoneKnows
  <2> QED BY <1>2, <2>4, <2>5, <2>8, LoneMoves DEF InReload
<1>8. CASE ResetMap(a)
  <2>1. PICK x : x = [adm[a] EXCEPT !.pc = "list"] OBVIOUS
  <2>2. x \in AdminState /\ x.pc = "list" BY <1>3, <2>1 DEF AdminState
  <2>3. adm' = [adm EXCEPT ![a] = x] BY <1>8, <2>1 DEF ResetMap, GoTo
  <2>4. Held = {} BY <1>5, <1>8 DEF ResetMap, LoneKnows, InReload
  <2>5. Held' = {} /\ jobMap' = {} BY <1>8, <2>4 DEF ResetMap, Held
  <2>6. LoneKnows(x)' BY <2>2, <2>5 DEF LoneKnows
  <2> QED BY <1>2, <2>2, <2>3, <2>6, LoneMoves DEF InReload
<1>9. CASE ListJobs(a)
  <2>1. Held = {} /\ jobMap = {} BY <1>5, <1>9 DEF ListJobs, LoneKnows, InReload
  <2>2. \A j \in Job : regs[j] = 0 BY <1>3, <2>1 DEF Held
  <2>3. regs' = regs /\ jobMap' = jobMap /\ Held' = Held BY <1>9 DEF ListJobs, sched, Held
  <2>4. CASE /\ Works
             /\ adm' = [adm EXCEPT ![a].pc = "register",
                            ![a].todo = {j \in Job : jobs[j] # None /\ Registrable(jobs[j])}]
    <3>1. PICK timed \in SUBSET Job : timed = {j \in Job : jobs[j] # None /\ Registrable(jobs[j])}
      OBVIOUS
    <3>2. PICK x : x = [adm[a] EXCEPT !.pc = "register", !.todo = timed] OBVIOUS
    <3>3. x \in AdminState /\ x.pc = "register" /\ x.todo = timed BY <1>3, <3>2 DEF AdminState
    <3>4. adm' = [adm EXCEPT ![a] = x] BY <2>4, <3>1, <3>2
    <3>5. \A j \in Job : Timed(jobs[j]) <=> j \in timed BY <3>1 DEF Timed
    <3>6. \A j \in Job : Timed(jobs[j])' <=> j \in timed
      BY <1>4, <3>5 DEF Timed, Registrable
    <3>7. AsListed(x)' BY <2>2, <2>3, <3>3, <3>6 DEF AsListed
    <3>8. \A j \in x.todo : regs'[j] = 0 BY <2>2, <2>3, <3>3
    <3>9. LoneKnows(x)' BY <2>1, <2>3, <3>3, <3>7, <3>8 DEF LoneKnows
    <3> QED BY <1>2, <3>3, <3>4, <3>9, LoneMoves DEF InReload
  <2>5. CASE Fails /\ adm' = [adm EXCEPT ![a] = IdleAdmin]
    <3>1. IdleAdmin \in AdminState /\ IdleAdmin.pc = "idle" BY IdleStates DEF IdleAdmin
    <3>2. faults' > 0 BY <1>3, <2>5 DEF Fails
    <3>3. AsStored' BY <2>2, <2>3, <3>2 DEF AsStored
    <3>4. ~InReload(IdleAdmin) BY <3>1 DEF InReload
    <3> QED BY <1>2, <2>1, <2>3, <2>5, <3>1, <3>3, <3>4, LoneMoves
  <2> QED BY <1>9, <2>4, <2>5 DEF ListJobs
<1>10. CASE NewGocronJob(a)
  <2>1. PICK j \in adm[a].todo :
           /\ regs' = [regs EXCEPT ![j] = @ + 1]
           /\ adm' = [adm EXCEPT ![a].pc = "remember", ![a].job = j, ![a].todo = @ \ {j}]
    BY <1>10 DEF NewGocronJob
  <2>2. j \in Job BY <1>3 DEF AdminState
  <2>3. PICK x : x = [adm[a] EXCEPT !.pc = "remember", !.job = j, !.todo = @ \ {j}] OBVIOUS
  <2>4. /\ x \in AdminState /\ x.pc = "remember" /\ x.job = j /\ x.todo = adm[a].todo \ {j}
    BY <1>3, <2>2, <2>3 DEF AdminState
  <2>5. adm' = [adm EXCEPT ![a] = x] BY <2>1, <2>3
  <2>6. adm[a].pc = "register" BY <1>10 DEF NewGocronJob
  <2>7. /\ \A i \in adm[a].todo : regs[i] = 0
        /\ Waiting \/ AsListed(adm[a])
        /\ jobMap = Held
    BY <1>5, <2>6 DEF LoneKnows, InReload
  <2>8. regs'[j] = regs[j] + 1 /\ \A i \in Job \ {j} : regs'[i] = regs[i] BY <1>3, <2>1, <2>2
  <2>9. regs'[j] = 1
    <3>1. regs[j] = 0 BY <2>7
    <3> QED BY <2>8, <3>1
  <2>10. x.todo \subseteq Job BY <2>4 DEF AdminState
  <2>11. \A i \in x.todo : regs'[i] = 0 BY <2>4, <2>7, <2>8, <2>10
  <2>12. \A i \in Job : Timed(jobs[i])' <=> Timed(jobs[i]) BY <1>4 DEF Timed, Registrable
  <2>13. AsListed(adm[a]) => AsListed(x)'
    <3> SUFFICES ASSUME AsListed(adm[a]) PROVE AsListed(x)' OBVIOUS
    <3>1. /\ \A i \in Job : regs[i] = IF Timed(jobs[i]) /\ i \notin adm[a].todo THEN 1 ELSE 0
          /\ \A i \in adm[a].todo : Timed(jobs[i])
      BY DEF AsListed
    <3>2. \A i \in Job : regs'[i] = IF Timed(jobs[i]) /\ i \notin x.todo THEN 1 ELSE 0
      BY <2>2, <2>4, <2>8, <2>9, <3>1
    <3> QED BY <2>4, <2>10, <2>12, <3>1, <3>2 DEF AsListed
  <2>14. Waiting' <=> Waiting BY <2>4, <2>5, <2>6, WaitingSame
  <2>15. Held' = Held \cup {j}
    <3>1. 1 > 0 OBVIOUS
    <3> QED BY <2>2, <2>8, <2>9, <3>1 DEF Held
  <2>16. jobMap' = jobMap BY <1>10 DEF NewGocronJob
  <2>17. LoneKnows(x)' BY <2>4, <2>7, <2>11, <2>13, <2>14, <2>15, <2>16 DEF LoneKnows
  <2> QED BY <1>2, <2>4, <2>5, <2>17, LoneMoves DEF InReload
<1>11. CASE RememberTag(a)
  <2>1. PICK x : x = [adm[a] EXCEPT !.pc = "register", !.job = 0] OBVIOUS
  <2>2. x \in AdminState /\ x.pc = "register" /\ x.todo = adm[a].todo /\ x.todo \subseteq Job
    BY <1>3, <2>1 DEF AdminState
  <2>3. adm' = [adm EXCEPT ![a] = x]
    <3>1. PICK meet \in SUBSET {b \in Reloader : adm[b].pc = "remove"} :
             adm' = [b \in Reloader |->
                        IF b = a THEN [adm[a] EXCEPT !.pc = "register", !.job = 0]
                        ELSE IF b \in meet THEN [adm[b] EXCEPT !.todo = @ \cup {adm[a].job}]
                        ELSE adm[b]]
      BY <1>11 DEF RememberTag
    <3>2. \A b \in Reloader \ {a} : b \notin meet BY <1>2, <3>1 DEF InReload
    <3>3. adm' = [b \in Reloader |-> IF b = a THEN x ELSE adm[b]] BY <2>1, <3>1, <3>2
    <3> QED BY <1>3, <3>3
  <2>4. regs' = regs /\ Held' = Held /\ jobMap' = jobMap \cup {adm[a].job} /\ adm[a].pc = "remember"
    BY <1>11 DEF RememberTag, Held
  <2>5. /\ \A i \in adm[a].todo : regs[i] = 0
        /\ Waiting \/ AsListed(adm[a])
        /\ jobMap \cup {adm[a].job} = Held
    BY <1>5, <2>4 DEF LoneKnows, InReload
  <2>6. \A i \in Job : Timed(jobs[i])' <=> Timed(jobs[i]) BY <1>4 DEF Timed, Registrable
  <2>7. AsListed(adm[a]) => AsListed(x)' BY <2>2, <2>4, <2>6 DEF AsListed
  <2>8. Waiting' <=> Waiting BY <2>2, <2>3, <2>4, WaitingSame
  <2>9. LoneKnows(x)' BY <2>2, <2>4, <2>5, <2>7, <2>8 DEF LoneKnows
  <2> QED BY <1>2, <2>2, <2>3, <2>9, LoneMoves DEF InReload
<1>12. CASE EndReload(a)
  <2>1. IdleAdmin \in AdminState /\ IdleAdmin.pc = "idle" BY IdleStates DEF IdleAdmin
  <2>2. /\ adm' = [adm EXCEPT ![a] = IdleAdmin] /\ UNCHANGED <<regs, jobMap>>
        /\ adm[a].pc = "register" /\ adm[a].todo = {}
    BY <1>12 DEF EndReload, sched
  <2>3. (Waiting \/ AsListed(adm[a])) /\ jobMap = Held
    BY <1>5, <2>2 DEF LoneKnows, InReload
  <2>4. \A i \in Job : Timed(jobs[i])' <=> Timed(jobs[i]) BY <1>4 DEF Timed, Registrable
  <2>5. AsListed(adm[a]) => AsStored' BY <2>2, <2>4 DEF AsListed, AsStored
  <2>6. Waiting' <=> Waiting BY <2>1, <2>2, WaitingSame
  <2>7. jobMap' = Held' BY <2>2, <2>3 DEF Held
  <2>8. ~InReload(IdleAdmin) BY <2>1 DEF InReload
  <2> QED BY <1>2, <2>1, <2>2, <2>3, <2>5, <2>6, <2>7, <2>8, LoneMoves
<1> QED BY <1>6, <1>7, <1>8, <1>9, <1>10, <1>11, <1>12 DEF Reload

(* A request that goes on to reload: it will list what it has written.      *)
LEMMA GoesToReload ==
    ASSUME WorkTypeOK, SchedInv, NEW a \in Admin, adm[a].pc \in {"idle", "save"},
           UNCHANGED sched, faults' = 0 => faults = 0,
           NEW x \in AdminState, x.pc = "reload", adm' = [adm EXCEPT ![a] = x]
    PROVE  SchedInv'
<1>1. a \in Reloader BY DEF Reloader
<1>2. adm'[a] = x /\ \A b \in Reloader \ {a} : adm'[b] = adm[b]
  BY <1>1 DEF WorkTypeOK, AdminsOK
<1>3. Waiting' BY <1>1, <1>2 DEF Waiting
<1>4. UNCHANGED <<regs, jobMap, overlapped>> /\ Held' = Held BY DEF sched, Held
<1>5. ~InReload(adm[a]) /\ ~InReload(x) BY DEF InReload
<1>6. \A b \in Reloader : InReload(adm[b])' => InReload(adm[b]) /\ b # a /\ adm'[b] = adm[b]
  BY <1>2, <1>5 DEF InReload
<1>7. \A b \in Reloader : InReload(adm[b]) => InReload(adm[b])'
  BY <1>2, <1>5 DEF InReload
<1>8. ASSUME NEW b \in Reloader, InReload(adm[b])', LoneKnows(adm[b])
      PROVE  LoneKnows(adm[b])'
  <2>1. PICK y : y = adm[b] /\ y = adm'[b] BY <1>6, <1>8
  <2>2. LoneKnows(y) BY <1>8, <2>1
  <2>3. LoneKnows(y)' BY <1>3, <1>4, <2>2 DEF LoneKnows
  <2> QED BY <2>1, <2>3 DEF LoneKnows, AsListed
<1>9. LoneInv' BY <1>3, <1>4, <1>6, <1>7, <1>8 DEF SchedInv, LoneInv
<1>10. NoneMissing' BY <1>1, <1>2 DEF NoneMissing, WillList
<1> QED BY <1>9, <1>10 DEF SchedInv

(* A request that reads a row, or cannot save it.                           *)
LEMMA EditorWaits ==
    ASSUME WorkTypeOK, SchedInv, NEW a \in Admin, adm[a].pc \in {"idle", "save"},
           UNCHANGED <<jobs, sched>>, FaultsKept,
           NEW x \in AdminState, x.pc \in {"idle", "save"}, adm' = [adm EXCEPT ![a] = x]
    PROVE  SchedInv'
<1>1. a \in Reloader BY DEF Reloader
<1>2. adm'[a] = x /\ \A b \in Reloader \ {a} : adm'[b] = adm[b]
  BY <1>1 DEF WorkTypeOK, AdminsOK
<1>3. Waiting' <=> Waiting BY <1>1, WaitingSame
<1>4. UNCHANGED <<regs, jobMap, overlapped>> /\ Held' = Held BY DEF sched, Held
<1>5. ~InReload(adm[a]) /\ ~InReload(x) BY DEF InReload
<1>6. \A b \in Reloader : InReload(adm[b])' => InReload(adm[b]) /\ b # a /\ adm'[b] = adm[b]
  BY <1>2, <1>5 DEF InReload
<1>7. \A b \in Reloader : InReload(adm[b]) => InReload(adm[b])'
  BY <1>2, <1>5 DEF InReload
<1>8. \A j \in Job : Timed(jobs[j])' <=> Timed(jobs[j]) BY DEF Timed, Registrable
<1>9. ASSUME NEW b \in Reloader, InReload(adm[b])', LoneKnows(adm[b])
      PROVE  LoneKnows(adm[b])'
  <2>1. PICK y : y = adm[b] /\ y = adm'[b] BY <1>6, <1>9
  <2>2. LoneKnows(y) /\ y.todo \subseteq Job
    BY <1>9, <2>1 DEF WorkTypeOK, AdminsOK, AdminState
  <2>3. AsListed(y) => AsListed(y)' BY <1>4, <1>8, <2>2 DEF AsListed
  <2>4. LoneKnows(y)' BY <1>3, <1>4, <2>2, <2>3 DEF LoneKnows
  <2> QED BY <2>1, <2>4 DEF LoneKnows, AsListed
<1>10. AsStored => AsStored' BY <1>4, <1>8 DEF AsStored, FaultsKept
<1>11. LoneInv' BY <1>3, <1>4, <1>6, <1>7, <1>9, <1>10 DEF SchedInv, LoneInv
<1>12. faults' = 0 => faults = 0
  <2>1. faults \in Nat BY DEF WorkTypeOK, BoundsOK
  <2> QED BY <2>1 DEF FaultsKept
<1>13. ~WillList(adm[a]) /\ \A j \in Job : ~WillRegister(adm[a], j)
  BY DEF WillList, WillRegister
<1>14. NoneMissing' BY <1>1, <1>2, <1>4, <1>8, <1>12, <1>13, MissingMoves
<1> QED BY <1>11, <1>14 DEF SchedInv

LEMMA EditSched ==
    ASSUME WorkTypeOK, SchedInv, FaultsKept, NEW a \in Admin, Edit(a)
    PROVE  SchedInv'
<1>1. UNCHANGED sched
  BY DEF Edit, CreateJob, ReadJob, SaveJob, DeleteJob, RunJobNow, CreateDevice, UpdateDevice,
         DeleteDevice, sched
<1>2. ~SaveJob(a) => adm[a].pc = "idle"
  BY DEF Edit, CreateJob, ReadJob, DeleteJob, RunJobNow, CreateDevice, UpdateDevice,
         DeleteDevice, Request
<1>3. faults' = 0 => faults = 0
  <2>1. faults \in Nat BY DEF WorkTypeOK, BoundsOK
  <2> QED BY <2>1 DEF FaultsKept
<1>4. adm[a] \in AdminState BY DEF WorkTypeOK, AdminsOK, Reloader
<1>5. CASE UNCHANGED <<jobs, adm>>
  <2>1. TimedKept BY <1>5 DEF TimedKept
  <2> QED BY <1>1, <1>5, <2>1, SchedQuiet
<1>6. ASSUME adm[a].pc = "idle", GoTo(a, "reload") PROVE SchedInv'
  <2>1. PICK x : x = [adm[a] EXCEPT !.pc = "reload"] OBVIOUS
  <2>2. x \in AdminState /\ x.pc = "reload" BY <1>4, <2>1 DEF AdminState
  <2>3. adm' = [adm EXCEPT ![a] = x] BY <1>6, <2>1 DEF GoTo
  <2> QED BY <1>1, <1>3, <1>6, <2>2, <2>3, GoesToReload
<1>7. CASE CreateJob(a)
  <2>1. adm[a].pc = "idle" /\ Unused(jobs) # {} BY <1>7 DEF CreateJob, Request
  <2>2. CASE GoTo(a, "reload") BY <1>6, <2>1, <2>2
  <2>3. CASE /\ UNCHANGED adm
             /\ \E input \in Inputs :
                   /\ input.schedule = "once"
                   /\ jobs' = [jobs EXCEPT ![First(Unused(jobs))] = NewJobRow(input)]
    BY <1>1, <2>1, <2>3, OnceTimed, SchedQuiet
  <2> QED BY <1>5, <1>7, <2>2, <2>3 DEF CreateJob
<1>8. CASE ReadJob(a)
  <2>1. PICK j \in Job :
           /\ LiveJob(j)
           /\ adm' = [adm EXCEPT ![a].pc = "save", ![a].job = j, ![a].row = jobs[j]]
    BY <1>8 DEF ReadJob
  <2>2. PICK row : row = jobs[j] OBVIOUS
  <2>3. row \in JobRow BY <2>1, <2>2 DEF LiveJob, WorkTypeOK, TablesOK
  <2>4. PICK x : x = [adm[a] EXCEPT !.pc = "save", !.job = j, !.row = row] OBVIOUS
  <2>5. x \in AdminState /\ x.pc = "save" BY <1>4, <2>3, <2>4 DEF AdminState
  <2>6. adm' = [adm EXCEPT ![a] = x] BY <2>1, <2>2, <2>4
  <2>7. UNCHANGED jobs /\ adm[a].pc = "idle" BY <1>8 DEF ReadJob, tables, Request
  <2> QED BY <1>1, <2>5, <2>6, <2>7, EditorWaits
<1>9. CASE SaveJob(a)
  <2>1. adm[a].pc = "save" BY <1>9 DEF SaveJob
  <2>2. CASE adm' = [adm EXCEPT ![a] = IdleAdmin] /\ UNCHANGED jobs
    <3>1. IdleAdmin \in AdminState /\ IdleAdmin.pc = "idle" BY IdleStates DEF IdleAdmin
    <3> QED BY <1>1, <2>1, <2>2, <3>1, EditorWaits
  <2>3. CASE adm' = [adm EXCEPT ![a] = [IdleAdmin EXCEPT !.pc = "reload"]]
    <3>1. PICK x : x = [IdleAdmin EXCEPT !.pc = "reload"] OBVIOUS
    <3>2. x \in AdminState /\ x.pc = "reload" BY <3>1 DEF IdleAdmin, AdminState
    <3> QED BY <1>1, <1>3, <2>1, <2>3, <3>1, <3>2, GoesToReload
  <2> QED BY <1>9, <2>2, <2>3 DEF SaveJob
<1>10. CASE DeleteJob(a)
  <2>1. GoTo(a, "reload") \/ UNCHANGED <<jobs, adm>> BY <1>10 DEF DeleteJob
  <2> QED BY <1>2, <1>5, <1>6, <1>10, <2>1 DEF DeleteJob, Request
<1>11. CreateJob(a) \/ ReadJob(a) \/ SaveJob(a) \/ DeleteJob(a) \/ UNCHANGED <<jobs, adm>>
  BY DEF Edit, RunJobNow, CreateDevice, UpdateDevice, DeleteDevice, tables
<1> QED BY <1>5, <1>7, <1>8, <1>9, <1>10, <1>11

LEMMA StartSched ==
    ASSUME regs' = [j \in Job |-> 0], jobMap' = {},
           adm' = [a \in Reloader |->
                      IF a = Main THEN [IdleAdmin EXCEPT !.pc = "reload"] ELSE IdleAdmin]
    PROVE  SchedInv'
<1>1. Held' = {}
  <2>1. ~(0 > 0) OBVIOUS
  <2> QED BY <2>1 DEF Held
<1>2. [IdleAdmin EXCEPT !.pc = "reload"].pc = "reload" /\ IdleAdmin.pc = "idle"
  BY DEF IdleAdmin
<1>3. \A a \in Reloader : adm'[a].pc = IF a = Main THEN "reload" ELSE "idle" BY <1>2
<1>4. Main \in Reloader BY DEF Reloader
<1>5. \A a \in Reloader : ~InReload(adm[a])' BY <1>3 DEF InReload
<1>6. Waiting' /\ WillList(adm[Main])' BY <1>3, <1>4 DEF Waiting, WillList
<1>7. NoneMissing' BY <1>4, <1>6 DEF NoneMissing
<1>8. LoneInv' BY <1>1, <1>5, <1>6 DEF LoneInv
<1> QED BY <1>7, <1>8 DEF SchedInv

LEMMA InitSched ==
    ASSUME Init
    PROVE  SchedInv
<1>1. Held = {} /\ jobMap = {}
  <2>1. ~(0 > 0) OBVIOUS
  <2> QED BY <2>1 DEF Init, Held
<1>2. [IdleAdmin EXCEPT !.pc = "reload"].pc = "reload" /\ IdleAdmin.pc = "idle"
  BY DEF IdleAdmin
<1>3. \A a \in Reloader : adm[a].pc = IF a = Main THEN "reload" ELSE "idle"
  BY <1>2 DEF Init
<1>4. Main \in Reloader BY DEF Reloader
<1>5. \A a \in Reloader : ~InReload(adm[a]) BY <1>3 DEF InReload
<1>6. Waiting /\ WillList(adm[Main]) BY <1>3, <1>4 DEF Waiting, WillList
<1>7. NoneMissing BY <1>4, <1>6 DEF NoneMissing
<1>8. LoneInv BY <1>1, <1>5, <1>6 DEF LoneInv
<1> QED BY <1>7, <1>8 DEF SchedInv

LEMMA StepSched ==
    ASSUME WorkTypeOK, SchedInv, [Next]_vars
    PROVE  SchedInv'
<1>1. FaultsKept
  <2>1. faults \in Nat /\ faults' \in {faults, faults + 1} BY FaultsGrow
  <2> QED BY <2>1 DEF FaultsKept
<1>2. CASE UNCHANGED <<jobs, sched, adm>>
  <2>1. TimedKept BY <1>2 DEF TimedKept
  <2> QED BY <1>1, <1>2, <2>1, SchedQuiet
<1>3. CASE \E a \in Reloader : Reload(a) BY <1>3, ReloadSched
<1>4. CASE \E a \in Admin : Edit(a) BY <1>1, <1>4, EditSched
<1>5. CASE \E v \in Viewer : Sync(v)
  BY <1>2, <1>5 DEF Sync, StartSync, LookForDevice, WriteDevice, tables, sched
<1>6. CASE \E g \in Runner : Tick(g) \/ RunJob(g)
  <2>1. PICK g \in Runner : Tick(g) \/ RunJob(g) BY <1>6
  <2>2. UNCHANGED <<sched, adm>>
    BY <2>1 DEF Tick, RunJob, Load, StartDevice, Send, EndJob, sched
  <2>3. CASE Load(g) \/ EndJob(g)
    <3>1. PICK status \in {"ok", "error"} : status = IF runner[g].failed THEN "error" ELSE "ok"
      OBVIOUS
    <3>2. \/ WriteStatus(runner[g].job, "error", {})
          \/ WriteStatus(runner[g].job, status, runner[g].mine)
          \/ UNCHANGED jobs
      BY <2>3, <3>1 DEF Load, EndJob, TellStatus
    <3>3. TimedKept BY <3>2, TellTimed
    <3> QED BY <1>1, <2>2, <3>3, SchedQuiet
  <2>4. CASE Tick(g) \/ StartDevice(g) \/ Send(g)
    BY <1>2, <2>2, <2>4 DEF Tick, StartDevice, Send, tables
  <2> QED BY <2>1, <2>3, <2>4 DEF RunJob
<1>7. CASE \E k \in Checker : Check(k)
  <2>1. PICK k \in Checker : Check(k) BY <1>7
  <2>2. UNCHANGED <<sched, adm>>
    BY <2>1 DEF Check, StartCheck, LookForBackup, CreateBackupRun, BackupNow, TellBackup, sched
  <2>3. CASE LookForBackup(k)
    <3>1. \/ UNCHANGED jobs
          \/ /\ Unused(jobs) # {}
             /\ \E input : /\ input.schedule = "once"
                           /\ jobs' = [jobs EXCEPT ![First(Unused(jobs))] = NewJobRow(input)]
      BY <2>3 DEF LookForBackup
    <3>2. TimedKept BY <3>1, OnceTimed DEF TimedKept
    <3> QED BY <1>1, <2>2, <3>2, SchedQuiet
  <2>4. CASE TellBackup(k)
    <3>1. checker[k].outcome \in {"ok", "error"}
      BY <2>4 DEF TellBackup, WorkTypeOK, CheckersOK, FitsChecker
    <3>2. WriteStatus(checker[k].job, checker[k].outcome, {checker[k].run}) \/ UNCHANGED jobs
      BY <2>4 DEF TellBackup, TellStatus
    <3>3. TimedKept BY <3>1, <3>2, TellTimed
    <3> QED BY <1>1, <2>2, <3>3, SchedQuiet
  <2>5. CASE StartCheck(k) \/ CreateBackupRun(k) \/ BackupNow(k)
    BY <1>2, <2>2, <2>5 DEF StartCheck, CreateBackupRun, BackupNow, tables
  <2> QED BY <2>1, <2>3, <2>4, <2>5 DEF Check
<1>8. CASE Crash BY <1>8, StartSched DEF Crash
<1>9. CASE AtRest \/ UNCHANGED vars
  BY <1>2, <1>9 DEF AtRest, vars, tables, sched
<1> QED BY <1>3, <1>4, <1>5, <1>6, <1>7, <1>8, <1>9 DEF Next
-----------------------------------------------------------------------------
(* The invariant of the tables and of the work under way holds in every     *)
(* state.                                                                   *)
THEOREM WorkIsSound == Spec => []RunInv
<1>1. Init => RunInv BY InitTyped, InitWork, InitTold DEF RunInv
<1>2. RunInv /\ [Next]_vars => RunInv' BY StepTyped, StepWork, StepTold DEF RunInv
<1> QED BY <1>1, <1>2, PTL DEF Spec

(* Tables, entries and goroutines always hold what their declarations say,  *)
(* and an execution in the middle of a run has that run among its own.      *)
THEOREM WorkIsTyped == Spec => []TypeOK
<1>1. ASSUME RunInv PROVE TypeOK
  <2> USE <1>1 DEF RunInv, WorkTypeOK
  <2>1. /\ jobs \in [Job -> JobRow \cup {None}] /\ devices \in [Device -> DeviceRow \cup {None}]
        /\ runs \in [Run -> RunRow \cup {None}] /\ regs \in [Job -> Nat] /\ jobMap \subseteq Job
        /\ overlapped \in BOOLEAN
    BY DEF TablesOK, SchedOK
  <2>2. ASSUME NEW g \in Runner
        PROVE  /\ runner[g].pc \in {"idle", "load", "next", "send", "saveConfig"}
               /\ runner[g].todo \subseteq Device \X Host
               /\ runner[g].mine \subseteq Run
               /\ runner[g].pc # "idle" => runner[g].job \in Job
               /\ runner[g].pc \in {"send", "saveConfig"} => runner[g].run \in runner[g].mine
    BY DEF RunnersOK, RunnerState, FitsRunner, Executing
  <2>3. ASSUME NEW a \in Reloader
        PROVE  /\ adm[a].pc \in {"idle", "save", "reload", "remove", "list", "register", "remember"}
               /\ adm[a].todo \subseteq Job
               /\ adm[a].pc = "save" => adm[a].row \in JobRow
    BY DEF AdminsOK, AdminState, FitsAdmin
  <2>4. /\ \A v \in Viewer : viewer[v].pc \in {"idle", "look", "write"}
        /\ \A k \in Checker : checker[k].pc \in {"idle", "look", "create", "backup", "tell"}
    BY DEF ViewersOK, ViewerState, CheckersOK, CheckerState
  <2> QED BY <2>1, <2>2, <2>3, <2>4 DEF TypeOK
<1> QED BY <1>1, WorkIsSound, PTL

(* A run that shows "pending" is being executed by a goroutine, as long as  *)
(* no call failed and nothing crashed, whatever edits, deletions, reloads,  *)
(* executions of the same job and BNG checks go on beside it.               *)
THEOREM PendingRunsAreAlive == Spec => []PendingIsRunning
<1>1. RunInv => PendingIsRunning BY DEF RunInv, WorkInv
<1> QED BY <1>1, WorkIsSound, PTL

(* The status a job shows is that of the runs of the execution or check     *)
(* that told it, also when several executions of the job end in any order   *)
(* and the job is edited or deleted under them.                             *)
THEOREM StatusIsEarned == Spec => []StatusTellsLastRuns
<1>1. RunInv => StatusTellsLastRuns BY DEF RunInv, ToldInv
<1> QED BY <1>1, WorkIsSound, PTL

(* The reloads of any number of administrators, which hold no lock and go   *)
(* entry by entry, leave gocron with an entry for each enabled periodic job *)
(* if all could list the jobs; and where none overlapped, with one entry    *)
(* for each of these jobs and none besides, or with none after a failed     *)
(* listing.                                                                 *)
THEOREM ScheduleFollowsTable == Spec => []ScheduledAsStored
<1>1. Init => SchedInv BY InitSched
<1>2. WorkTypeOK /\ SchedInv /\ [Next]_vars => SchedInv' BY StepSched
<1>3. RunInv => WorkTypeOK BY DEF RunInv
<1>4. ASSUME SchedInv PROVE ScheduledAsStored
  <2> SUFFICES ASSUME \A a \in Reloader : adm[a].pc \in {"idle", "save"}
               PROVE  /\ faults = 0 => \A j \in Job : Timed(jobs[j]) => regs[j] > 0
                      /\ ~overlapped => AsStored
    BY DEF ScheduledAsStored, AsStored, Timed
  <2>1. \A a \in Reloader : \A j \in Job :
           ~WillList(adm[a]) /\ ~WillRegister(adm[a], j) /\ ~InReload(adm[a])
    BY DEF WillList, WillRegister, InReload
  <2>2. ~Waiting BY DEF Waiting
  <2>3. faults = 0 => \A j \in Job : Timed(jobs[j]) => regs[j] > 0
    BY <1>4, <2>1 DEF SchedInv, NoneMissing
  <2>4. ASSUME ~overlapped PROVE AsStored
    <3>1. \A a \in Reloader : ~InReload(adm[a]) BY DEF InReload
    <3> QED BY <1>4, <2>2, <2>4, <3>1 DEF SchedInv, LoneInv
  <2> QED BY <2>3, <2>4
<1> QED BY <1>1, <1>2, <1>3, <1>4, WorkIsSound, PTL DEF Spec
=============================================================================
