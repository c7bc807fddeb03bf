------------------------------- MODULE OltScans -------------------------------
(***************************************************************************)
(* The scans of the Nokia and Huawei OLTs (internal/scheduler/scheduler.go *)
(* and the repositories of power, descriptions, ports, health and          *)
(* inventory): tables that keep the last reading of every OLT, a history   *)
(* of Nokia health that averages pairs of scans through a buffer in        *)
(* memory, and an inventory that is erased and filled again.               *)
(*                                                                         *)
(* Cron jobs and requests run on goroutines.  Nokia scans pass one         *)
(* semaphore: a job waits for it, a request gives up when it is taken.     *)
(* Huawei scans take none.  Readings are abstracted to the number of the   *)
(* scan that took them; backups and the monthly cleanup are left out.      *)
(*                                                                         *)
(* A definition named for a defect (...Unguarded, ...Kept) is a faulty     *)
(* variant of the one that follows.                                        *)
(***************************************************************************)
EXTENDS Naturals, FiniteSets

CONSTANTS
    Nokia, Huawei,     \* the OLTs of each vendor
    Scanned,           \* kinds of scan the instance runs, as pairs of vendor and subject
    Goroutine,
    PreserveAbove,     \* a port scan of more OLTs than this may give up
    None,
    MaxScans, MaxFaults   \* bounds on scans, and on failed calls and exits together

Host == Nokia \cup Huawei
Scan == 1 .. MaxScans
Table == {"power", "desc", "port"}
Stock == {"inventory", "interfaces"}

ASSUME OltScansAssumption ==
    /\ Nokia \cap Huawei = {}
    /\ Scanned \subseteq {"nokia", "huawei"} \X (Table \cup Stock \cup {"health"})
    /\ <<"huawei", "desc">> \notin Scanned /\ <<"huawei", "interfaces">> \notin Scanned
    /\ PreserveAbove \in Nat /\ MaxScans \in Nat /\ MaxFaults \in Nat
    /\ None \notin Goroutine

VARIABLES
    rows,       \* the scan whose rows each table holds for an OLT, 0 without rows
    health,     \* the same for the table of current health
    buffer,     \* healthBuf: the scan that waits for its pair
    history,    \* health history: for each OLT the entries, each the scans it averages
    items,      \* the same for inventory items and ONT interfaces
    listed,     \* OLT inventories: OLT and scan
    summary,    \* the last inventory summary: its scan and OLTs
    run,        \* what each goroutine is doing
    sem,        \* scanSem: the goroutine that holds it
    scans,      \* number of scans so far
    measured,   \* history: scans of an OLT's health that reached the buffer
    lost,       \* history: those whose entry a failed call or an exit took
    faults, stops

tables == <<rows, health, items, listed, summary>>
healthVars == <<buffer, history, measured, lost>>
bounds == <<faults, stops>>
vars == <<tables, healthVars, run, sem, scans, bounds>>

Idle == [pc |-> "idle", kind |-> None, scan |-> 0, got |-> {}, todo |-> {}, pairs |-> {}]

Fails == faults + stops < MaxFaults /\ faults' = faults + 1 /\ UNCHANGED stops
Works == UNCHANGED bounds
At(g) == run[g].pc
Vendor(g) == run[g].kind[1]
Subject(g) == run[g].kind[2]
Targets(g) == IF Vendor(g) = "nokia" THEN Nokia ELSE Huawei
Goto(g, pc) == run' = [run EXCEPT ![g].pc = pc]
-----------------------------------------------------------------------------
Init ==
    /\ rows = [t \in Table |-> [h \in Host |-> 0]]
    /\ health = [h \in Host |-> 0]
    /\ buffer = [h \in Nokia |-> 0]
    /\ history = [h \in Nokia |-> {}]
    /\ items = [w \in Stock |-> [h \in Host |-> 0]]
    /\ listed = {} /\ summary = [v \in {"nokia", "huawei"} |-> None]
    /\ run = [g \in Goroutine |-> Idle]
    /\ sem = None /\ scans = 0
    /\ measured = [h \in Nokia |-> {}] /\ lost = [h \in Nokia |-> {}]
    /\ faults = 0 /\ stops = 0

(* The first step of a scan: inventories are erased before anything is     *)
(* collected.                                                              *)
First(kind) == IF kind[1] = "nokia" /\ kind[2] \in Stock THEN "erase" ELSE "collect"

(* A cron job of the Nokia scans waits for the semaphore.                  *)
CronJob(g) ==
    /\ At(g) = "idle" /\ scans < MaxScans
    /\ \E kind \in Scanned :
          run' = [run EXCEPT ![g] = [Idle EXCEPT !.kind = kind,
                     !.pc = IF kind[1] = "nokia" THEN "wait" ELSE "collect"]]
    /\ UNCHANGED <<tables, healthVars, sem, scans, bounds>>

SemFreeUnguarded == TRUE
SemFree == sem = None

Acquire(g) ==
    /\ At(g) = "wait" /\ SemFree
    /\ sem' = g
    /\ Goto(g, First(run[g].kind))
    /\ UNCHANGED <<tables, healthVars, scans, bounds>>

(* A request starts a Nokia scan only when none runs.                      *)
TryRun(g) ==
    /\ At(g) = "idle" /\ scans < MaxScans /\ SemFree
    /\ \E kind \in Scanned :
          /\ kind[1] = "nokia"
          /\ run' = [run EXCEPT ![g] = [Idle EXCEPT !.kind = kind, !.pc = First(kind)]]
    /\ sem' = g
    /\ UNCHANGED <<tables, healthVars, scans, bounds>>

Done(g) ==
    /\ run' = [run EXCEPT ![g] = Idle]
    /\ sem' = IF sem = g THEN None ELSE sem

Erase(g) ==
    /\ At(g) = "erase"
    /\ \/ /\ Works
          /\ items' = [items EXCEPT ![Subject(g)] =
                          [h \in Host |-> IF h \in Nokia THEN 0 ELSE @[h]]]
          /\ IF Subject(g) = "inventory"
             THEN /\ listed' = {o \in listed : o[1] \in Huawei}
                  /\ summary' = [summary EXCEPT !["nokia"] = None]
             ELSE UNCHANGED <<listed, summary>>
          /\ Goto(g, "collect") /\ UNCHANGED sem
       \/ Fails /\ Done(g) /\ UNCHANGED <<items, listed, summary>>
    /\ UNCHANGED <<rows, health, healthVars, scans>>

(* A scan that no OLT answers writes nothing, nor does a port scan of many  *)
(* OLTs that fewer than three quarters answer; an inventory is always       *)
(* filled again.                                                            *)
GivesUp(kind, got) ==
    /\ kind[2] \notin Stock
    /\ \/ got = {}
       \/ /\ kind = <<"nokia", "port">> /\ Cardinality(Nokia) > PreserveAbove
          /\ 4 * Cardinality(got) < 3 * Cardinality(Nokia)

(* Some OLTs answer; one that does not counts as a failed call.             *)
Collect(g, kind, next) ==
    /\ At(g) = "collect" /\ run[g].kind = kind /\ scans < MaxScans
    /\ scans' = scans + 1
    /\ \E got \in SUBSET Targets(g) :
          /\ IF got = Targets(g) THEN Works ELSE Fails
          /\ IF GivesUp(kind, got) THEN Done(g)
             ELSE /\ run' = [run EXCEPT ![g] = [Idle EXCEPT !.pc = next, !.kind = kind,
                                 !.scan = scans + 1, !.got = got,
                                 !.todo = IF next = "items" THEN got ELSE {}]]
                  /\ UNCHANGED sem
    /\ UNCHANGED <<tables, healthVars>>

RunPowerScanWork(g) == Collect(g, <<"nokia", "power">>, "write")
RunDescScanWork(g) == Collect(g, <<"nokia", "desc">>, "write")
RunHealthScanWork(g) == Collect(g, <<"nokia", "health">>, "write")
RunPortScanWork(g) == Collect(g, <<"nokia", "port">>, "write")
RunInventoryScanWork(g) == Collect(g, <<"nokia", "inventory">>, "items")
RunOntInterfaceScanWork(g) == Collect(g, <<"nokia", "interfaces">>, "items")
RunHuaweiHealthScan(g) == Collect(g, <<"huawei", "health">>, "write")
RunHuaweiPowerScan(g) == Collect(g, <<"huawei", "power">>, "write")
RunHuaweiPortScan(g) == Collect(g, <<"huawei", "port">>, "write")
RunHuaweiInventoryScan(g) == Collect(g, <<"huawei", "inventory">>, "items")
-----------------------------------------------------------------------------
(* Power, descriptions and ports: the rows of the OLTs that answered are   *)
(* replaced in one transaction; then a Nokia scan deletes the rows of      *)
(* every other OLT the table has.                                          *)
ReplaceAll(g) ==
    /\ At(g) = "write" /\ Subject(g) \in Table
    /\ \/ /\ Works
          /\ rows' = [rows EXCEPT ![Subject(g)] =
                         [h \in Host |-> IF h \in run[g].got THEN run[g].scan ELSE @[h]]]
          /\ IF Vendor(g) = "nokia" THEN Goto(g, "prune") /\ UNCHANGED sem ELSE Done(g)
       \/ Fails /\ Done(g) /\ UNCHANGED rows
    /\ UNCHANGED <<health, items, listed, summary, healthVars, scans>>

DeleteExceptHosts(g) ==
    /\ At(g) = "prune"
    /\ \/ /\ Works
          /\ rows' = [rows EXCEPT ![Subject(g)] =
                         [h \in Host |-> IF h \in run[g].got THEN @[h] ELSE 0]]
       \/ Fails /\ UNCHANGED rows
    /\ Done(g)
    /\ UNCHANGED <<health, items, listed, summary, healthVars, scans>>
-----------------------------------------------------------------------------
(* Health: the current row is updated, then the Nokia snapshot waits in    *)
(* the buffer or is averaged with the one that waits there.                *)
BulkUpsert(g) ==
    /\ At(g) = "write" /\ Subject(g) = "health"
    /\ \/ /\ Works
          /\ health' = [h \in Host |-> IF h \in run[g].got THEN run[g].scan ELSE health[h]]
       \/ Fails /\ UNCHANGED health
    /\ IF Vendor(g) = "nokia" THEN Goto(g, "buffer") /\ UNCHANGED sem ELSE Done(g)
    /\ UNCHANGED <<rows, items, listed, summary, healthVars, scans>>

BufferedKept(g) ==
    [h \in Nokia |-> IF h \in run[g].got /\ buffer[h] = 0 THEN run[g].scan ELSE buffer[h]]

Buffered(g) ==
    [h \in Nokia |-> IF h \notin run[g].got THEN buffer[h]
                     ELSE IF buffer[h] = 0 THEN run[g].scan ELSE 0]

PairSnapshots(g) ==
    /\ At(g) = "buffer"
    /\ buffer' = Buffered(g)
    /\ run' = [run EXCEPT ![g].pc = "insert",
                  ![g].pairs = {<<h, {buffer[h], run[g].scan}>> :
                                   h \in {k \in run[g].got : buffer[k] # 0}}]
    /\ measured' = [h \in Nokia |-> IF h \in run[g].got THEN measured[h] \cup {run[g].scan}
                                    ELSE measured[h]]
    /\ UNCHANGED <<tables, history, lost, sem, scans, bounds>>

Pairs(g, h) == {p[2] : p \in {q \in run[g].pairs : q[1] = h}}

InsertHistory(g) ==
    /\ At(g) = "insert"
    /\ \/ /\ Works
          /\ history' = [h \in Nokia |-> history[h] \cup Pairs(g, h)]
          /\ UNCHANGED lost
       \/ /\ run[g].pairs # {} /\ Fails
          /\ lost' = [h \in Nokia |-> lost[h] \cup UNION Pairs(g, h)]
          /\ UNCHANGED history
    /\ Done(g)
    /\ UNCHANGED <<tables, buffer, measured, scans>>

(* The shutdown flushes the buffer, whatever scans still run.              *)
FlushHealthBuffer ==
    /\ \E unsaved \in SUBSET {h \in Nokia : buffer[h] # 0} :
          /\ IF unsaved = {} THEN Works ELSE Fails
          /\ history' = [h \in Nokia |->
                IF buffer[h] # 0 /\ h \notin unsaved THEN history[h] \cup {{buffer[h]}}
                ELSE history[h]]
          /\ lost' = [h \in Nokia |-> IF h \in unsaved THEN lost[h] \cup {buffer[h]}
                                      ELSE lost[h]]
    /\ buffer' = [h \in Nokia |-> 0]
    /\ UNCHANGED <<tables, measured, run, sem, scans>>

Exit ==
    /\ faults + stops < MaxFaults
    /\ stops' = stops + 1
    /\ lost' = [h \in Nokia |-> lost[h] \cup ({buffer[h]} \ {0})
                  \cup UNION UNION {Pairs(g, h) : g \in Goroutine}]
    /\ buffer' = [h \in Nokia |-> 0]
    /\ run' = [g \in Goroutine |-> Idle]
    /\ sem' = None
    /\ UNCHANGED <<tables, history, measured, scans, faults>>
-----------------------------------------------------------------------------
(* Inventory and ONT interfaces: item by item of the OLTs that answered,   *)
(* then the list of OLTs and the summary.                                  *)
ReplaceByHost(g) ==
    /\ At(g) = "items"
    /\ IF run[g].todo = {}
       THEN /\ Works /\ UNCHANGED items
            /\ IF Subject(g) = "inventory" THEN Goto(g, "list") /\ UNCHANGED sem ELSE Done(g)
       ELSE \E h \in run[g].todo :
            /\ \/ Works /\ items' = [items EXCEPT ![Subject(g)][h] = run[g].scan]
               \/ Fails /\ UNCHANGED items
            /\ run' = [run EXCEPT ![g].todo = @ \ {h}]
            /\ UNCHANGED sem
    /\ UNCHANGED <<rows, health, listed, summary, healthVars, scans>>

SaveOltInventory(g) ==
    /\ At(g) = "list"
    /\ \/ Works /\ listed' = listed \cup {<<h, run[g].scan>> : h \in run[g].got}
       \/ Fails /\ UNCHANGED listed
    /\ Goto(g, "summary")
    /\ UNCHANGED <<rows, health, items, summary, healthVars, sem, scans>>

SaveSummary(g) ==
    /\ At(g) = "summary"
    /\ \/ Works /\ summary' = [summary EXCEPT ![Vendor(g)] = [scan |-> run[g].scan,
                                                             olts |-> run[g].got]]
       \/ Fails /\ UNCHANGED summary
    /\ Done(g)
    /\ UNCHANGED <<rows, health, items, listed, healthVars, scans>>
-----------------------------------------------------------------------------
AtRest ==
    /\ scans = MaxScans
    /\ \A g \in Goroutine : At(g) \in {"idle", "wait", "collect", "erase"}
    /\ UNCHANGED vars

Next ==
    \/ \E g \in Goroutine :
          \/ CronJob(g) \/ Acquire(g) \/ TryRun(g) \/ Erase(g)
          \/ RunPowerScanWork(g) \/ RunDescScanWork(g) \/ RunHealthScanWork(g)
          \/ RunPortScanWork(g) \/ RunInventoryScanWork(g) \/ RunOntInterfaceScanWork(g)
          \/ RunHuaweiHealthScan(g) \/ RunHuaweiPowerScan(g) \/ RunHuaweiPortScan(g)
          \/ RunHuaweiInventoryScan(g)
          \/ ReplaceAll(g) \/ DeleteExceptHosts(g)
          \/ BulkUpsert(g) \/ PairSnapshots(g) \/ InsertHistory(g)
          \/ ReplaceByHost(g) \/ SaveOltInventory(g) \/ SaveSummary(g)
    \/ FlushHealthBuffer \/ Exit \/ AtRest

Spec == Init /\ [][Next]_vars
-----------------------------------------------------------------------------
TypeOK ==
    /\ rows \in [Table -> [Host -> 0 .. MaxScans]] /\ health \in [Host -> 0 .. MaxScans]
    /\ items \in [Stock -> [Host -> 0 .. MaxScans]]
    /\ buffer \in [Nokia -> 0 .. MaxScans]
    /\ history \in [Nokia -> SUBSET SUBSET Scan]
    /\ listed \subseteq Host \X Scan
    /\ measured \in [Nokia -> SUBSET Scan] /\ lost \in [Nokia -> SUBSET Scan]
    /\ sem \in Goroutine \cup {None}
    /\ scans \in 0 .. MaxScans /\ faults \in 0 .. MaxFaults /\ stops \in 0 .. MaxFaults

(* What is stored of a Nokia OLT never goes back to an older scan, nor the *)
(* inventory while it is filled again: scans that overlap would write over *)
(* each other.                                                             *)
NeverOlder ==
    [][ \A h \in Nokia :
          /\ \A t \in Table : rows'[t][h] # 0 => rows'[t][h] >= rows[t][h]
          /\ \A w \in Stock : items'[w][h] # 0 => items'[w][h] >= items[w][h]
          /\ health'[h] >= health[h] ]_vars

(* Every snapshot of a Nokia OLT's health is in one entry of its history,  *)
(* in the buffer or about to be inserted, and in no two of them; an entry  *)
(* averages neighbours.  A flush, or an OLT that missed a scan, does not   *)
(* change that.                                                            *)
Places(h) ==
    history[h] \cup (IF buffer[h] = 0 THEN {} ELSE {{buffer[h]}})
               \cup UNION {Pairs(g, h) : g \in Goroutine}

EachSnapshotOnce ==
    \A h \in Nokia :
        /\ \A n \in measured[h] \ lost[h] : Cardinality({e \in Places(h) : n \in e}) = 1
        /\ \A e \in history[h] : \A m, n \in e :
              ~ \E k \in measured[h] \ lost[h] : m < k /\ k < n

(* Readings of a Huawei OLT stay until a later scan replaces them.         *)
HuaweiReadingsStay ==
    [][ \A h \in Huawei : rows["power"][h] # 0 => rows'["power"][h] # 0 ]_vars
=============================================================================
