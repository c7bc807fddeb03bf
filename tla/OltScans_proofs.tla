---------------------------- MODULE OltScans_proofs ----------------------------
(***************************************************************************)
(* Proofs about OltScans, for every set of OLTs, goroutines and kinds of   *)
(* scan and every value of the bounds: type correctness, that one Nokia    *)
(* scan runs at a time, NeverOlder and EachSnapshotOnce.                   *)
(*                                                                         *)
(* Both rest on the semaphore: between a scan's collection and its last    *)
(* write no other Nokia scan reads or writes.  What makes them inductive   *)
(* is the order of the scans: what is stored, measured and buffered of an  *)
(* OLT is never newer than the scan that runs.                             *)
(***************************************************************************)
EXTENDS OltScans, FiniteSetTheorems, TLAPS

(* A goroutine past the wait for the semaphore, and past its collection.    *)
Running(g) == At(g) \notin {"idle", "wait"}
Collected(g) == At(g) \in {"write", "prune", "buffer", "insert", "items", "list", "summary"}
RunningNokia(g) == Running(g) /\ Vendor(g) = "nokia"

RunRecord ==
    [pc : {"idle", "wait", "erase", "collect", "write", "prune", "buffer", "insert", "items",
           "list", "summary"},
     kind : Scanned \cup {None}, scan : 0 .. MaxScans, got : SUBSET Host, todo : SUBSET Host,
     pairs : SUBSET (Nokia \X SUBSET Scan)]

(* What a goroutine is doing fits its kind of scan: only the OLTs of its    *)
(* vendor answer it, and only Nokia health has snapshots to pair.           *)
RunInv(g) ==
    /\ At(g) # "idle" => run[g].kind \in Scanned
    /\ At(g) \in {"wait", "erase", "prune", "buffer", "insert"} => Vendor(g) = "nokia"
    /\ At(g) # "insert" => run[g].pairs = {}
    /\ Collected(g) => /\ run[g].scan \in 1 .. scans
                       /\ run[g].got \subseteq Targets(g)
                       /\ run[g].todo \subseteq run[g].got

(* The Nokia scan that runs holds the semaphore, so there is one.           *)
SemInv == \A g \in Goroutine : RunningNokia(g) => sem = g
OneNokiaScan == \A f, g \in Goroutine : RunningNokia(f) /\ RunningNokia(g) => f = g

(* Nothing of a Nokia OLT is stored, or was measured, by a scan later than  *)
(* n.                                                                       *)
StoredUpTo(n) ==
    \A h \in Nokia :
        /\ \A t \in Table : rows[t][h] <= n
        /\ \A w \in Stock : items[w][h] <= n
        /\ health[h] <= n
MeasuredBefore(n) == \A h \in Nokia : \A m \in measured[h] : m < n

ScanInv ==
    /\ StoredUpTo(scans) /\ MeasuredBefore(scans + 1)
    /\ \A g \in Goroutine : Collected(g) /\ Vendor(g) = "nokia" =>
          /\ StoredUpTo(run[g].scan)
          /\ At(g) \in {"write", "buffer"} => MeasuredBefore(run[g].scan)

(* Entries on their way to the history, and the snapshots no failure took.  *)
Waiting(h) == UNION {Pairs(g, h) : g \in Goroutine}
Known(h) == measured[h] \ lost[h]

(* Of the snapshots known to be taken, each is the last, waiting in the     *)
(* buffer, or is in one entry of the history or on its way there, with its  *)
(* neighbours.                                                              *)
Consistent(hist, wait, last, known) ==
    /\ \A e \in hist \cup wait : e \subseteq known
    /\ \A d, e \in hist \cup wait : d = e \/ d \cap e = {}
    /\ \A d \in hist, e \in wait : d \cap e = {}
    /\ last # 0 => /\ last \in known
                   /\ \A e \in hist \cup wait : last \notin e
                   /\ \A n \in known : n <= last
    /\ \A n \in known : n = last \/ \E e \in hist \cup wait : n \in e
    /\ \A e \in hist \cup wait : \A m, n \in e : ~ \E k \in known : m < k /\ k < n

SnapshotInv(h) ==
    /\ lost[h] \subseteq measured[h]
    /\ Consistent(history[h], Waiting(h), buffer[h], Known(h))

IInv ==
    /\ TypeOK
    /\ run \in [Goroutine -> RunRecord]
    /\ \A g \in Goroutine : RunInv(g)
    /\ SemInv
    /\ ScanInv
    /\ \A h \in Nokia : SnapshotInv(h)

-----------------------------------------------------------------------------
(* What a step of one goroutine does *)

NotOlder ==
    \A h \in Nokia :
        /\ \A t \in Table : rows'[t][h] # 0 => rows'[t][h] >= rows[t][h]
        /\ \A w \in Stock : items'[w][h] # 0 => items'[w][h] >= items[w][h]
        /\ health'[h] >= health[h]

OnlyRun(g) == \A k \in Goroutine : k # g => run'[k] = run[k]

(* A value of a Nokia OLT is kept, or written by the Nokia scan that runs.  *)
Keeps(g, old, new) ==
    new = old \/ (RunningNokia(g) /\ Collected(g) /\ new = run[g].scan)
KeepsOrErases(g, old, new) == Keeps(g, old, new) \/ (RunningNokia(g) /\ new = 0)

NokiaTables(g) ==
    \A h \in Nokia :
        /\ \A t \in Table : KeepsOrErases(g, rows[t][h], rows'[t][h])
        /\ \A w \in Stock : KeepsOrErases(g, items[w][h], items'[w][h])
        /\ Keeps(g, health[h], health'[h])

(* The semaphore is left alone, taken when free or given back.              *)
SemMove(g) == sem' = sem \/ (sem = None /\ sem' = g) \/ (sem = g /\ sem' = None)

(* A collected scan stays the scan it is; only a scan that was about to     *)
(* write its health readings is about to buffer them.                       *)
SameScan(g) ==
    Collected(g)' /\ Vendor(g)' = "nokia" =>
        /\ Collected(g) /\ Vendor(g) = "nokia" /\ run'[g].scan = run[g].scan
        /\ At(g)' \in {"write", "buffer"} => At(g) \in {"write", "buffer"}

LEMMA Bounds ==
    ASSUME IInv
    PROVE  /\ scans \in Nat /\ MaxScans \in Nat /\ scans <= MaxScans
           /\ \A g \in Goroutine : run[g] \in RunRecord /\ run[g].scan \in Nat
           /\ \A h \in Nokia : /\ h \in Host
                               /\ \A t \in Table : rows[t][h] \in Nat
                               /\ \A w \in Stock : items[w][h] \in Nat
                               /\ health[h] \in Nat
                               /\ \A m \in measured[h] : m \in Nat
<1>1. scans \in Nat /\ MaxScans \in Nat /\ scans <= MaxScans
  BY OltScansAssumption DEF IInv, TypeOK
<1>2. ASSUME NEW g \in Goroutine PROVE run[g] \in RunRecord /\ run[g].scan \in Nat
  BY <1>1 DEF IInv, RunRecord
<1>3. ASSUME NEW h \in Nokia
      PROVE  /\ h \in Host
             /\ \A t \in Table : rows[t][h] \in Nat
             /\ \A w \in Stock : items[w][h] \in Nat
             /\ health[h] \in Nat
             /\ \A m \in measured[h] : m \in Nat
  BY <1>1 DEF IInv, TypeOK, Host, Scan
<1> QED BY <1>1, <1>2, <1>3

LEMMA RunsKept ==
    ASSUME IInv, NEW g \in Goroutine, OnlyRun(g), RunInv(g)', scans' \in Nat, scans <= scans'
    PROVE  \A k \in Goroutine : RunInv(k)'
<1>1. scans \in Nat BY Bounds
<1>2. ASSUME NEW k \in Goroutine, k # g PROVE RunInv(k)'
  <2>1. RunInv(k) /\ run'[k] = run[k] BY <1>2 DEF IInv, OnlyRun
  <2> QED BY <1>1, <2>1 DEF RunInv, At, Vendor, Collected, Targets
<1> QED BY <1>2

LEMMA SemKept ==
    ASSUME IInv, NEW g \in Goroutine, OnlyRun(g), SemMove(g), RunningNokia(g)' => sem' = g
    PROVE  SemInv'
<1>1. ASSUME NEW k \in Goroutine, RunningNokia(k)', k # g PROVE sem' = k
  <2>1. RunningNokia(k) BY <1>1 DEF OnlyRun, RunningNokia, Running, At, Vendor
  <2>2. sem = k /\ sem # None BY <2>1, OltScansAssumption DEF IInv, SemInv
  <2> QED BY <1>1, <2>2 DEF SemMove
<1> QED BY <1>1 DEF SemInv

LEMMA OneNokia == ASSUME IInv PROVE OneNokiaScan
  BY DEF IInv, SemInv, OneNokiaScan

LEMMA CollectedRuns ==
    ASSUME NEW g \in Goroutine, Collected(g), Vendor(g) = "nokia" PROVE RunningNokia(g)
  BY DEF Collected, RunningNokia, Running

(* A scan that runs is the newest, so what it writes is.                    *)
LEMMA NokiaNotOlder ==
    ASSUME IInv, NEW g \in Goroutine, NokiaTables(g) PROVE NotOlder
<1>1. Collected(g) /\ Vendor(g) = "nokia" => StoredUpTo(run[g].scan) BY DEF IInv, ScanInv
<1> QED BY <1>1, Bounds
        DEF NokiaTables, NotOlder, Keeps, KeepsOrErases, StoredUpTo, RunningNokia

LEMMA ScanKept ==
    ASSUME IInv, NEW g \in Goroutine, OnlyRun(g), UNCHANGED <<measured, scans>>,
           NokiaTables(g), SameScan(g)
    PROVE  ScanInv'
<1>1. RunningNokia(g) /\ Collected(g) => run[g].scan \in 1 .. scans
  BY DEF IInv, RunInv
<1>2. ASSUME NEW n \in Nat, StoredUpTo(n), Collected(g) /\ RunningNokia(g) => run[g].scan <= n
      PROVE  StoredUpTo(n)'
  BY <1>2, Bounds DEF StoredUpTo, NokiaTables, Keeps, KeepsOrErases
<1>3. StoredUpTo(scans)' /\ MeasuredBefore(scans + 1)'
  <2>1. StoredUpTo(scans) /\ MeasuredBefore(scans + 1) BY DEF IInv, ScanInv
  <2>2. StoredUpTo(scans)'
    <3>1. \A n \in Nat : n = scans /\ StoredUpTo(n) => StoredUpTo(n)'
      BY <1>1, <1>2, Bounds
    <3> QED BY <2>1, <3>1, Bounds DEF StoredUpTo
  <2> QED BY <2>1, <2>2 DEF MeasuredBefore
<1>4. ASSUME NEW k \in Goroutine, Collected(k)', Vendor(k)' = "nokia"
      PROVE  /\ StoredUpTo(run[k].scan)'
             /\ At(k)' \in {"write", "buffer"} => MeasuredBefore(run[k].scan)'
  <2>1. /\ Collected(k) /\ Vendor(k) = "nokia" /\ run'[k].scan = run[k].scan
        /\ At(k)' \in {"write", "buffer"} => At(k) \in {"write", "buffer"}
    BY <1>4 DEF OnlyRun, SameScan, Collected, Vendor, At
  <2>2. StoredUpTo(run[k].scan) /\ (At(k) \in {"write", "buffer"} => MeasuredBefore(run[k].scan))
    BY <2>1 DEF IInv, ScanInv
  <2>3. RunningNokia(g) => g = k
    BY <2>1, CollectedRuns, OneNokia DEF OneNokiaScan
  <2>4. StoredUpTo(run[k].scan)'
    <3>1. \A n \in Nat : n = run[k].scan /\ StoredUpTo(n) => StoredUpTo(n)'
      BY <1>2, <2>3, Bounds
    <3> QED BY <2>1, <2>2, <3>1, Bounds DEF StoredUpTo
  <2> QED BY <2>1, <2>2, <2>4 DEF MeasuredBefore
<1> QED BY <1>3, <1>4 DEF ScanInv

LEMMA SnapshotsKept ==
    ASSUME IInv, UNCHANGED healthVars, \A k \in Goroutine : run'[k].pairs = run[k].pairs
    PROVE  \A h \in Nokia : SnapshotInv(h)'
<1>1. ASSUME NEW h \in Nokia PROVE SnapshotInv(h)'
  <2>1. SnapshotInv(h) BY DEF IInv
  <2>2. Waiting(h)' = Waiting(h) BY DEF Waiting, Pairs
  <2> QED BY <2>1, <2>2 DEF SnapshotInv, Known, healthVars
<1> QED BY <1>1

(* A step of goroutine g outside the pairing of health snapshots.           *)
LEMMA TableStep ==
    ASSUME IInv, NEW g \in Goroutine, NEW r \in RunRecord, run' = [run EXCEPT ![g] = r],
           TypeOK', RunInv(g)', UNCHANGED <<healthVars, scans>>,
           r.pairs = {}, run[g].pairs = {},
           SemMove(g), RunningNokia(g)' => sem' = g, NokiaTables(g), SameScan(g)
    PROVE  IInv' /\ NotOlder
<1>1. run \in [Goroutine -> RunRecord] BY DEF IInv
<1>2. run' \in [Goroutine -> RunRecord] /\ OnlyRun(g) /\ run'[g] = r
  BY <1>1 DEF OnlyRun
<1>3. \A k \in Goroutine : RunInv(k)' BY <1>2, Bounds, RunsKept
<1>4. SemInv' BY <1>2, SemKept
<1>5. ScanInv' BY <1>2, ScanKept DEF healthVars
<1>6. \A h \in Nokia : SnapshotInv(h)' BY <1>2, SnapshotsKept DEF OnlyRun
<1>7. NotOlder BY NokiaNotOlder
<1> QED BY <1>2, <1>3, <1>4, <1>5, <1>6, <1>7 DEF IInv

(* A goroutine that goes on, and one that is done.                          *)
LEMMA GotoRecord ==
    ASSUME IInv, NEW g \in Goroutine,
           NEW pc \in {"collect", "prune", "buffer", "list", "summary"}, Goto(g, pc)
    PROVE  \E r \in RunRecord :
             /\ run' = [run EXCEPT ![g] = r] /\ run'[g] = r
             /\ r.pc = pc /\ r.kind = run[g].kind /\ r.scan = run[g].scan
             /\ r.got = run[g].got /\ r.todo = run[g].todo /\ r.pairs = run[g].pairs
<1> DEFINE r == [run[g] EXCEPT !.pc = pc]
<1>1. run \in [Goroutine -> RunRecord] /\ run[g] \in RunRecord BY DEF IInv
<1>2. /\ r \in RunRecord
      /\ r.pc = pc /\ r.kind = run[g].kind /\ r.scan = run[g].scan
      /\ r.got = run[g].got /\ r.todo = run[g].todo /\ r.pairs = run[g].pairs
  BY <1>1 DEF RunRecord
<1>3. run' = [run EXCEPT ![g] = r] BY DEF Goto
<1> HIDE DEF r
<1>4. run'[g] = r BY <1>1, <1>3
<1> QED BY <1>2, <1>3, <1>4

LEMMA IdleRecord ==
    /\ Idle \in RunRecord /\ Idle.pc = "idle" /\ Idle.pairs = {} /\ Idle.got = {}
  BY OltScansAssumption DEF Idle, RunRecord

LEMMA DoneRun ==
    ASSUME IInv, NEW g \in Goroutine, Done(g)
    PROVE  /\ run' = [run EXCEPT ![g] = Idle] /\ run'[g] = Idle
           /\ SemMove(g) /\ RunInv(g)' /\ SameScan(g) /\ ~RunningNokia(g)'
           /\ sem' \in Goroutine \cup {None}
<1>1. run \in [Goroutine -> RunRecord] /\ sem \in Goroutine \cup {None}
  BY DEF IInv, TypeOK
<1>2. run' = [run EXCEPT ![g] = Idle] /\ run'[g] = Idle BY <1>1 DEF Done
<1>3. SemMove(g) /\ sem' \in Goroutine \cup {None} BY <1>1 DEF Done, SemMove
<1>4. RunInv(g)' /\ SameScan(g) /\ ~RunningNokia(g)'
  BY <1>2, IdleRecord DEF RunInv, SameScan, Collected, RunningNokia, Running, At
<1> QED BY <1>2, <1>3, <1>4

LEMMA NokiaKept ==
    ASSUME NEW g \in Goroutine, UNCHANGED <<rows, items, health>> PROVE NokiaTables(g)
  BY DEF NokiaTables, KeepsOrErases, Keeps

LEMMA StepBounds ==
    ASSUME IInv, Works \/ Fails
    PROVE  faults' \in 0 .. MaxFaults /\ stops' \in 0 .. MaxFaults
  BY OltScansAssumption DEF IInv, TypeOK, Works, Fails, bounds

(* A goroutine ends its scan; the tables may have been written.             *)
LEMMA EndStep ==
    ASSUME IInv, NEW g \in Goroutine, Done(g), UNCHANGED <<healthVars, scans>>,
           TypeOK', run[g].pairs = {}, NokiaTables(g)
    PROVE  IInv' /\ NotOlder
  BY DoneRun, IdleRecord, TableStep

(* A goroutine of a scan that runs goes on.                                 *)
LEMMA GotoStep ==
    ASSUME IInv, NEW g \in Goroutine,
           NEW pc \in {"collect", "prune", "buffer", "list", "summary"}, Goto(g, pc),
           UNCHANGED <<healthVars, sem, scans>>,
           TypeOK', run[g].pairs = {}, NokiaTables(g), Running(g),
           pc = "collect" \/ Collected(g),
           pc \in {"prune", "buffer"} => Vendor(g) = "nokia",
           pc = "buffer" => At(g) \in {"write", "buffer"}
    PROVE  IInv' /\ NotOlder
<1>1. PICK r \in RunRecord :
        /\ run' = [run EXCEPT ![g] = r] /\ run'[g] = r
        /\ r.pc = pc /\ r.kind = run[g].kind /\ r.scan = run[g].scan
        /\ r.got = run[g].got /\ r.todo = run[g].todo /\ r.pairs = run[g].pairs
  BY GotoRecord
<1>2. RunInv(g) BY DEF IInv
<1>3. RunInv(g)'
  BY <1>1, <1>2 DEF RunInv, At, Vendor, Collected, Targets, Running
<1>4. SemMove(g) BY DEF SemMove
<1>5. SameScan(g) BY <1>1 DEF SameScan, At, Vendor, Collected
<1>6. RunningNokia(g)' => sem' = g
  <2>1. RunningNokia(g)' => RunningNokia(g)
    BY <1>1 DEF RunningNokia, Running, At, Vendor
  <2> QED BY <2>1 DEF IInv, SemInv
<1> QED BY <1>1, <1>3, <1>4, <1>5, <1>6, TableStep
-----------------------------------------------------------------------------
(* Starting a scan *)

LEMMA CronJobStep == ASSUME IInv, NEW g \in Goroutine, CronJob(g) PROVE IInv' /\ NotOlder
<1>1. PICK kind \in Scanned :
        run' = [run EXCEPT ![g] = [Idle EXCEPT !.kind = kind,
                  !.pc = IF kind[1] = "nokia" THEN "wait" ELSE "collect"]]
  BY DEF CronJob
<1> DEFINE pc == IF kind[1] = "nokia" THEN "wait" ELSE "collect"
           r == [Idle EXCEPT !.kind = kind, !.pc = pc]
<1>2. r \in RunRecord /\ r.pc = pc /\ r.kind = kind /\ r.pairs = {}
  BY IdleRecord DEF RunRecord
<1>3. run' = [run EXCEPT ![g] = r] BY <1>1
<1> HIDE DEF r
<1>4. run'[g] = r BY <1>3 DEF IInv
<1>5. RunInv(g)' /\ SameScan(g)
  BY <1>2, <1>4 DEF RunInv, SameScan, At, Vendor, Collected
<1>6. ~RunningNokia(g)' BY <1>2, <1>4 DEF RunningNokia, Running, At, Vendor
<1>7. run[g].pairs = {} BY DEF IInv, RunInv, CronJob
<1>8. UNCHANGED <<tables, healthVars, sem, scans, bounds>> BY DEF CronJob
<1>9. TypeOK' BY <1>8 DEF IInv, TypeOK, tables, healthVars, bounds
<1>10. NokiaTables(g) /\ SemMove(g) BY <1>8, NokiaKept DEF tables, SemMove
<1> QED BY <1>2, <1>3, <1>5, <1>6, <1>7, <1>8, <1>9, <1>10, TableStep

LEMMA FirstPc == ASSUME NEW kind PROVE First(kind) \in {"erase", "collect"}
  BY DEF First

LEMMA AcquireStep == ASSUME IInv, NEW g \in Goroutine, Acquire(g) PROVE IInv' /\ NotOlder
<1> DEFINE pc == First(run[g].kind)
           r == [run[g] EXCEPT !.pc = pc]
<1>1. /\ At(g) = "wait" /\ sem = None /\ sem' = g
      /\ run' = [run EXCEPT ![g] = r]
      /\ UNCHANGED <<tables, healthVars, scans, bounds>>
  BY DEF Acquire, SemFree, Goto
<1>2. run[g] \in RunRecord /\ RunInv(g) BY DEF IInv
<1>3. r \in RunRecord /\ r.pc = pc /\ r.kind = run[g].kind /\ r.pairs = run[g].pairs
  <2>1. pc \in {"erase", "collect"} BY FirstPc
  <2> HIDE DEF pc
  <2> QED BY <1>2, <2>1 DEF RunRecord
<1>4. pc \in {"erase", "collect"} BY FirstPc
<1> HIDE DEF r, pc
<1>5. run'[g] = r BY <1>1 DEF IInv
<1>6. RunInv(g)' /\ SameScan(g) /\ run[g].pairs = {}
  BY <1>1, <1>2, <1>3, <1>4, <1>5 DEF RunInv, SameScan, At, Vendor, Collected
<1>7. TypeOK' BY <1>1 DEF IInv, TypeOK, tables, healthVars, bounds
<1>8. NokiaTables(g) /\ SemMove(g) BY <1>1, NokiaKept DEF tables, SemMove
<1> QED BY <1>1, <1>3, <1>6, <1>7, <1>8, TableStep

LEMMA TryRunStep == ASSUME IInv, NEW g \in Goroutine, TryRun(g) PROVE IInv' /\ NotOlder
<1>1. PICK kind \in Scanned :
        /\ kind[1] = "nokia"
        /\ run' = [run EXCEPT ![g] = [Idle EXCEPT !.kind = kind, !.pc = First(kind)]]
  BY DEF TryRun
<1> DEFINE r == [Idle EXCEPT !.kind = kind, !.pc = First(kind)]
<1>2. r \in RunRecord /\ r.pc \in {"erase", "collect"} /\ r.kind = kind /\ r.pairs = {}
  BY IdleRecord, FirstPc DEF RunRecord
<1>3. run' = [run EXCEPT ![g] = r] BY <1>1
<1> HIDE DEF r
<1>4. run'[g] = r BY <1>3 DEF IInv
<1>5. RunInv(g)' /\ SameScan(g)
  BY <1>1, <1>2, <1>4 DEF RunInv, SameScan, At, Vendor, Collected
<1>6. run[g].pairs = {} BY DEF IInv, RunInv, TryRun
<1>7. sem = None /\ sem' = g /\ UNCHANGED <<tables, healthVars, scans, bounds>>
  BY DEF TryRun, SemFree
<1>8. TypeOK' BY <1>7 DEF IInv, TypeOK, tables, healthVars, bounds
<1>9. NokiaTables(g) /\ SemMove(g) BY <1>7, NokiaKept DEF tables, SemMove
<1> QED BY <1>2, <1>3, <1>5, <1>6, <1>7, <1>8, <1>9, TableStep

LEMMA EraseStep == ASSUME IInv, NEW g \in Goroutine, Erase(g) PROVE IInv' /\ NotOlder
<1>1. /\ At(g) = "erase" /\ Vendor(g) = "nokia" /\ run[g].pairs = {} /\ RunningNokia(g)
  BY DEF Erase, IInv, RunInv, RunningNokia, Running
<1>2. UNCHANGED <<rows, health, healthVars, scans>> BY DEF Erase
<1>3. faults' \in 0 .. MaxFaults /\ stops' \in 0 .. MaxFaults BY StepBounds DEF Erase
<1>4. CASE Fails /\ Done(g) /\ UNCHANGED <<items, listed, summary>>
  <2>1. TypeOK' BY <1>2, <1>3, <1>4, DoneRun DEF IInv, TypeOK, healthVars
  <2> QED BY <1>1, <1>2, <1>4, <2>1, EndStep, NokiaKept
<1>5. CASE Goto(g, "collect") /\ UNCHANGED sem
  <2>1. \/ UNCHANGED items
        \/ items' = [items EXCEPT ![Subject(g)] =
                        [h \in Host |-> IF h \in Nokia THEN 0 ELSE items[Subject(g)][h]]]
    BY DEF Erase
  <2>2. listed' \subseteq listed BY DEF Erase
  <2>3. /\ items' \in [Stock -> [Host -> 0 .. MaxScans]]
        /\ \A w \in Stock, h \in Host :
             items'[w][h] = items[w][h] \/ (h \in Nokia /\ items'[w][h] = 0)
    <3> DEFINE e == [h \in Host |-> IF h \in Nokia THEN 0 ELSE items[Subject(g)][h]]
    <3>1. items \in [Stock -> [Host -> 0 .. MaxScans]] /\ 0 \in 0 .. MaxScans
      BY Bounds DEF IInv, TypeOK
    <3>2. CASE UNCHANGED items BY <3>1, <3>2
    <3>3. CASE items' = [items EXCEPT ![Subject(g)] = e]
      <4>1. CASE Subject(g) \in Stock
        <5>1. /\ e \in [Host -> 0 .. MaxScans]
              /\ \A h \in Host : e[h] = items[Subject(g)][h] \/ (h \in Nokia /\ e[h] = 0)
          BY <3>1, <4>1
        <5> HIDE DEF e
        <5> QED BY <3>1, <3>3, <4>1, <5>1
      <4>2. CASE Subject(g) \notin Stock BY <3>1, <3>3, <4>2
      <4> QED BY <4>1, <4>2
    <3> QED BY <2>1, <3>2, <3>3
  <2>4. TypeOK' BY <1>2, <1>3, <1>5, <2>2, <2>3 DEF IInv, TypeOK, healthVars
  <2>5. NokiaTables(g)
    BY <1>1, <1>2, <2>3 DEF NokiaTables, KeepsOrErases, Keeps, Host
  <2> QED BY <1>1, <1>2, <1>5, <2>4, <2>5, GotoStep DEF RunningNokia
<1> QED BY <1>4, <1>5 DEF Erase

(* The collection gives the scan its number, later than any before.         *)
LEMMA CollectStep ==
    ASSUME IInv, NEW g \in Goroutine, NEW kind, NEW next \in {"write", "items"},
           Collect(g, kind, next)
    PROVE  IInv' /\ NotOlder
<1>1. /\ At(g) = "collect" /\ run[g].kind = kind /\ scans < MaxScans /\ scans' = scans + 1
      /\ UNCHANGED <<tables, healthVars>>
  BY DEF Collect
<1>2. /\ run \in [Goroutine -> RunRecord] /\ run[g] \in RunRecord /\ RunInv(g)
      /\ kind \in Scanned /\ scans + 1 \in 1 .. MaxScans /\ scans \in Nat
  BY <1>1, Bounds DEF IInv, RunInv
<1>3. PICK got \in SUBSET Targets(g) :
        /\ Works \/ Fails
        /\ \/ Done(g)
           \/ /\ run' = [run EXCEPT ![g] = [Idle EXCEPT !.pc = next, !.kind = kind,
                           !.scan = scans + 1, !.got = got,
                           !.todo = IF next = "items" THEN got ELSE {}]]
              /\ UNCHANGED sem
  BY DEF Collect
<1>4. faults' \in 0 .. MaxFaults /\ stops' \in 0 .. MaxFaults BY <1>3, StepBounds
<1>5. /\ run' \in [Goroutine -> RunRecord] /\ OnlyRun(g) /\ RunInv(g)'
      /\ SemMove(g) /\ (RunningNokia(g)' => sem' = g)
      /\ sem' \in Goroutine \cup {None}
      /\ Collected(g)' => run'[g].scan = scans + 1
      /\ run'[g].pairs = {}
  <2>1. CASE Done(g)
    <3>1. /\ run' = [run EXCEPT ![g] = Idle] /\ run'[g] = Idle
          /\ ~Collected(g)' /\ run'[g].pairs = {}
      BY <2>1, DoneRun, IdleRecord DEF Collected, At
    <3>2. run' \in [Goroutine -> RunRecord] /\ OnlyRun(g)
      BY <1>2, <3>1, IdleRecord DEF OnlyRun
    <3> QED BY <2>1, <3>1, <3>2, DoneRun
  <2>2. CASE /\ run' = [run EXCEPT ![g] = [Idle EXCEPT !.pc = next, !.kind = kind,
                           !.scan = scans + 1, !.got = got,
                           !.todo = IF next = "items" THEN got ELSE {}]]
             /\ UNCHANGED sem
    <3> DEFINE n == scans + 1
               todo == IF next = "items" THEN got ELSE {}
               r == [Idle EXCEPT !.pc = next, !.kind = kind, !.scan = n, !.got = got,
                                 !.todo = todo]
    <3>1. got \subseteq Host /\ todo \subseteq got /\ n \in 0 .. MaxScans
      BY <1>2 DEF Targets, Host
    <3>2. run' = [run EXCEPT ![g] = r] BY <2>2
    <3>3. n = scans + 1 OBVIOUS
    <3> HIDE DEF todo, n
    <3>4. /\ r \in RunRecord /\ r.pc = next /\ r.kind = kind /\ r.scan = n
          /\ r.got = got /\ r.todo = todo /\ r.pairs = {}
      BY <1>2, <3>1, IdleRecord DEF RunRecord
    <3> HIDE DEF r
    <3>5. run' \in [Goroutine -> RunRecord] /\ OnlyRun(g) /\ run'[g] = r
      BY <1>2, <3>2, <3>4 DEF OnlyRun
    <3>6. Vendor(g)' = Vendor(g) /\ Targets(g)' = Targets(g)
      BY <1>1, <3>4, <3>5 DEF Vendor, Targets
    <3>7. RunInv(g)'
      BY <1>1, <1>2, <3>1, <3>3, <3>4, <3>5, <3>6 DEF RunInv, At, Collected
    <3>8. RunningNokia(g)' => sem' = g
      <4>1. RunningNokia(g)' => RunningNokia(g)
        BY <1>1, <3>6 DEF RunningNokia, Running
      <4> QED BY <2>2, <4>1 DEF IInv, SemInv
    <3>9. SemMove(g) /\ sem' \in Goroutine \cup {None}
      BY <2>2 DEF SemMove, IInv, TypeOK
    <3> QED BY <3>3, <3>4, <3>5, <3>7, <3>8, <3>9
  <2> QED BY <1>3, <2>1, <2>2
<1>6. TypeOK'
  BY <1>1, <1>2, <1>4, <1>5 DEF IInv, TypeOK, tables, healthVars
<1>7. \A k \in Goroutine : RunInv(k)' BY <1>1, <1>2, <1>5, RunsKept
<1>8. SemInv' BY <1>5, SemKept
<1>9. ScanInv'
  <2>1. ScanInv BY DEF IInv
  <2>2. UNCHANGED <<rows, items, health, measured>> BY <1>1 DEF tables, healthVars
  <2>3. StoredUpTo(scans + 1) /\ MeasuredBefore(scans + 1) /\ MeasuredBefore(scans + 1 + 1)
    BY <2>1, Bounds DEF ScanInv, StoredUpTo, MeasuredBefore
  <2>4. StoredUpTo(scans)' /\ MeasuredBefore(scans + 1)'
    BY <1>1, <2>2, <2>3 DEF StoredUpTo, MeasuredBefore
  <2>5. ASSUME NEW k \in Goroutine, Collected(k)', Vendor(k)' = "nokia"
        PROVE  /\ StoredUpTo(run[k].scan)'
               /\ At(k)' \in {"write", "buffer"} => MeasuredBefore(run[k].scan)'
    <3>1. CASE k = g
      BY <1>5, <2>2, <2>3, <2>5, <3>1 DEF StoredUpTo, MeasuredBefore
    <3>2. CASE k # g
      BY <1>5, <2>1, <2>2, <2>5, <3>2
         DEF ScanInv, OnlyRun, StoredUpTo, MeasuredBefore, Collected, At, Vendor
    <3> QED BY <3>1, <3>2
  <2> QED BY <2>4, <2>5 DEF ScanInv
<1>10. \A h \in Nokia : SnapshotInv(h)'
  <2>1. run[g].pairs = {} BY <1>1, <1>2 DEF RunInv
  <2> QED BY <1>1, <1>5, <2>1, SnapshotsKept DEF OnlyRun
<1>11. NotOlder BY <1>1, Bounds DEF NotOlder, tables
<1> QED BY <1>5, <1>6, <1>7, <1>8, <1>9, <1>10, <1>11 DEF IInv
-----------------------------------------------------------------------------
(* The tables *)

(* Readings of the scan for the OLTs that answered.                         *)
LEMMA WritesAnswers ==
    ASSUME IInv, NEW g \in Goroutine, Collected(g), NEW h \in Nokia, h \in run[g].got,
           NEW old, NEW new, new = run[g].scan
    PROVE  Keeps(g, old, new)
<1>1. RunInv(g) BY DEF IInv
<1>2. Vendor(g) = "nokia" BY <1>1, OltScansAssumption DEF RunInv, Targets
<1> QED BY <1>2, CollectedRuns DEF Keeps

LEMMA ReplaceAllStep ==
    ASSUME IInv, NEW g \in Goroutine, ReplaceAll(g) PROVE IInv' /\ NotOlder
<1> DEFINE t == Subject(g)
           e == [h \in Host |-> IF h \in run[g].got THEN run[g].scan ELSE rows[t][h]]
<1>1. /\ At(g) = "write" /\ t \in Table /\ Collected(g) /\ Running(g) /\ run[g].pairs = {}
      /\ UNCHANGED <<health, items, listed, summary, healthVars, scans>>
  BY DEF ReplaceAll, Collected, Running, IInv, RunInv
<1>2. run[g].scan \in 0 .. MaxScans /\ rows \in [Table -> [Host -> 0 .. MaxScans]]
  BY Bounds DEF IInv, TypeOK, RunRecord
<1>3. \/ UNCHANGED rows
      \/ rows' = [rows EXCEPT ![t] = e]
  BY DEF ReplaceAll
<1>4. e \in [Host -> 0 .. MaxScans] BY <1>1, <1>2
<1>5. \A h \in Nokia : Keeps(g, rows[t][h], e[h])
  <2>1. ASSUME NEW h \in Nokia PROVE Keeps(g, rows[t][h], e[h])
    <3>1. h \in Host BY DEF Host
    <3>2. CASE h \in run[g].got BY <1>1, <3>1, <3>2, WritesAnswers
    <3>3. CASE h \notin run[g].got BY <3>1, <3>3 DEF Keeps
    <3> QED BY <3>2, <3>3
  <2> QED BY <2>1
<1> HIDE DEF e, t
<1>6. rows' \in [Table -> [Host -> 0 .. MaxScans]] BY <1>1, <1>2, <1>3, <1>4
<1>7. NokiaTables(g)
  <2>1. \A h \in Nokia, u \in Table : KeepsOrErases(g, rows[u][h], rows'[u][h])
    BY <1>1, <1>2, <1>3, <1>5 DEF KeepsOrErases, Keeps
  <2> QED BY <1>1, <2>1 DEF NokiaTables, KeepsOrErases, Keeps
<1>8. faults' \in 0 .. MaxFaults /\ stops' \in 0 .. MaxFaults BY StepBounds DEF ReplaceAll
<1>9. CASE Done(g)
  <2>1. TypeOK' BY <1>1, <1>6, <1>8, <1>9, DoneRun DEF IInv, TypeOK, healthVars
  <2> QED BY <1>1, <1>7, <1>9, <2>1, EndStep
<1>10. CASE Vendor(g) = "nokia" /\ Goto(g, "prune") /\ UNCHANGED sem
  <2>1. TypeOK' BY <1>1, <1>6, <1>8, <1>10 DEF IInv, TypeOK, healthVars
  <2> QED BY <1>1, <1>7, <1>10, <2>1, GotoStep
<1> QED BY <1>9, <1>10 DEF ReplaceAll

LEMMA DeleteExceptHostsStep ==
    ASSUME IInv, NEW g \in Goroutine, DeleteExceptHosts(g) PROVE IInv' /\ NotOlder
<1> DEFINE t == Subject(g)
           e == [h \in Host |-> IF h \in run[g].got THEN rows[t][h] ELSE 0]
<1>1. /\ At(g) = "prune" /\ RunningNokia(g) /\ run[g].pairs = {} /\ Done(g)
      /\ UNCHANGED <<health, items, listed, summary, healthVars, scans>>
  BY DEF DeleteExceptHosts, RunningNokia, Running, IInv, RunInv
<1>2. rows \in [Table -> [Host -> 0 .. MaxScans]] /\ 0 \in 0 .. MaxScans
  BY Bounds DEF IInv, TypeOK
<1>3. UNCHANGED rows \/ rows' = [rows EXCEPT ![t] = e] BY DEF DeleteExceptHosts
<1>4. t \in Table => e \in [Host -> 0 .. MaxScans] BY <1>2
<1>5. \A h \in Nokia : e[h] = rows[t][h] \/ e[h] = 0 BY DEF Host
<1> HIDE DEF e, t
<1>6. rows' \in [Table -> [Host -> 0 .. MaxScans]] BY <1>2, <1>3, <1>4
<1>7. NokiaTables(g)
  <2>1. \A h \in Nokia, u \in Table : KeepsOrErases(g, rows[u][h], rows'[u][h])
    BY <1>1, <1>2, <1>3, <1>5 DEF KeepsOrErases, Keeps
  <2> QED BY <1>1, <2>1 DEF NokiaTables, KeepsOrErases, Keeps
<1>8. faults' \in 0 .. MaxFaults /\ stops' \in 0 .. MaxFaults
  BY StepBounds DEF DeleteExceptHosts
<1>9. TypeOK' BY <1>1, <1>6, <1>8, DoneRun DEF IInv, TypeOK, healthVars
<1> QED BY <1>1, <1>7, <1>9, EndStep

LEMMA BulkUpsertStep ==
    ASSUME IInv, NEW g \in Goroutine, BulkUpsert(g) PROVE IInv' /\ NotOlder
<1> DEFINE e == [h \in Host |-> IF h \in run[g].got THEN run[g].scan ELSE health[h]]
<1>1. /\ At(g) = "write" /\ Collected(g) /\ Running(g) /\ run[g].pairs = {}
      /\ UNCHANGED <<rows, items, listed, summary, healthVars, scans>>
  BY DEF BulkUpsert, Collected, Running, IInv, RunInv
<1>2. run[g].scan \in 0 .. MaxScans /\ health \in [Host -> 0 .. MaxScans]
  BY Bounds DEF IInv, TypeOK, RunRecord
<1>3. UNCHANGED health \/ health' = e BY DEF BulkUpsert
<1>4. e \in [Host -> 0 .. MaxScans] BY <1>2
<1>5. \A h \in Nokia : Keeps(g, health[h], e[h])
  <2>1. ASSUME NEW h \in Nokia PROVE Keeps(g, health[h], e[h])
    <3>1. h \in Host BY DEF Host
    <3>2. CASE h \in run[g].got BY <1>1, <3>1, <3>2, WritesAnswers
    <3>3. CASE h \notin run[g].got BY <3>1, <3>3 DEF Keeps
    <3> QED BY <3>2, <3>3
  <2> QED BY <2>1
<1> HIDE DEF e
<1>6. health' \in [Host -> 0 .. MaxScans] BY <1>2, <1>3, <1>4
<1>7. NokiaTables(g) BY <1>1, <1>3, <1>5 DEF NokiaTables, KeepsOrErases, Keeps
<1>8. faults' \in 0 .. MaxFaults /\ stops' \in 0 .. MaxFaults BY StepBounds DEF BulkUpsert
<1>9. CASE Done(g)
  <2>1. TypeOK' BY <1>1, <1>6, <1>8, <1>9, DoneRun DEF IInv, TypeOK, healthVars
  <2> QED BY <1>1, <1>7, <1>9, <2>1, EndStep
<1>10. CASE Vendor(g) = "nokia" /\ Goto(g, "buffer") /\ UNCHANGED sem
  <2>1. TypeOK' BY <1>1, <1>6, <1>8, <1>10 DEF IInv, TypeOK, healthVars
  <2> QED BY <1>1, <1>7, <1>10, <2>1, GotoStep
<1> QED BY <1>9, <1>10 DEF BulkUpsert

LEMMA ReplaceByHostStep ==
    ASSUME IInv, NEW g \in Goroutine, ReplaceByHost(g) PROVE IInv' /\ NotOlder
<1>1. /\ At(g) = "items" /\ Collected(g) /\ Running(g) /\ run[g].pairs = {} /\ RunInv(g)
      /\ run[g] \in RunRecord
      /\ UNCHANGED <<rows, health, listed, summary, healthVars, scans>>
  BY DEF ReplaceByHost, Collected, Running, IInv, RunInv
<1>2. run[g].scan \in 0 .. MaxScans /\ items \in [Stock -> [Host -> 0 .. MaxScans]]
  BY Bounds DEF IInv, TypeOK, RunRecord
<1>3. faults' \in 0 .. MaxFaults /\ stops' \in 0 .. MaxFaults BY StepBounds DEF ReplaceByHost
<1>4. CASE run[g].todo = {}
  <2>1. UNCHANGED items /\ ((Goto(g, "list") /\ UNCHANGED sem) \/ Done(g))
    BY <1>4 DEF ReplaceByHost
  <2>2. NokiaTables(g) BY <1>1, <2>1, NokiaKept
  <2>3. CASE Done(g)
    <3>1. TypeOK' BY <1>1, <1>3, <2>1, <2>3, DoneRun DEF IInv, TypeOK, healthVars
    <3> QED BY <1>1, <2>2, <2>3, <3>1, EndStep
  <2>4. CASE Goto(g, "list") /\ UNCHANGED sem
    <3>1. TypeOK' BY <1>1, <1>3, <2>1, <2>4 DEF IInv, TypeOK, healthVars
    <3> QED BY <1>1, <2>2, <2>4, <3>1, GotoStep
  <2> QED BY <2>1, <2>3, <2>4
<1>5. CASE run[g].todo # {}
  <2>1. PICK h \in run[g].todo :
          /\ \/ items' = [items EXCEPT ![Subject(g)][h] = run[g].scan]
             \/ UNCHANGED items
          /\ run' = [run EXCEPT ![g].todo = run[g].todo \ {h}]
          /\ UNCHANGED sem
    BY <1>5 DEF ReplaceByHost
  <2> DEFINE todo == run[g].todo \ {h}
             r == [run[g] EXCEPT !.todo = todo]
  <2>2. todo \subseteq run[g].todo /\ todo \subseteq Host BY <1>1 DEF RunRecord
  <2>3. run' = [run EXCEPT ![g] = r] BY <2>1
  <2> HIDE DEF todo
  <2>4. /\ r \in RunRecord /\ r.pc = run[g].pc /\ r.kind = run[g].kind
        /\ r.scan = run[g].scan /\ r.got = run[g].got /\ r.todo = todo
        /\ r.pairs = run[g].pairs
    BY <1>1, <2>2 DEF RunRecord
  <2> HIDE DEF r
  <2>5. run'[g] = r BY <2>3 DEF IInv
  <2>6. RunInv(g)'
    BY <1>1, <2>2, <2>4, <2>5 DEF RunInv, At, Vendor, Collected, Targets
  <2>7. SameScan(g) /\ SemMove(g)
    BY <1>1, <2>1, <2>4, <2>5 DEF SameScan, SemMove, At, Vendor, Collected
  <2>8. RunningNokia(g)' => sem' = g
    <3>1. RunningNokia(g)' => RunningNokia(g)
      BY <2>4, <2>5 DEF RunningNokia, Running, At, Vendor
    <3> QED BY <2>1, <3>1 DEF IInv, SemInv
  <2>9. /\ items' \in [Stock -> [Host -> 0 .. MaxScans]]
        /\ \A w \in Stock, i \in Host :
             items'[w][i] = items[w][i] \/ (i = h /\ items'[w][i] = run[g].scan)
    <3> DEFINE w0 == Subject(g)
               n == run[g].scan
               e == [items[w0] EXCEPT ![h] = n]
    <3>1. UNCHANGED items \/ items' = [items EXCEPT ![w0] = e] BY <2>1
    <3>2. w0 \in Stock => /\ e \in [Host -> 0 .. MaxScans]
                         /\ \A i \in Host : e[i] = items[w0][i] \/ (i = h /\ e[i] = n)
      BY <1>2
    <3> HIDE DEF e, w0
    <3> QED BY <1>2, <3>1, <3>2
  <2>10. h \in run[g].got BY <1>1, <2>1 DEF RunInv
  <2>11. NokiaTables(g)
    <3>1. \A w \in Stock, i \in Nokia : Keeps(g, items[w][i], items'[w][i])
      BY <1>1, <2>9, <2>10, WritesAnswers, ZenonT(60) DEF Keeps, Host
    <3> QED BY <1>1, <3>1 DEF NokiaTables, KeepsOrErases, Keeps
  <2>12. TypeOK' BY <1>1, <1>3, <2>1, <2>9 DEF IInv, TypeOK, healthVars
  <2> QED BY <1>1, <2>3, <2>4, <2>6, <2>7, <2>8, <2>11, <2>12, TableStep
<1> QED BY <1>4, <1>5

LEMMA SaveOltInventoryStep ==
    ASSUME IInv, NEW g \in Goroutine, SaveOltInventory(g) PROVE IInv' /\ NotOlder
<1>1. /\ At(g) = "list" /\ Collected(g) /\ Running(g) /\ run[g].pairs = {} /\ RunInv(g)
      /\ run[g] \in RunRecord /\ Goto(g, "summary")
      /\ UNCHANGED <<rows, health, items, summary, healthVars, sem, scans>>
  BY DEF SaveOltInventory, Collected, Running, IInv, RunInv
<1>2. faults' \in 0 .. MaxFaults /\ stops' \in 0 .. MaxFaults
  BY StepBounds DEF SaveOltInventory
<1>3. listed' \subseteq Host \X Scan
  <2>1. listed' = listed \/ listed' = listed \cup {<<h, run[g].scan>> : h \in run[g].got}
    BY DEF SaveOltInventory
  <2>2. run[g].scan \in Scan /\ run[g].got \subseteq Host
    BY <1>1, Bounds DEF RunInv, RunRecord, Scan
  <2> QED BY <2>1, <2>2 DEF IInv, TypeOK
<1>4. TypeOK' BY <1>1, <1>2, <1>3 DEF IInv, TypeOK, healthVars
<1> QED BY <1>1, <1>4, GotoStep, NokiaKept

LEMMA SaveSummaryStep ==
    ASSUME IInv, NEW g \in Goroutine, SaveSummary(g) PROVE IInv' /\ NotOlder
<1>1. /\ run[g].pairs = {} /\ Done(g)
      /\ UNCHANGED <<rows, health, items, listed, healthVars, scans>>
  BY DEF SaveSummary, IInv, RunInv
<1>2. faults' \in 0 .. MaxFaults /\ stops' \in 0 .. MaxFaults BY StepBounds DEF SaveSummary
<1>3. TypeOK' BY <1>1, <1>2, DoneRun DEF IInv, TypeOK, healthVars
<1> QED BY <1>1, <1>3, EndStep, NokiaKept
-----------------------------------------------------------------------------
(* The buffer and the history of health *)

LEMMA Buffers ==
    ASSUME NEW hist, NEW known \in SUBSET (Nat \ {0}), NEW s \in Nat \ {0},
           \A n \in known : n < s, Consistent(hist, {}, 0, known)
    PROVE  Consistent(hist, {}, s, known \cup {s})
<1>1. \A e \in hist : e \subseteq known /\ s \notin e BY DEF Consistent
<1>2. \A n \in known \cup {s} : n <= s BY DEF Consistent
<1>3. \A n \in known : \E e \in hist : n \in e BY DEF Consistent
<1>4. ASSUME NEW e \in hist, NEW m \in e, NEW n \in e
      PROVE  ~ \E k \in known \cup {s} : m < k /\ k < n
  <2>1. ~ \E k \in known : m < k /\ k < n BY DEF Consistent
  <2>2. n < s /\ n \in Nat BY <1>1
  <2> QED BY <2>1, <2>2
<1>5. \A d, e \in hist : d = e \/ d \cap e = {} BY DEF Consistent
<1> QED BY <1>1, <1>2, <1>3, <1>4, <1>5 DEF Consistent

LEMMA PairsUp ==
    ASSUME NEW hist, NEW known \in SUBSET (Nat \ {0}), NEW s \in Nat \ {0},
           NEW b \in Nat \ {0},
           \A n \in known : n < s, Consistent(hist, {}, b, known)
    PROVE  Consistent(hist, {{b, s}}, 0, known \cup {s})
<1> DEFINE all == hist \cup {{b, s}}
           known2 == known \cup {s}
<1>1. /\ b \in known /\ \A e \in hist : b \notin e /\ s \notin e /\ e \subseteq known
      /\ \A n \in known : n <= b
  BY DEF Consistent
<1>2. \A e \in all : e \subseteq known2 BY <1>1
<1>3. \A d, e \in all : d = e \/ d \cap e = {} BY <1>1 DEF Consistent
<1>4. \A d \in hist, e \in {{b, s}} : d \cap e = {} BY <1>1
<1>5. \A n \in known2 : n = 0 \/ \E e \in all : n \in e
  <2>1. ASSUME NEW n \in known, n # b PROVE \E e \in all : n \in e
    BY <2>1 DEF Consistent
  <2>2. {b, s} \in all OBVIOUS
  <2> QED BY <2>1, <2>2
<1>6. \A e \in all : \A m, n \in e : ~ \E k \in known2 : m < k /\ k < n
  <2>1. ASSUME NEW e \in hist, NEW m \in e, NEW n \in e
        PROVE  ~ \E k \in known2 : m < k /\ k < n
    <3>1. ~ \E k \in known : m < k /\ k < n BY DEF Consistent
    <3>2. n < s /\ n \in Nat BY <1>1
    <3> QED BY <3>1, <3>2
  <2>2. \A m, n \in {b, s} : ~ \E k \in known2 : m < k /\ k < n BY <1>1
  <2> QED BY <2>1, <2>2
<1> QED BY <1>2, <1>3, <1>4, <1>5, <1>6 DEF Consistent

LEMMA Arrives ==
    ASSUME NEW hist, NEW wait, NEW last, NEW known, Consistent(hist, wait, last, known)
    PROVE  Consistent(hist \cup wait, {}, last, known)
  BY DEF Consistent

LEMMA Drops ==
    ASSUME NEW hist, NEW wait, NEW last, NEW known, Consistent(hist, wait, last, known)
    PROVE  Consistent(hist, {}, last, known \ UNION wait)
<1>1. \A e \in hist : e \cap UNION wait = {} BY DEF Consistent
<1>2. last # 0 => last \notin UNION wait BY DEF Consistent
<1> QED BY <1>1, <1>2 DEF Consistent

LEMMA Flushes ==
    ASSUME NEW hist, NEW wait, NEW known \in SUBSET (Nat \ {0}), NEW b \in Nat \ {0},
           Consistent(hist, wait, b, known)
    PROVE  Consistent(hist \cup {{b}}, wait, 0, known)
<1> DEFINE hist2 == hist \cup {{b}}
           all == hist2 \cup wait
<1>1. b \in known /\ \A e \in hist \cup wait : b \notin e BY DEF Consistent
<1>2. all = (hist \cup wait) \cup {{b}} OBVIOUS
<1>3. \A e \in all : e \subseteq known BY <1>1, <1>2 DEF Consistent
<1>4. \A d, e \in all : d = e \/ d \cap e = {} BY <1>1, <1>2 DEF Consistent
<1>5. \A d \in hist2, e \in wait : d \cap e = {} BY <1>1 DEF Consistent
<1>6. \A n \in known : n = 0 \/ \E e \in all : n \in e
  <2>1. ASSUME NEW n \in known, n # b PROVE \E e \in all : n \in e
    BY <1>2, <2>1 DEF Consistent
  <2> QED BY <1>2, <2>1
<1>7. \A e \in all : \A m, n \in e : ~ \E k \in known : m < k /\ k < n
  <2>1. \A m, n \in {b} : ~ \E k \in known : m < k /\ k < n OBVIOUS
  <2> QED BY <1>2, <2>1 DEF Consistent
<1> HIDE DEF all, hist2
<1>8. all = hist2 \cup wait BY DEF all
<1>9. Consistent(hist2, wait, 0, known)
  BY <1>3, <1>4, <1>5, <1>6, <1>7, <1>8 DEF Consistent
<1> QED BY <1>9 DEF hist2

LEMMA Forgets ==
    ASSUME NEW hist, NEW wait, NEW known \in SUBSET (Nat \ {0}), NEW b \in Nat,
           Consistent(hist, wait, b, known)
    PROVE  Consistent(hist, wait, 0, known \ ({b} \ {0}))
  BY DEF Consistent

LEMMA SnapshotTypes ==
    ASSUME IInv, NEW h \in Nokia
    PROVE  /\ Known(h) \in SUBSET (Nat \ {0}) /\ buffer[h] \in Nat
           /\ Consistent(history[h], Waiting(h), buffer[h], Known(h))
           /\ lost[h] \subseteq measured[h] /\ measured[h] \subseteq Scan
<1>1. measured[h] \in SUBSET Scan /\ buffer[h] \in Nat /\ Scan \subseteq Nat \ {0}
  BY OltScansAssumption DEF IInv, TypeOK, Scan
<1>2. SnapshotInv(h) BY DEF IInv
<1>3. Known(h) \subseteq measured[h] BY DEF Known
<1> QED BY <1>1, <1>2, <1>3 DEF SnapshotInv

(* Only the Nokia scan that runs has entries on their way.                  *)
LEMMA OnlyWaiting ==
    ASSUME IInv, NEW g \in Goroutine, At(g) \in {"buffer", "insert"}
    PROVE  /\ RunningNokia(g)
           /\ \A k \in Goroutine : k # g => run[k].pairs = {}
           /\ \A h \in Nokia : Waiting(h) = Pairs(g, h)
<1>1. RunningNokia(g) BY DEF IInv, RunInv, RunningNokia, Running
<1>2. ASSUME NEW k \in Goroutine, k # g PROVE run[k].pairs = {}
  <2>1. At(k) # "insert"
    <3>1. SUFFICES ASSUME At(k) = "insert" PROVE FALSE OBVIOUS
    <3>2. RunningNokia(k) BY <3>1 DEF IInv, RunInv, RunningNokia, Running
    <3> QED BY <1>1, <1>2, <3>2, OneNokia DEF OneNokiaScan
  <2> QED BY <2>1 DEF IInv, RunInv
<1>3. ASSUME NEW h \in Nokia PROVE Waiting(h) = Pairs(g, h)
  BY <1>2 DEF Waiting, Pairs
<1> QED BY <1>1, <1>2, <1>3

LEMMA TablesNotOlder == ASSUME IInv, UNCHANGED tables PROVE NotOlder
  BY Bounds DEF NotOlder, tables

LEMMA PairSnapshotsStep ==
    ASSUME IInv, NEW g \in Goroutine, PairSnapshots(g) PROVE IInv' /\ NotOlder
<1> DEFINE s == run[g].scan
           ps == {<<h, {buffer[h], s}>> : h \in {k \in run[g].got : buffer[k] # 0}}
           r == [run[g] EXCEPT !.pc = "insert", !.pairs = ps]
<1>1. /\ At(g) = "buffer" /\ Collected(g) /\ RunInv(g) /\ Vendor(g) = "nokia"
      /\ run[g].pairs = {} /\ run[g] \in RunRecord /\ s \in Scan /\ s \in 0 .. MaxScans
      /\ run[g].got \subseteq Nokia /\ RunningNokia(g) /\ sem = g
      /\ MeasuredBefore(s) /\ run \in [Goroutine -> RunRecord]
      /\ UNCHANGED <<tables, history, lost, sem, scans, bounds>>
  BY Bounds DEF PairSnapshots, Collected, IInv, RunInv, ScanInv, Targets, Scan, RunningNokia,
                Running, SemInv
<1>2. run' = [run EXCEPT ![g] = r] BY DEF PairSnapshots
<1>3. ps \in SUBSET (Nokia \X SUBSET Scan)
  <2>1. \A h \in Nokia : buffer[h] # 0 => buffer[h] \in Scan BY DEF IInv, TypeOK, Scan
  <2> QED BY <1>1, <2>1
<1>4. \A h \in Nokia : {p[2] : p \in {q \in ps : q[1] = h}} =
                       IF h \in run[g].got /\ buffer[h] # 0 THEN {{buffer[h], s}} ELSE {}
  <2>1. ASSUME NEW h \in Nokia
        PROVE  {q \in ps : q[1] = h} = IF h \in run[g].got /\ buffer[h] # 0
                                      THEN {<<h, {buffer[h], s}>>} ELSE {}
    OBVIOUS
  <2> HIDE DEF ps
  <2>2. ASSUME NEW h \in Nokia, NEW q, {p \in ps : p[1] = h} = {q}
        PROVE  {p[2] : p \in {u \in ps : u[1] = h}} = {q[2]}
    BY <2>2
  <2> QED BY <2>1, <2>2, ZenonT(60)
<1> HIDE DEF ps
<1>5. /\ r \in RunRecord /\ r.pc = "insert" /\ r.kind = run[g].kind /\ r.scan = s
      /\ r.got = run[g].got /\ r.todo = run[g].todo /\ r.pairs = ps
  BY <1>1, <1>3 DEF RunRecord
<1> HIDE DEF r
<1>6. run' \in [Goroutine -> RunRecord] /\ OnlyRun(g) /\ run'[g] = r
  BY <1>1, <1>2, <1>5 DEF OnlyRun
<1>7. /\ buffer' = [h \in Nokia |-> IF h \notin run[g].got THEN buffer[h]
                                    ELSE IF buffer[h] = 0 THEN s ELSE 0]
      /\ measured' = [h \in Nokia |-> IF h \in run[g].got THEN measured[h] \cup {s}
                                      ELSE measured[h]]
  BY DEF PairSnapshots, Buffered
<1>8. TypeOK'
  <2>1. buffer' \in [Nokia -> 0 .. MaxScans]
    <3>1. ASSUME NEW h \in Nokia PROVE buffer'[h] \in 0 .. MaxScans
      BY <1>1, <1>7, Bounds DEF IInv, TypeOK
    <3> QED BY <1>7, <3>1
  <2>2. measured' \in [Nokia -> SUBSET Scan] BY <1>1, <1>7 DEF IInv, TypeOK
  <2> QED BY <1>1, <2>1, <2>2 DEF IInv, TypeOK, tables, bounds
<1>9. \A k \in Goroutine : RunInv(k)'
  <2>1. RunInv(g)' BY <1>1, <1>5, <1>6 DEF RunInv, At, Vendor, Collected, Targets
  <2> QED BY <1>1, <1>6, <2>1, Bounds, RunsKept
<1>10. SemInv' BY <1>1, <1>6, SemKept DEF SemMove
<1>11. ScanInv'
  <2>1. ScanInv /\ s < scans + 1 BY <1>1, Bounds DEF IInv, RunInv
  <2>2. StoredUpTo(scans)' BY <1>1, <2>1 DEF ScanInv, StoredUpTo, tables
  <2>3. MeasuredBefore(scans + 1)' BY <1>1, <1>7, <2>1 DEF ScanInv, MeasuredBefore
  <2>4. ASSUME NEW k \in Goroutine, Collected(k)', Vendor(k)' = "nokia"
        PROVE  StoredUpTo(run[k].scan)' /\ At(k)' \notin {"write", "buffer"}
    <3>1. CASE k = g
      BY <1>1, <1>5, <1>6, <3>1, <2>1 DEF ScanInv, StoredUpTo, tables, At
    <3>2. CASE k # g
      <4>1. Collected(k) /\ Vendor(k) = "nokia"
        BY <1>6, <2>4, <3>2 DEF OnlyRun, Collected, At, Vendor
      <4> QED BY <1>1, <3>2, <4>1, CollectedRuns, OneNokia DEF OneNokiaScan
    <3> QED BY <3>1, <3>2
  <2> QED BY <2>2, <2>3, <2>4 DEF ScanInv
<1>12. ASSUME NEW h \in Nokia PROVE SnapshotInv(h)'
  <2>1. /\ Known(h) \in SUBSET (Nat \ {0}) /\ buffer[h] \in Nat /\ Waiting(h) = {}
        /\ Consistent(history[h], {}, buffer[h], Known(h))
        /\ lost[h] \subseteq measured[h]
    <3>1. Pairs(g, h) = {} BY <1>1 DEF Pairs
    <3>2. Waiting(h) = {} BY <1>1, <3>1, OnlyWaiting
    <3> QED BY <3>2, SnapshotTypes
  <2>2. Waiting(h)' = IF h \in run[g].got /\ buffer[h] # 0 THEN {{buffer[h], s}} ELSE {}
    <3>1. \A k \in Goroutine : k # g => Pairs(k, h)' = {}
      BY <1>1, <1>6, OnlyWaiting DEF OnlyRun, Pairs
    <3>2. Pairs(g, h)' = {p[2] : p \in {q \in ps : q[1] = h}}
      BY <1>5, <1>6 DEF Pairs
    <3>3. Waiting(h)' = Pairs(g, h)' BY <3>1 DEF Waiting
    <3> QED BY <1>4, <3>2, <3>3
  <2>3. s \in Nat \ {0} /\ \A n \in Known(h) : n < s
    BY <1>1 DEF Scan, MeasuredBefore, Known
  <2>4. s \notin lost[h] BY <1>1, <2>1 DEF MeasuredBefore, Scan
  <2>5. history'[h] = history[h] /\ lost'[h] = lost[h] BY <1>1
  <2>6. CASE h \notin run[g].got
    <3>1. Known(h)' = Known(h) /\ buffer'[h] = buffer[h] /\ measured'[h] = measured[h]
      <4>1. buffer'[h] = buffer[h] BY <1>7, <2>6
      <4>2. measured'[h] = measured[h] BY <1>7, <2>6
      <4> QED BY <2>5, <4>1, <4>2 DEF Known
    <3> QED BY <2>1, <2>2, <2>5, <2>6, <3>1 DEF SnapshotInv
  <2>7. CASE h \in run[g].got
    <3>1. Known(h)' = Known(h) \cup {s} /\ lost'[h] \subseteq measured'[h]
      BY <1>7, <2>1, <2>4, <2>5, <2>7 DEF Known
    <3>2. CASE buffer[h] = 0
      <4>1. buffer'[h] = s BY <1>7, <2>7, <3>2
      <4>2. Consistent(history[h], {}, s, Known(h) \cup {s}) BY <2>1, <2>3, <3>2, Buffers
      <4> QED BY <2>2, <2>5, <3>1, <3>2, <4>1, <4>2 DEF SnapshotInv
    <3>3. CASE buffer[h] # 0
      <4>1. buffer'[h] = 0 BY <1>7, <2>7, <3>3
      <4>2. Consistent(history[h], {{buffer[h], s}}, 0, Known(h) \cup {s})
        BY <2>1, <2>3, <3>3, PairsUp
      <4> QED BY <2>2, <2>5, <2>7, <3>1, <3>3, <4>1, <4>2 DEF SnapshotInv
    <3> QED BY <3>2, <3>3
  <2> QED BY <2>6, <2>7
<1> QED BY <1>1, <1>6, <1>8, <1>9, <1>10, <1>11, <1>12, TablesNotOlder DEF IInv

(* A step that writes no table: scans end, or none does.                    *)
LEMMA RestKept ==
    ASSUME IInv, UNCHANGED <<tables, measured, scans>>,
           \A k \in Goroutine : run'[k] = run[k] \/ run'[k] = Idle,
           \A k \in Goroutine : RunningNokia(k)' => sem' = sem
    PROVE  (\A k \in Goroutine : RunInv(k)') /\ SemInv' /\ ScanInv' /\ NotOlder
<1>1. ASSUME NEW k \in Goroutine, At(k)' # "idle" PROVE run'[k] = run[k]
  BY <1>1, IdleRecord DEF At
<1>2. ASSUME NEW k \in Goroutine PROVE RunInv(k)'
  <2>1. CASE run'[k] = run[k]
    BY <2>1 DEF IInv, RunInv, At, Vendor, Collected, Targets
  <2>2. CASE run'[k] = Idle
    BY <2>2, IdleRecord DEF RunInv, At, Collected
  <2> QED BY <2>1, <2>2
<1>3. SemInv'
  <2>1. ASSUME NEW k \in Goroutine, RunningNokia(k)' PROVE RunningNokia(k)
    BY <1>1, <2>1 DEF RunningNokia, Running, At, Vendor
  <2> QED BY <2>1 DEF IInv, SemInv
<1>4. ScanInv'
  <2>1. ASSUME NEW k \in Goroutine, Collected(k)'
        PROVE  run'[k] = run[k] /\ Collected(k) /\ At(k)' = At(k) /\ Vendor(k)' = Vendor(k)
    BY <1>1, <2>1 DEF Collected, At, Vendor
  <2> QED BY <2>1 DEF IInv, ScanInv, StoredUpTo, MeasuredBefore, tables
<1>5. NotOlder BY TablesNotOlder
<1> QED BY <1>2, <1>3, <1>4, <1>5

LEMMA StutterStep == ASSUME IInv, UNCHANGED vars PROVE IInv' /\ NotOlder
<1>1. (\A k \in Goroutine : RunInv(k)') /\ SemInv' /\ ScanInv' /\ NotOlder
  BY RestKept DEF vars, healthVars
<1>2. \A h \in Nokia : SnapshotInv(h)' BY SnapshotsKept DEF vars
<1>3. TypeOK' BY DEF IInv, TypeOK, vars, tables, healthVars, bounds
<1> QED BY <1>1, <1>2, <1>3 DEF IInv, vars

LEMMA InsertHistoryStep ==
    ASSUME IInv, NEW g \in Goroutine, InsertHistory(g) PROVE IInv' /\ NotOlder
<1>1. /\ At(g) = "insert" /\ Done(g) /\ run \in [Goroutine -> RunRecord]
      /\ UNCHANGED <<tables, buffer, measured, scans>>
  BY DEF InsertHistory, IInv
<1>2. \/ history' = [h \in Nokia |-> history[h] \cup Pairs(g, h)] /\ UNCHANGED lost
      \/ /\ lost' = [h \in Nokia |-> lost[h] \cup UNION Pairs(g, h)]
         /\ UNCHANGED history
  BY DEF InsertHistory
<1>3. faults' \in 0 .. MaxFaults /\ stops' \in 0 .. MaxFaults
  BY StepBounds DEF InsertHistory
<1>4. run' \in [Goroutine -> RunRecord] /\ OnlyRun(g) /\ run'[g] = Idle
  BY <1>1, IdleRecord, DoneRun DEF OnlyRun
<1>5. /\ RunningNokia(g)
      /\ \A k \in Goroutine : k # g => run[k].pairs = {}
      /\ \A h \in Nokia : Waiting(h) = Pairs(g, h)
  BY <1>1, OnlyWaiting
<1>6. (\A k \in Goroutine : RunInv(k)') /\ SemInv' /\ ScanInv' /\ NotOlder
  <2>1. ASSUME NEW k \in Goroutine, RunningNokia(k)' PROVE sem' = sem
    <3>1. k # g BY <1>4, <2>1, IdleRecord DEF RunningNokia, Running, At
    <3>2. RunningNokia(k) BY <1>4, <2>1, <3>1 DEF OnlyRun, RunningNokia, Running, At, Vendor
    <3> QED BY <1>5, <3>1, <3>2, OneNokia DEF OneNokiaScan
  <2> QED BY <1>1, <1>4, <2>1, RestKept DEF OnlyRun
<1>7. ASSUME NEW h \in Nokia
      PROVE  /\ Waiting(h)' = {} /\ history[h] \in SUBSET SUBSET Scan
             /\ Pairs(g, h) \in SUBSET SUBSET Scan
             /\ UNION Pairs(g, h) \subseteq measured[h]
  <2>1. \A k \in Goroutine : Pairs(k, h)' = {}
    BY <1>4, <1>5, IdleRecord DEF OnlyRun, Pairs
  <2>2. Waiting(h)' = {} BY <2>1 DEF Waiting
  <2>3. \A e \in Pairs(g, h) : e \subseteq measured[h]
    BY <1>5, SnapshotTypes DEF Consistent, Known
  <2> QED BY <2>2, <2>3, SnapshotTypes DEF IInv, TypeOK
<1>8. TypeOK'
  <2>1. history' \in [Nokia -> SUBSET SUBSET Scan] BY <1>2, <1>7 DEF IInv, TypeOK
  <2>2. lost' \in [Nokia -> SUBSET Scan] BY <1>2, <1>7 DEF IInv, TypeOK
  <2> QED BY <1>1, <1>3, <2>1, <2>2, DoneRun DEF IInv, TypeOK, tables
<1>9. ASSUME NEW h \in Nokia PROVE SnapshotInv(h)'
  <2>1. /\ Consistent(history[h], Pairs(g, h), buffer[h], Known(h))
        /\ lost[h] \subseteq measured[h]
    BY <1>5, SnapshotTypes
  <2>2. buffer'[h] = buffer[h] /\ measured'[h] = measured[h] BY <1>1
  <2>3. CASE history' = [i \in Nokia |-> history[i] \cup Pairs(g, i)] /\ UNCHANGED lost
    <3>1. history'[h] = history[h] \cup Pairs(g, h) /\ Known(h)' = Known(h)
      BY <1>1, <2>3 DEF Known
    <3>2. Consistent(history[h] \cup Pairs(g, h), {}, buffer[h], Known(h))
      BY <2>1, Arrives
    <3> QED BY <1>7, <2>1, <2>2, <2>3, <3>1, <3>2 DEF SnapshotInv
  <2>4. CASE /\ lost' = [i \in Nokia |-> lost[i] \cup UNION Pairs(g, i)]
             /\ UNCHANGED history
    <3>1. lost'[h] = lost[h] \cup UNION Pairs(g, h) BY <2>4
    <3>2. Known(h)' = Known(h) \ UNION Pairs(g, h) BY <2>2, <3>1 DEF Known
    <3>3. Consistent(history[h], {}, buffer[h], Known(h) \ UNION Pairs(g, h))
      BY <2>1, Drops
    <3> QED BY <1>7, <2>1, <2>2, <2>4, <3>1, <3>2, <3>3 DEF SnapshotInv
  <2> QED BY <1>2, <2>3, <2>4
<1> QED BY <1>4, <1>6, <1>8, <1>9 DEF IInv

LEMMA FlushHealthBufferStep ==
    ASSUME IInv, FlushHealthBuffer PROVE IInv' /\ NotOlder
<1>1. PICK unsaved \in SUBSET {h \in Nokia : buffer[h] # 0} :
        /\ Works \/ Fails
        /\ history' = [h \in Nokia |->
              IF buffer[h] # 0 /\ h \notin unsaved THEN history[h] \cup {{buffer[h]}}
              ELSE history[h]]
        /\ lost' = [h \in Nokia |-> IF h \in unsaved THEN lost[h] \cup {buffer[h]}
                                    ELSE lost[h]]
  BY DEF FlushHealthBuffer
<1>2. /\ buffer' = [h \in Nokia |-> 0]
      /\ UNCHANGED <<tables, measured, run, sem, scans>>
  BY DEF FlushHealthBuffer
<1>3. faults' \in 0 .. MaxFaults /\ stops' \in 0 .. MaxFaults BY <1>1, StepBounds
<1>4. (\A k \in Goroutine : RunInv(k)') /\ SemInv' /\ ScanInv' /\ NotOlder
  BY <1>2, RestKept
<1>5. \A h \in Nokia : /\ buffer[h] # 0 => buffer[h] \in Scan
                       /\ history[h] \in SUBSET SUBSET Scan /\ lost[h] \in SUBSET Scan
  BY DEF IInv, TypeOK, Scan
<1>6. TypeOK'
  <2>1. history' \in [Nokia -> SUBSET SUBSET Scan] BY <1>1, <1>5
  <2>2. lost' \in [Nokia -> SUBSET Scan] BY <1>1, <1>5
  <2>3. buffer' \in [Nokia -> 0 .. MaxScans] BY <1>2, Bounds
  <2> QED BY <1>2, <1>3, <2>1, <2>2, <2>3 DEF IInv, TypeOK, tables
<1>7. ASSUME NEW h \in Nokia PROVE SnapshotInv(h)'
  <2>1. /\ Consistent(history[h], Waiting(h), buffer[h], Known(h))
        /\ Known(h) \in SUBSET (Nat \ {0}) /\ buffer[h] \in Nat
        /\ lost[h] \subseteq measured[h]
    BY SnapshotTypes
  <2>2. Waiting(h)' = Waiting(h) BY <1>2 DEF Waiting, Pairs
  <2>3. buffer'[h] = 0 /\ measured'[h] = measured[h] BY <1>2
  <2>4. CASE buffer[h] = 0
    <3>1. history'[h] = history[h] /\ lost'[h] = lost[h] BY <1>1, <2>4
    <3> QED BY <2>1, <2>2, <2>3, <2>4, <3>1 DEF SnapshotInv, Known
  <2>5. CASE buffer[h] # 0 /\ h \notin unsaved
    <3>1. history'[h] = history[h] \cup {{buffer[h]}} /\ lost'[h] = lost[h] BY <1>1, <2>5
    <3>2. Known(h)' = Known(h) BY <2>3, <3>1 DEF Known
    <3>3. Consistent(history[h] \cup {{buffer[h]}}, Waiting(h), 0, Known(h))
      BY <2>1, <2>5, Flushes
    <3> QED BY <2>1, <2>2, <2>3, <3>1, <3>2, <3>3 DEF SnapshotInv
  <2>6. CASE h \in unsaved
    <3>1. history'[h] = history[h] /\ lost'[h] = lost[h] \cup {buffer[h]} /\ buffer[h] # 0
      BY <1>1, <2>6
    <3>2. Known(h)' = Known(h) \ ({buffer[h]} \ {0}) BY <2>3, <3>1 DEF Known
    <3>3. Consistent(history[h], Waiting(h), 0, Known(h) \ ({buffer[h]} \ {0}))
      BY <2>1, Forgets
    <3>4. buffer[h] \in measured[h] BY <2>1, <3>1 DEF Consistent, Known
    <3> QED BY <2>1, <2>2, <2>3, <3>1, <3>2, <3>3, <3>4 DEF SnapshotInv
  <2> QED BY <2>4, <2>5, <2>6
<1>8. run' \in [Goroutine -> RunRecord] BY <1>2 DEF IInv
<1> QED BY <1>4, <1>6, <1>7, <1>8 DEF IInv

LEMMA ExitStep == ASSUME IInv, Exit PROVE IInv' /\ NotOlder
<1>1. /\ buffer' = [h \in Nokia |-> 0] /\ run' = [g \in Goroutine |-> Idle] /\ sem' = None
      /\ UNCHANGED <<tables, history, measured, scans, faults>>
  BY DEF Exit
<1>2. stops' \in 0 .. MaxFaults
  BY OltScansAssumption DEF Exit, IInv, TypeOK
<1>3. \A h \in Nokia : lost'[h] = lost[h] \cup ({buffer[h]} \ {0}) \cup UNION Waiting(h)
  BY DEF Exit, Waiting
<1>4. \A k \in Goroutine : ~RunningNokia(k)'
  BY <1>1, IdleRecord DEF RunningNokia, Running, At
<1>5. (\A k \in Goroutine : RunInv(k)') /\ SemInv' /\ ScanInv' /\ NotOlder
  BY <1>1, <1>4, RestKept
<1>6. ASSUME NEW h \in Nokia PROVE SnapshotInv(h)' /\ lost'[h] \subseteq Scan
  <2>1. /\ Consistent(history[h], Waiting(h), buffer[h], Known(h))
        /\ Known(h) \in SUBSET (Nat \ {0}) /\ buffer[h] \in Nat
        /\ lost[h] \subseteq measured[h] /\ measured[h] \subseteq Scan
    BY SnapshotTypes
  <2>2. Waiting(h)' = {} BY <1>1, IdleRecord DEF Waiting, Pairs
  <2>3. UNION Waiting(h) \subseteq measured[h] /\ ({buffer[h]} \ {0}) \subseteq measured[h]
    <3>1. \A e \in Waiting(h) : e \subseteq Known(h) BY <2>1 DEF Consistent
    <3>2. buffer[h] # 0 => buffer[h] \in Known(h) BY <2>1 DEF Consistent
    <3> QED BY <3>1, <3>2 DEF Known
  <2>4. Known(h)' = (Known(h) \ UNION Waiting(h)) \ ({buffer[h]} \ {0})
    BY <1>1, <1>3 DEF Known
  <2>5. Consistent(history[h], {}, buffer[h], Known(h) \ UNION Waiting(h))
    BY <2>1, Drops
  <2>6. Consistent(history[h], {}, 0, (Known(h) \ UNION Waiting(h)) \ ({buffer[h]} \ {0}))
    BY <2>1, <2>5, Forgets
  <2>7. lost'[h] \subseteq measured'[h] BY <1>1, <1>3, <2>1, <2>3
  <2> QED BY <1>1, <2>1, <2>2, <2>4, <2>6, <2>7 DEF SnapshotInv
<1>7. TypeOK'
  <2>1. lost' \in [Nokia -> SUBSET Scan]
    <3>1. lost' = [h \in Nokia |-> lost'[h]] BY DEF Exit
    <3> QED BY <1>6, <3>1
  <2>2. buffer' \in [Nokia -> 0 .. MaxScans] BY <1>1, Bounds
  <2> QED BY <1>1, <1>2, <2>1, <2>2 DEF IInv, TypeOK, tables
<1>8. run' \in [Goroutine -> RunRecord] BY <1>1, IdleRecord
<1> QED BY <1>5, <1>6, <1>7, <1>8 DEF IInv
-----------------------------------------------------------------------------
LEMMA InitInv == ASSUME Init PROVE IInv
<1>1. TypeOK
  BY OltScansAssumption DEF Init, TypeOK
<1>2. \A g \in Goroutine : run[g] = Idle BY DEF Init
<1>3. run \in [Goroutine -> RunRecord] BY IdleRecord DEF Init
<1>4. \A g \in Goroutine : RunInv(g) /\ ~RunningNokia(g) /\ ~Collected(g)
  BY <1>2, IdleRecord DEF RunInv, At, RunningNokia, Running, Collected
<1>5. SemInv BY <1>4 DEF SemInv
<1>6. ScanInv
  BY <1>4 DEF ScanInv, StoredUpTo, MeasuredBefore, Init, Host
<1>7. ASSUME NEW h \in Nokia PROVE SnapshotInv(h)
  <2>1. Waiting(h) = {} BY <1>2, IdleRecord DEF Waiting, Pairs
  <2>2. history[h] = {} /\ Known(h) = {} /\ buffer[h] = 0 /\ lost[h] = {} BY DEF Init, Known
  <2> QED BY <2>1, <2>2 DEF SnapshotInv, Consistent
<1> QED BY <1>1, <1>3, <1>4, <1>5, <1>6, <1>7 DEF IInv

LEMMA NextInv == ASSUME IInv, Next PROVE IInv' /\ NotOlder
<1>1. ASSUME NEW g \in Goroutine,
             \/ RunPowerScanWork(g) \/ RunDescScanWork(g) \/ RunHealthScanWork(g)
             \/ RunPortScanWork(g) \/ RunInventoryScanWork(g) \/ RunOntInterfaceScanWork(g)
             \/ RunHuaweiHealthScan(g) \/ RunHuaweiPowerScan(g) \/ RunHuaweiPortScan(g)
             \/ RunHuaweiInventoryScan(g)
      PROVE  IInv' /\ NotOlder
  <2>1. \E kind : Collect(g, kind, "write") \/ Collect(g, kind, "items")
    BY <1>1 DEF RunPowerScanWork, RunDescScanWork, RunHealthScanWork, RunPortScanWork,
                RunInventoryScanWork, RunOntInterfaceScanWork, RunHuaweiHealthScan,
                RunHuaweiPowerScan, RunHuaweiPortScan, RunHuaweiInventoryScan
  <2> QED BY <2>1, CollectStep
<1>2. CASE AtRest
  <2>1. UNCHANGED vars BY <1>2 DEF AtRest
  <2> QED BY <2>1, StutterStep
<1> QED BY <1>1, <1>2, CronJobStep, AcquireStep, TryRunStep, EraseStep, ReplaceAllStep,
           DeleteExceptHostsStep, BulkUpsertStep, PairSnapshotsStep, InsertHistoryStep,
           ReplaceByHostStep, SaveOltInventoryStep, SaveSummaryStep,
           FlushHealthBufferStep, ExitStep
        DEF Next

LEMMA InvAlways == Spec => []IInv
<1>1. Init => IInv BY InitInv
<1>2. IInv /\ [Next]_vars => IInv' BY NextInv, StutterStep
<1> QED BY <1>1, <1>2, PTL DEF Spec
-----------------------------------------------------------------------------
(* The tables, the buffer and the history hold only hosts and numbers of   *)
(* scans, whatever overlaps or fails (scheduler.go).                       *)
THEOREM TypeCorrect == Spec => []TypeOK
<1>1. IInv => TypeOK BY DEF IInv
<1> QED BY <1>1, InvAlways, PTL

(* The semaphore of one lets one Nokia scan at a time past its wait, cron  *)
(* job or request (scheduler.go, scanSem).                                 *)
THEOREM NokiaScansTakeTurns == Spec => []OneNokiaScan
<1>1. IInv => OneNokiaScan BY OneNokia
<1> QED BY <1>1, InvAlways, PTL

(* No step puts an older reading of a Nokia OLT over a newer one, in any   *)
(* of the tables: what a scan writes is newer than all that is stored, as  *)
(* no other scan came between its collection and its writes.               *)
THEOREM ReadingsNeverGoBack == Spec => NeverOlder
<1>1. IInv /\ [Next]_vars => [NotOlder]_vars BY NextInv
<1>2. Spec => [][NotOlder]_vars BY <1>1, InvAlways, PTL DEF Spec
<1> QED BY <1>2 DEF NeverOlder, NotOlder

(* Every health snapshot that no failure took is in one entry of the       *)
(* history, in the buffer or about to be inserted, and an entry averages   *)
(* neighbours: a flush, a missed scan or a restart changes nothing of that *)
(* (healthBuf in scheduler.go).                                            *)
THEOREM SnapshotsKeepTheirPlace == Spec => []EachSnapshotOnce
<1>1. ASSUME IInv, NEW h \in Nokia, NEW n \in measured[h] \ lost[h]
      PROVE  Cardinality({e \in Places(h) : n \in e}) = 1
  <2>1. Consistent(history[h], Waiting(h), buffer[h], Known(h)) /\ n \in Known(h) /\ n # 0
    BY <1>1, SnapshotTypes DEF Known
  <2>2. Places(h) = history[h] \cup Waiting(h)
                      \cup (IF buffer[h] = 0 THEN {} ELSE {{buffer[h]}})
    BY DEF Places, Waiting
  <2>3. \E e \in Places(h) : n \in e
    BY <2>1, <2>2 DEF Consistent
  <2>4. \A d, e \in Places(h) : n \in d /\ n \in e => d = e
    <3> DEFINE all == history[h] \cup Waiting(h)
    <3>1. \A d, e \in all : n \in d /\ n \in e => d = e
      BY <2>1 DEF Consistent
    <3>2. \A e \in all : buffer[h] # 0 => buffer[h] \notin e BY <2>1 DEF Consistent
    <3>3. \A e \in Places(h) : e \in all \/ (buffer[h] # 0 /\ e = {buffer[h]}) BY <2>2
    <3> HIDE DEF all
    <3>4. CASE n = buffer[h]
      <4>1. \A e \in Places(h) : n \in e => e = {n} BY <2>1, <3>2, <3>3, <3>4
      <4> QED BY <4>1
    <3>5. CASE n # buffer[h]
      <4>1. \A e \in Places(h) : n \in e => e \in all BY <3>3, <3>5
      <4> QED BY <3>1, <4>1
    <3> QED BY <3>4, <3>5
  <2>5. PICK e \in Places(h) : n \in e BY <2>3
  <2>6. {d \in Places(h) : n \in d} = {e} BY <2>4, <2>5
  <2> QED BY <2>6, FS_Singleton
<1>2. ASSUME IInv, NEW h \in Nokia, NEW e \in history[h], NEW m \in e, NEW n \in e
      PROVE  ~ \E k \in measured[h] \ lost[h] : m < k /\ k < n
  BY <1>2, SnapshotTypes DEF Consistent, Known
<1>3. IInv => EachSnapshotOnce BY <1>1, <1>2 DEF EachSnapshotOnce
<1> QED BY <1>3, InvAlways, PTL
=============================================================================
