---------------------------- MODULE NocData_proofs ----------------------------
(***************************************************************************)
(* Proofs about NocData, for every set of hosts, devices, rows, logins,    *)
(* jobs and collections, every table found at the start and every value of *)
(* the bounds: type correctness, PendingIsCollected, OneRowPerDevice and   *)
(* DeviceKept; and, of AddressRange, that a discovery walks over the hosts *)
(* an exclusion matches.                                                   *)
(*                                                                         *)
(* A pending row is safe while a job will still hand it to a collection:   *)
(* being on the list of rows to reset is no promise.  Two rows of a device *)
(* are cleared by a collection that knows the device, and a row about to   *)
(* be removed is worse than one that stays, in an order of hosts and ids   *)
(* that no step changes.                                                   *)
(***************************************************************************)
EXTENDS NocData, FiniteSetTheorems, TLAPS

(* Ids handed out before n.                                                 *)
Issued(n) == 1 .. n - 1

JobState(n) ==
    [pc : {"idle", "pass", "recover", "collect", "scan", "upsert", "reset", "all", "each"},
     kind : {None, "all", "each"}, hosts : SUBSET Host, host : Host \cup {None},
     id : Issued(n) \cup {None}, range : DeviceRange \cup {None},
     excluded : SUBSET Exclusion, todo : SUBSET Issued(n), ids : SUBSET Issued(n),
     list : [Id -> Row \cup {None}] \cup {None}]

SlotState(n) ==
    [pc : {"idle", "contact", "store", "fail", "match", "remove"}, job : Job \cup {None},
     id : Issued(n) \cup {None}, row : Row \cup {None}, login : Known \cup {None},
     identity : Device \cup {None}, status : Status \cup {None}, extra : SUBSET Issued(n)]

DataTypeOK ==
    /\ TypeOK
    /\ LiveIds \subseteq Issued(fresh)
    /\ job \in [Job -> JobState(fresh)] /\ slot \in [Slot -> SlotState(fresh)]

(* A job's record fits its phase, and the copies a full run listed are of   *)
(* rows on the same hosts.                                                  *)
FitsJob(r) ==
    /\ r.pc = "pass" => /\ r.list \in [Id -> Row \cup {None}]
                        /\ \A id \in r.todo : /\ r.list[id] \in Row
                                              /\ Live(id) => r.list[id].host = rows[id].host
    /\ r.pc = "collect" => r.id \in Issued(fresh)
    /\ r.pc = "reset" => r.kind \in {"all", "each"}
    /\ r.pc \in {"scan", "upsert"} => r.range \in DeviceRange
    /\ r.pc = "upsert" => r.host \in Host

(* So does a collection's: what it has is of the host of its row.           *)
FitsSlot(c) ==
    /\ c.pc \in {"contact", "store", "fail"} => c.id \in Issued(fresh)
    /\ c.pc = "contact" => c.row \in Row /\ (Live(c.id) => c.row.host = rows[c.id].host)
    /\ c.pc = "store" =>
          /\ c.login \in Known /\ c.status \in {"ok", "fail"}
          /\ Live(c.id) => c.identity \in {None, DeviceAt[rows[c.id].host]}
    /\ c.pc \in {"match", "remove"} => c.identity \in Device

IdentityTold ==
    \A id \in LiveIds : rows[id].identity \in {None, DeviceAt[rows[id].host]}

FitInv ==
    /\ \A j \in Job : FitsJob(job[j])
    /\ \A s \in Slot : FitsSlot(slot[s])
    /\ IdentityTold

(* The rows a job will still hand to a collection: not those it only lists  *)
(* to reset them.                                                           *)
Secures(r) ==
    IF r.pc \in {"pass", "scan", "upsert", "each", "all"} THEN r.todo
    ELSE IF r.pc = "collect" THEN {r.id}
    ELSE IF r.pc = "reset" THEN r.ids
    ELSE {}
Handles(c, id) == c.id = id /\ c.pc \in {"contact", "store", "fail"}
Owned(id) ==
    (\E j \in Job : id \in Secures(job[j])) \/ (\E s \in Slot : Handles(slot[s], id))
Pending(id) == id \in LiveIds \ stranded /\ rows[id].status = "pending"
PendingInv == \A id \in Id : Pending(id) => Owned(id)

(* The collection that is about to remove one of two rows of a device knows *)
(* the device.                                                              *)
Clears(c, a, b, device) ==
    /\ c.identity = device
    /\ c.pc = "match" \/ (c.pc = "remove" /\ c.extra \cap {a, b} # {})
OneRowInv ==
    \A a, b \in LiveIds, device \in Device \ leftover :
        a # b /\ SameDevice(a, b, device) => \E s \in Slot : Clears(slot[s], a, b, device)

(* Of a device that nobody deleted, a row about to be removed is of that    *)
(* device, and a better one is there.                                       *)
Better(a, b) ==
    \/ rows[a].host > rows[b].host
    \/ rows[a].host = rows[b].host /\ a < b
BetterKept(id, device) ==
    \E other \in LiveIds : Better(other, id) /\ DeviceAt[rows[other].host] = device
RemovesOthers(c) ==
    \A id \in c.extra \cap LiveIds :
        /\ DeviceAt[rows[id].host] = c.identity
        /\ c.identity \notin dismissed => BetterKept(id, c.identity)
KeptInv == \A s \in Slot : slot[s].pc = "remove" => RemovesOthers(slot[s])

DataInv == DataTypeOK /\ FitInv /\ PendingInv /\ OneRowInv /\ KeptInv
-----------------------------------------------------------------------------
LEMMA NoJobState == ASSUME NEW n \in Nat PROVE NoJob \in JobState(n)
  BY DEF NoJob, JobState

LEMMA NoCollectionState == ASSUME NEW n \in Nat PROVE NoCollection \in SlotState(n)
  BY DEF NoCollection, SlotState

LEMMA StatesGrow ==
    ASSUME NEW m \in Nat, NEW n \in Nat, m <= n
    PROVE  /\ Issued(m) \subseteq Issued(n)
           /\ JobState(m) \subseteq JobState(n) /\ SlotState(m) \subseteq SlotState(n)
<1>1. Issued(m) \subseteq Issued(n) BY DEF Issued
<1>2. JobState(m) \subseteq JobState(n) BY <1>1 DEF JobState
<1>3. SlotState(m) \subseteq SlotState(n) BY <1>1 DEF SlotState
<1> QED BY <1>1, <1>2, <1>3

(* A non-empty set of numbers has a least one.                              *)
LEMMA HasLeast ==
    ASSUME NEW S \in SUBSET Nat, S # {}
    PROVE  \E n \in S : \A m \in S : n <= m
<1> DEFINE R == OpToRel(<, Nat)
<1>1. IsWellFoundedOn(R, Nat) BY NatLessThanWellFounded
<1>2. \A m, n \in Nat : m < n => <<m, n>> \in R BY DEF OpToRel
<1> HIDE DEF R
<1>3. \E n \in S : \A m \in S : ~(<<m, n>> \in R) BY <1>1, WFMin
<1>4. \A m, n \in Nat : ~(m < n) => n <= m OBVIOUS
<1> QED BY <1>2, <1>3, <1>4

LEMMA GoStep ==
    ASSUME DataTypeOK, NEW j \in Job, NEW change, Go(j, change)
    PROVE  /\ job'[j] = change
           /\ \A k \in Job \ {j} : job'[k] = job[k]
           /\ \A n \in Nat : change \in JobState(n) /\ job \in [Job -> JobState(n)]
                                => job' \in [Job -> JobState(n)]
  BY DEF DataTypeOK, Go

LEMMA SlotStep ==
    ASSUME DataTypeOK, NEW s \in Slot, NEW c \in SlotState(fresh),
           slot' = [slot EXCEPT ![s] = c]
    PROVE  /\ slot'[s] = c
           /\ \A t \in Slot \ {s} : slot'[t] = slot[t]
           /\ slot' \in [Slot -> SlotState(fresh)]
  BY DEF DataTypeOK

LEMMA WriteStep ==
    ASSUME DataTypeOK, NEW id \in Issued(fresh), NEW row, Write(id, row),
           Live(id) => row \in Row
    PROVE  /\ rows' \in [Id -> Row \cup {None}] /\ LiveIds' = LiveIds
           /\ Live(id) => rows'[id] = row
           /\ \A other \in Id \ {id} : rows'[other] = rows[other]
           /\ stranded' = stranded \ {id}
<1>1. None \notin Row /\ id \in Id /\ rows \in [Id -> Row \cup {None}]
  BY NocDataAssumption DEF DataTypeOK, TypeOK, Issued, Id
<1> QED BY <1>1 DEF Write, Live, LiveIds
-----------------------------------------------------------------------------
(* The classes of steps.  A job goes on, securing the rows it secured, but  *)
(* for those that are stranded.                                             *)
JobOnly ==
    /\ \E j \in Job, change \in JobState(fresh) :
          /\ Go(j, change)
          /\ FitsJob(change)
          /\ Secures(job[j]) \subseteq Secures(change) \cup stranded'
    /\ stranded \subseteq stranded' /\ stranded' \subseteq Id
    /\ UNCHANGED <<rows, fresh, slot, excluded, logins, leftover, dismissed>>

(* A job makes a row pending and secures it.                                *)
Repends(id, row) ==
    /\ row \in Row /\ row.host = rows[id].host
    /\ row.status = "pending" /\ row.identity \in {None, rows[id].identity}
Resets ==
    /\ \E j \in Job, change \in JobState(fresh), id \in Issued(fresh) : \E row :
          /\ Write(id, row)
          /\ Live(id) => Repends(id, row)
          /\ Go(j, change)
          /\ FitsJob(change)
          /\ Secures(job[j]) \cup {id} \subseteq Secures(change)
    /\ UNCHANGED <<fresh, slot, excluded, logins, leftover, dismissed>>

(* A job makes a row and secures it.                                        *)
Discovers ==
    /\ fresh \in Id /\ fresh' = fresh + 1
    /\ \E j \in Job, change \in JobState(fresh + 1), row \in Row :
          /\ rows' = [rows EXCEPT ![fresh] = row]
          /\ row.status = "pending" /\ row.identity = None
          /\ Go(j, change)
          /\ change.pc = "scan" /\ change.range \in DeviceRange
          /\ Secures(job[j]) \cup {fresh} \subseteq Secures(change)
    /\ UNCHANGED <<slot, excluded, logins, stranded, leftover, dismissed>>

(* Rows are of one host for as long as they are there.                      *)
RowsContinue ==
    \A id \in Issued(fresh) : rows'[id] # None => Live(id) /\ rows'[id].host = rows[id].host

Counted == requests' \in Nat /\ faults' \in Nat /\ crashes' \in Nat

LEMMA Counting ==
    ASSUME TypeOK, Asks \/ Fails \/ Works
    PROVE  Counted
  BY DEF TypeOK, Asks, Fails, Works, bounds, Counted

LEMMA LiveTypes ==
    ASSUME DataTypeOK
    PROVE  /\ fresh \in Nat /\ fresh \in 1 .. MaxRows + 1 /\ MaxRows \in Nat
           /\ Issued(fresh) \subseteq Id /\ LiveIds \subseteq Issued(fresh)
           /\ \A id \in LiveIds : rows[id] \in Row /\ rows[id].host \in Host
           /\ \A id \in Id : id \in LiveIds <=> Live(id)
           /\ stranded \subseteq Id
           /\ Failed \subseteq LiveIds /\ rows \in [Id -> Row \cup {None}]
<1>1. MaxRows \in Nat BY NocDataAssumption
<1>2. fresh \in Nat /\ Issued(fresh) \subseteq Id
  BY <1>1 DEF DataTypeOK, TypeOK, Issued, Id
<1>3. \A id \in LiveIds : rows[id] \in Row BY DEF DataTypeOK, TypeOK, LiveIds, Live
<1>4. \A id \in LiveIds : rows[id].host \in Host BY <1>3 DEF Row
<1> QED BY <1>1, <1>2, <1>3, <1>4 DEF DataTypeOK, TypeOK, LiveIds, Live, Failed

LEMMA RunAllNowClass ==
    ASSUME DataTypeOK, RunAllNow
    PROVE  JobOnly /\ Counted
<1>1. Counted BY Counting DEF RunAllNow, DataTypeOK
<1> DEFINE change == [NoJob EXCEPT !.pc = "pass", !.todo = LiveIds, !.list = rows]
<1>2. FullRun \in Job /\ Go(FullRun, change) BY DEF RunAllNow, Job
<1>3. change \in JobState(fresh)
  BY NoJobState, LiveTypes DEF JobState
<1>4. /\ change.pc = "pass" /\ change.todo = LiveIds /\ change.list = rows
  BY DEF NoJob
<1>5. FitsJob(change) BY <1>4, LiveTypes DEF FitsJob
<1>6. Secures(job[FullRun]) = {} BY DEF RunAllNow, Secures
<1>7. stranded' = stranded /\ stranded' \subseteq Id
  BY LiveTypes DEF RunAllNow, notes
<1>8. UNCHANGED <<rows, fresh, slot, excluded, logins, leftover, dismissed>>
  BY DEF RunAllNow, notes, setup
<1> HIDE DEF change
<1> QED BY <1>1, <1>2, <1>3, <1>5, <1>6, <1>7, <1>8 DEF JobOnly

(* A step of one job that secures nothing, or as much as before.            *)
LEMMA JobOnlyStep ==
    ASSUME DataTypeOK, NEW j \in Job, NEW change \in JobState(fresh), Go(j, change),
           FitsJob(change), Secures(job[j]) \subseteq Secures(change),
           UNCHANGED <<rows, fresh, slot, excluded, logins, notes>>
    PROVE  JobOnly
<1>1. stranded' = stranded /\ stranded' \subseteq Id BY LiveTypes DEF notes
<1>2. UNCHANGED <<rows, fresh, slot, excluded, logins, leftover, dismissed>> BY DEF notes
<1> QED BY <1>1, <1>2 DEF JobOnly

LEMMA ListFailedClass ==
    ASSUME DataTypeOK, NEW j \in Job, ListFailed(j)
    PROVE  JobOnly /\ Counted
<1>1. Counted BY Counting DEF ListFailed, DataTypeOK
<1> DEFINE listed == IF j = FullRun THEN Failed ELSE Failed \cap job[j].ids
           change == [NoJob EXCEPT !.pc = "recover", !.todo = listed]
<1>2. Go(j, change) BY DEF ListFailed
<1>3. listed \in SUBSET Issued(fresh) BY LiveTypes
<1> HIDE DEF listed
<1>4. change \in JobState(fresh) BY <1>3, NoJobState, LiveTypes DEF JobState
<1>5. change.pc = "recover" BY DEF NoJob
<1>6. FitsJob(change) BY <1>5 DEF FitsJob
<1>7. Secures(job[j]) = {} BY DEF ListFailed, Secures
<1>8. UNCHANGED <<rows, fresh, slot, excluded, logins, notes>> BY DEF ListFailed, setup
<1> HIDE DEF change
<1> QED BY <1>1, <1>2, <1>4, <1>6, <1>7, <1>8, JobOnlyStep

LEMMA ReturnClass ==
    ASSUME DataTypeOK, NEW j \in Job, Go(j, NoJob), Secures(job[j]) = {},
           UNCHANGED <<rows, fresh, slot, excluded, logins, notes>>
    PROVE  JobOnly
<1>1. NoJob \in JobState(fresh) BY NoJobState, LiveTypes
<1>2. FitsJob(NoJob) BY DEF FitsJob, NoJob
<1> QED BY <1>1, <1>2, JobOnlyStep

LEMMA EndClass ==
    ASSUME DataTypeOK, SaveHistory \/ \E r \in Request : Finish(r)
    PROVE  JobOnly /\ Counted
<1>1. CASE SaveHistory
  <2>1. Counted BY <1>1, Counting DEF SaveHistory, DataTypeOK
  <2>2. FullRun \in Job /\ Go(FullRun, NoJob) /\ Secures(job[FullRun]) = {}
    BY <1>1 DEF SaveHistory, Job, Secures
  <2>3. UNCHANGED <<rows, fresh, slot, excluded, logins, notes>>
    BY <1>1 DEF SaveHistory, setup
  <2> QED BY <2>1, <2>2, <2>3, ReturnClass
<1>2. CASE \E r \in Request : Finish(r)
  <2>1. PICK r \in Request : Finish(r) BY <1>2
  <2>2. Counted BY <2>1, Counting DEF Finish, DataTypeOK
  <2>3. r \in Job /\ Go(r, NoJob) /\ Secures(job[r]) = {}
    BY <2>1 DEF Finish, Job, Secures
  <2>4. UNCHANGED <<rows, fresh, slot, excluded, logins, notes>>
    BY <2>1 DEF Finish, setup
  <2> QED BY <2>2, <2>3, <2>4, ReturnClass
<1> QED BY <1>1, <1>2

LEMMA RequestClass ==
    ASSUME DataTypeOK, NEW r \in Request,
           CreateDevice(r) \/ RetryRange(r) \/ RunFailedDevices(r)
    PROVE  JobOnly /\ Counted
<1>1. r \in Job /\ Secures(job[r]) = {}
  BY DEF CreateDevice, RetryRange, RunFailedDevices, Job, Secures
<1>2. Counted BY Counting DEF CreateDevice, RetryRange, RunFailedDevices, DataTypeOK
<1>3. UNCHANGED <<rows, fresh, slot, excluded, logins, notes>>
  BY DEF CreateDevice, RetryRange, RunFailedDevices, setup
<1>4. CASE CreateDevice(r)
  <2>1. PICK g \in DeviceRange :
          Go(r, [NoJob EXCEPT !.pc = "scan", !.range = g, !.excluded = excluded,
                    !.hosts = {h \in Host : WalkIPv4Range(TargetOf[g], AddressOf[h])}])
    BY <1>4 DEF CreateDevice
  <2> DEFINE hosts == {h \in Host : WalkIPv4Range(TargetOf[g], AddressOf[h])}
             change == [NoJob EXCEPT !.pc = "scan", !.range = g, !.excluded = excluded,
                                     !.hosts = hosts]
  <2>2. Go(r, change) BY <2>1
  <2>3. hosts \in SUBSET Host /\ excluded \in SUBSET Exclusion /\ g \in DeviceRange
    BY <2>1 DEF DataTypeOK, TypeOK
  <2> HIDE DEF hosts
  <2>4. change \in JobState(fresh) BY <2>3, NoJobState, LiveTypes DEF JobState
  <2>5. change.pc = "scan" /\ change.range = g BY DEF NoJob
  <2>6. FitsJob(change) BY <2>3, <2>5 DEF FitsJob
  <2> HIDE DEF change
  <2> QED BY <1>1, <1>2, <1>3, <2>2, <2>4, <2>6, JobOnlyStep
<1>5. CASE RetryRange(r) \/ RunFailedDevices(r)
  <2>1. \E kind \in {"all", "each"}, ids \in SUBSET LiveIds :
          Go(r, [NoJob EXCEPT !.pc = "reset", !.kind = kind, !.todo = ids])
    <3>1. CASE RetryRange(r)
      BY <3>1 DEF RetryRange
    <3>2. CASE RunFailedDevices(r)
      BY <3>2, LiveTypes DEF RunFailedDevices
    <3> QED BY <1>5, <3>1, <3>2
  <2>2. PICK kind \in {"all", "each"}, ids \in SUBSET LiveIds :
          Go(r, [NoJob EXCEPT !.pc = "reset", !.kind = kind, !.todo = ids])
    BY <2>1
  <2> DEFINE change == [NoJob EXCEPT !.pc = "reset", !.kind = kind, !.todo = ids]
  <2>3. kind \in {"all", "each"} /\ ids \in SUBSET Issued(fresh) BY <2>2, LiveTypes
  <2>4. change \in JobState(fresh) BY <2>3, NoJobState, LiveTypes DEF JobState
  <2>5. change.pc = "reset" /\ change.kind = kind BY DEF NoJob
  <2>6. FitsJob(change) BY <2>3, <2>5 DEF FitsJob
  <2>7. Go(r, change) BY <2>2
  <2> HIDE DEF change
  <2> QED BY <1>1, <1>2, <1>3, <2>7, <2>4, <2>6, JobOnlyStep
<1> QED BY <1>4, <1>5

LEMMA RowOfFinds ==
    ASSUME DataTypeOK, NEW g, NEW h, RowOf(g, h) # {}
    PROVE  (CHOOSE id \in RowOf(g, h) : \A o \in RowOf(g, h) : id <= o) \in Issued(fresh)
<1>1. RowOf(g, h) \in SUBSET Issued(fresh) BY LiveTypes DEF RowOf
<1>2. RowOf(g, h) \in SUBSET Nat BY <1>1 DEF Issued
<1>3. \E id \in RowOf(g, h) : \A o \in RowOf(g, h) : id <= o BY <1>2, HasLeast
<1> QED BY <1>1, <1>3

LEMMA FindByRangeHostClass ==
    ASSUME DataTypeOK, FitInv, NEW r \in Request, FindByRangeHost(r)
    PROVE  JobOnly /\ Counted
<1>1. r \in Job /\ job[r].pc = "scan" /\ job[r] \in JobState(fresh)
  BY DEF FindByRangeHost, Job, DataTypeOK
<1>2. job[r].range \in DeviceRange BY <1>1 DEF FitInv, FitsJob
<1>3. Counted BY Counting DEF FindByRangeHost, DataTypeOK
<1>4. UNCHANGED <<rows, fresh, slot, excluded, logins, notes>>
  BY DEF FindByRangeHost, setup
<1>5. PICK h \in job[r].hosts :
        LET found == RowOf(job[r].range, h)
            skipped == [job[r] EXCEPT !.hosts = StillToWalk(TargetOf[job[r].range], @, h)]
        IN  \/ Go(r, skipped)
            \/ Go(r, [skipped EXCEPT !.pc = "upsert", !.host = h,
                        !.id = IF found = {} THEN None
                               ELSE CHOOSE id \in found : \A o \in found : id <= o])
  BY DEF FindByRangeHost
<1>6. h \in Host BY <1>1, <1>5 DEF JobState
<1> DEFINE found == RowOf(job[r].range, h)
           skipped == [job[r] EXCEPT !.hosts = StillToWalk(TargetOf[job[r].range], @, h)]
           id == IF found = {} THEN None ELSE CHOOSE x \in found : \A o \in found : x <= o
           change == [skipped EXCEPT !.pc = "upsert", !.host = h, !.id = id]
<1>7. skipped \in JobState(fresh) BY <1>1 DEF JobState, StillToWalk
<1>8. skipped.pc = "scan" /\ skipped.range = job[r].range /\ skipped.todo = job[r].todo
  BY <1>1 DEF JobState
<1>9. id \in Issued(fresh) \cup {None} BY RowOfFinds
<1>10. Go(r, skipped) \/ Go(r, change) BY <1>5
<1> HIDE DEF id
<1>11. change \in JobState(fresh) BY <1>6, <1>7, <1>9 DEF JobState
<1>12. /\ change.pc = "upsert" /\ change.range = job[r].range /\ change.host = h
       /\ change.todo = job[r].todo
  BY <1>1 DEF JobState
<1> HIDE DEF skipped, change
<1>13. Secures(skipped) = Secures(job[r]) /\ Secures(change) = Secures(job[r])
  BY <1>1, <1>8, <1>12 DEF Secures
<1>14. FitsJob(skipped) /\ FitsJob(change) BY <1>2, <1>6, <1>8, <1>12 DEF FitsJob
<1> QED BY <1>1, <1>3, <1>4, <1>7, <1>10, <1>11, <1>13, <1>14, JobOnlyStep

LEMMA ResetRows ==
    ASSUME DataTypeOK, NEW id \in Id, Live(id)
    PROVE  /\ Repends(id, Blank(rows[id])) /\ Repends(id, Unlearned(rows[id]))
           /\ Repends(id, Rediscovered(rows[id]))
<1>1. rows[id] \in Row BY LiveTypes
<1>2. Repends(id, Blank(rows[id])) BY <1>1 DEF Repends, Blank, Row, Status
<1>3. Repends(id, Unlearned(rows[id])) BY <1>1 DEF Repends, Unlearned, Row, Status
<1>4. Repends(id, Rediscovered(rows[id])) BY <1>1 DEF Repends, Rediscovered, Row, Status
<1> QED BY <1>2, <1>3, <1>4

LEMMA ResetForRecoveryClass ==
    ASSUME DataTypeOK, NEW j \in Job, ResetForRecovery(j)
    PROVE  (JobOnly \/ Resets) /\ Counted
<1>1. job[j].pc = "recover" /\ job[j] \in JobState(fresh) /\ Secures(job[j]) = {}
  BY DEF ResetForRecovery, DataTypeOK, Secures
<1>2. Counted BY Counting DEF ResetForRecovery, DataTypeOK
<1>3. UNCHANGED <<fresh, slot, excluded, logins, leftover, dismissed>>
  BY DEF ResetForRecovery, setup
<1>4. PICK id \in job[j].todo :
        \/ /\ Write(id, Blank(rows[id]))
           /\ Go(j, [job[j] EXCEPT !.pc = "collect", !.id = id, !.todo = @ \ {id}])
        \/ /\ Go(j, [job[j] EXCEPT !.todo = @ \ {id}])
           /\ UNCHANGED <<rows, stranded>>
  BY DEF ResetForRecovery
<1>5. id \in Issued(fresh) /\ id \in Id BY <1>1, <1>4, LiveTypes DEF JobState
<1> DEFINE collect == [job[j] EXCEPT !.pc = "collect", !.id = id, !.todo = @ \ {id}]
           skip == [job[j] EXCEPT !.todo = @ \ {id}]
<1>6. collect \in JobState(fresh) /\ skip \in JobState(fresh)
  BY <1>1, <1>5, ZenonT(60) DEF JobState
<1>7. collect.pc = "collect" /\ collect.id = id /\ skip.pc = "recover"
  BY <1>1 DEF JobState
<1>8. \/ Write(id, Blank(rows[id])) /\ Go(j, collect)
      \/ Go(j, skip) /\ UNCHANGED <<rows, stranded>>
  BY <1>4
<1> HIDE DEF collect, skip
<1>9. FitsJob(collect) /\ FitsJob(skip) BY <1>5, <1>7 DEF FitsJob
<1>10. CASE Write(id, Blank(rows[id])) /\ Go(j, collect)
  <2>1. Secures(collect) = {id} BY <1>7 DEF Secures
  <2>2. Live(id) => Repends(id, Blank(rows[id])) BY <1>5, ResetRows
  <2>3. Resets BY <1>1, <1>3, <1>5, <1>6, <1>9, <1>10, <2>1, <2>2 DEF Resets
  <2> QED BY <1>2, <2>3
<1>11. CASE Go(j, skip) /\ UNCHANGED <<rows, stranded>>
  <2>1. UNCHANGED <<rows, fresh, slot, excluded, logins, notes>>
    BY <1>3, <1>11 DEF notes
  <2>2. JobOnly BY <1>1, <1>6, <1>9, <1>11, <2>1, JobOnlyStep
  <2> QED BY <1>2, <2>2
<1> QED BY <1>8, <1>10, <1>11

LEMMA ResetListedClass ==
    ASSUME DataTypeOK, FitInv, NEW r \in Request, ResetListed(r)
    PROVE  (JobOnly \/ Resets) /\ Counted
<1>1. r \in Job /\ job[r].pc = "reset" /\ job[r] \in JobState(fresh)
  BY DEF ResetListed, DataTypeOK, Job
<1>2. job[r].kind \in {"all", "each"} /\ Secures(job[r]) = job[r].ids
  BY <1>1 DEF FitInv, FitsJob, Secures
<1>3. Counted BY Counting DEF ResetListed, DataTypeOK
<1>4. UNCHANGED <<fresh, slot, excluded, logins, leftover, dismissed>>
  BY DEF ResetListed, setup
<1>5. CASE job[r].todo = {}
  <2> DEFINE change == [NoJob EXCEPT !.pc = job[r].kind, !.todo = Listed(r)]
  <2>1. Go(r, change) /\ UNCHANGED <<rows, fresh, slot, excluded, logins, notes>>
    BY <1>4, <1>5 DEF ResetListed, notes
  <2>2. Listed(r) \in SUBSET Issued(fresh) /\ Listed(r) = job[r].ids
    BY <1>1 DEF Listed, JobState
  <2>3. change \in JobState(fresh) BY <1>2, <2>2, NoJobState, LiveTypes, ZenonT(60) DEF JobState
  <2>4. change.pc = job[r].kind /\ change.todo = job[r].ids BY <2>2 DEF NoJob
  <2> HIDE DEF change
  <2>5. FitsJob(change) BY <1>2, <2>4 DEF FitsJob
  <2>6. Secures(change) = job[r].ids BY <1>2, <2>4 DEF Secures
  <2>7. JobOnly BY <1>1, <1>2, <2>1, <2>3, <2>5, <2>6, JobOnlyStep
  <2> QED BY <1>3, <2>7
<1>6. CASE job[r].todo # {}
  <2>1. PICK id \in job[r].todo :
          \/ /\ Write(id, IF job[r].kind = "all" THEN Unlearned(rows[id])
                          ELSE Blank(rows[id]))
             /\ Go(r, [job[r] EXCEPT !.todo = @ \ {id}, !.ids = @ \cup {id}])
          \/ /\ stranded' = stranded \cup job[r].ids
             /\ Go(r, NoJob)
             /\ UNCHANGED rows
    BY <1>6 DEF ResetListed
  <2>2. id \in Issued(fresh) /\ id \in Id BY <1>1, <2>1, LiveTypes DEF JobState
  <2> DEFINE row == IF job[r].kind = "all" THEN Unlearned(rows[id]) ELSE Blank(rows[id])
             change == [job[r] EXCEPT !.todo = @ \ {id}, !.ids = @ \cup {id}]
  <2>3. CASE Write(id, row) /\ Go(r, change)
    <3>1. change \in JobState(fresh) BY <1>1, <2>2 DEF JobState
    <3>2. change.pc = "reset" /\ change.kind = job[r].kind /\ change.ids = job[r].ids \cup {id}
      BY <1>1 DEF JobState
    <3>3. Live(id) => Repends(id, row) BY <2>2, ResetRows
    <3> HIDE DEF change, row
    <3>4. FitsJob(change) BY <1>2, <3>2 DEF FitsJob
    <3>5. Secures(job[r]) \cup {id} \subseteq Secures(change)
      BY <1>2, <3>2 DEF Secures
    <3>6. Resets BY <1>1, <1>4, <2>2, <2>3, <3>1, <3>3, <3>4, <3>5 DEF Resets
    <3> QED BY <1>3, <3>6
  <2>4. CASE stranded' = stranded \cup job[r].ids /\ Go(r, NoJob) /\ UNCHANGED rows
    <3>1. NoJob \in JobState(fresh) BY NoJobState, LiveTypes
    <3>2. FitsJob(NoJob) BY DEF FitsJob, NoJob
    <3>3. job[r].ids \subseteq Id BY <1>1, LiveTypes DEF JobState
    <3>4. stranded \subseteq stranded' /\ stranded' \subseteq Id
      BY <2>4, <3>3, LiveTypes
    <3>5. Secures(job[r]) \subseteq Secures(NoJob) \cup stranded' BY <1>2, <2>4
    <3>6. JobOnly BY <1>1, <1>4, <2>4, <3>1, <3>2, <3>4, <3>5 DEF JobOnly
    <3> QED BY <1>3, <3>6
  <2> QED BY <2>1, <2>3, <2>4
<1> QED BY <1>5, <1>6

LEMMA UpsertClass ==
    ASSUME DataTypeOK, FitInv, NEW r \in Request, UpsertDiscoveredDevice(r)
    PROVE  (JobOnly \/ Resets \/ Discovers) /\ Counted
<1> DEFINE found == job[r].id
           id == IF found = None THEN fresh ELSE found
           scanning == [job[r] EXCEPT !.pc = "scan", !.host = None, !.id = None]
           change == [scanning EXCEPT !.todo = @ \cup {id}, !.ids = @ \cup {id}]
<1>1. r \in Job /\ job[r].pc = "upsert" /\ job[r] \in JobState(fresh)
  BY DEF UpsertDiscoveredDevice, DataTypeOK, Job
<1>2. /\ job[r].range \in DeviceRange /\ job[r].host \in Host
      /\ Secures(job[r]) = job[r].todo
  BY <1>1 DEF FitInv, FitsJob, Secures
<1>3. Counted
  <2>1. Asks \/ Fails \/ Works BY DEF UpsertDiscoveredDevice
  <2> QED BY <2>1, Counting DEF DataTypeOK
<1>4. UNCHANGED <<slot, excluded, logins, leftover, dismissed>>
  BY DEF UpsertDiscoveredDevice, setup
<1>5. /\ fresh \in Nat /\ found \in Issued(fresh) \cup {None}
      /\ job[r] \in JobState(fresh + 1) /\ Issued(fresh) \subseteq Issued(fresh + 1)
      /\ fresh \in Issued(fresh + 1)
  <2>1. fresh \in Nat /\ fresh >= 1 BY LiveTypes
  <2>2. fresh \in Issued(fresh + 1) BY <2>1 DEF Issued
  <2> QED BY <1>1, <2>1, <2>2, StatesGrow DEF JobState
<1>6. scanning \in JobState(fresh) BY <1>1 DEF JobState
<1>7. scanning.pc = "scan" /\ scanning.range = job[r].range /\ scanning.todo = job[r].todo
  BY <1>1 DEF JobState
<1>8. change.pc = "scan" /\ change.range = job[r].range /\ change.todo = job[r].todo \cup {id}
  BY <1>1 DEF JobState
<1>9. found # None => change \in JobState(fresh)
  BY <1>5, <1>6, ZenonT(120) DEF JobState
<1>10. change \in JobState(fresh + 1)
  <2>1. scanning \in JobState(fresh + 1) BY <1>5 DEF JobState
  <2>2. id \in Issued(fresh + 1) BY <1>5
  <2> HIDE DEF id, scanning
  <2> QED BY <2>1, <2>2 DEF JobState
<1>11. \/ /\ found # None /\ Write(found, Rediscovered(rows[found]))
          /\ Go(r, change) /\ UNCHANGED fresh
       \/ /\ found = None /\ fresh \in Id
          /\ rows' = [rows EXCEPT ![fresh] =
                [range |-> job[r].range, host |-> job[r].host, login |-> None,
                 status |-> "pending", identity |-> None]]
          /\ fresh' = fresh + 1 /\ Go(r, change) /\ UNCHANGED stranded
       \/ Go(r, scanning) /\ UNCHANGED <<rows, fresh, stranded>>
  BY DEF UpsertDiscoveredDevice
<1>12. Secures(scanning) = job[r].todo /\ Secures(change) = job[r].todo \cup {id}
  <2> HIDE DEF scanning, change
  <2> QED BY <1>7, <1>8 DEF Secures
<1>13. FitsJob(scanning) /\ FitsJob(change)
  <2> HIDE DEF scanning, change
  <2> QED BY <1>2, <1>7, <1>8 DEF FitsJob
<1>14. CASE /\ found # None /\ Write(found, Rediscovered(rows[found]))
            /\ Go(r, change) /\ UNCHANGED fresh
  <2>1. found \in Issued(fresh) /\ found \in Id /\ id = found
    BY <1>5, <1>14, LiveTypes
  <2>2. Live(found) => Repends(found, Rediscovered(rows[found])) BY <2>1, ResetRows
  <2>3. Secures(job[r]) \cup {found} \subseteq Secures(change) BY <1>2, <1>12, <2>1
  <2> HIDE DEF found, change
  <2>4. Resets BY <1>1, <1>4, <1>9, <1>13, <1>14, <2>1, <2>2, <2>3 DEF Resets
  <2> QED BY <1>3, <2>4
<1>15. CASE /\ found = None /\ fresh \in Id
            /\ rows' = [rows EXCEPT ![fresh] =
                  [range |-> job[r].range, host |-> job[r].host, login |-> None,
                   status |-> "pending", identity |-> None]]
            /\ fresh' = fresh + 1 /\ Go(r, change) /\ UNCHANGED stranded
  <2> DEFINE row == [range |-> job[r].range, host |-> job[r].host, login |-> None,
                     status |-> "pending", identity |-> None]
  <2>1. row \in Row /\ row.status = "pending" /\ row.identity = None
    BY <1>2 DEF Row, Status
  <2>2. rows' = [rows EXCEPT ![fresh] = row] BY <1>15
  <2>3. Secures(job[r]) \cup {fresh} \subseteq Secures(change) BY <1>2, <1>12, <1>15
  <2>4. Go(r, change) /\ fresh' = fresh + 1 /\ fresh \in Id /\ UNCHANGED stranded
    BY <1>15
  <2>5. change.pc = "scan" /\ change.range \in DeviceRange BY <1>2, <1>8
  <2> HIDE DEF row, change
  <2>6. Discovers
    BY <1>1, <1>4, <1>10, <2>1, <2>2, <2>3, <2>4, <2>5 DEF Discovers
  <2> QED BY <1>3, <2>6
<1>16. CASE Go(r, scanning) /\ UNCHANGED <<rows, fresh, stranded>>
  <2>1. UNCHANGED <<rows, fresh, slot, excluded, logins, notes>>
    BY <1>4, <1>16 DEF notes
  <2>2. Secures(job[r]) \subseteq Secures(scanning) BY <1>2, <1>12
  <2> HIDE DEF scanning
  <2>3. JobOnly BY <1>1, <1>6, <1>13, <1>16, <2>1, <2>2, JobOnlyStep
  <2> QED BY <1>3, <2>3
<1> QED BY <1>11, <1>14, <1>15, <1>16
-----------------------------------------------------------------------------
(* What is enough for each part of the invariant.                           *)
LEMMA TypesKept ==
    ASSUME Counted, rows' \in [Id -> Row \cup {None}], fresh' \in 1 .. MaxRows + 1,
           LiveIds' \subseteq Issued(fresh'), job' \in [Job -> JobState(fresh')],
           slot' \in [Slot -> SlotState(fresh')], excluded' \subseteq Exclusion,
           logins' \subseteq Family \X Login, stranded' \subseteq Id,
           leftover' \subseteq Device, dismissed' \subseteq Device
    PROVE  DataTypeOK'
<1>1. Issued(fresh') \subseteq Id BY NocDataAssumption DEF Issued, Id
<1>2. \A j \in Job : job'[j].todo \subseteq Id /\ job'[j].ids \subseteq Id
  BY <1>1 DEF JobState
<1>3. \A s \in Slot : slot'[s].job \in Job \cup {None} /\ slot'[s].id \in Id \cup {None}
  BY <1>1 DEF SlotState
<1>4. TypeOK' BY <1>2, <1>3 DEF TypeOK, Counted
<1> QED BY <1>4 DEF DataTypeOK

LEMMA JobFitCarries ==
    ASSUME DataTypeOK, RowsContinue, fresh' \in Nat, fresh <= fresh',
           NEW r \in JobState(fresh), FitsJob(r)
    PROVE  FitsJob(r)'
<1>1. fresh \in Nat /\ Issued(fresh) \subseteq Issued(fresh') /\ Issued(fresh) \subseteq Id
  BY LiveTypes, StatesGrow
<1>2. r.todo \subseteq Issued(fresh) BY DEF JobState
<1>3. \A id \in Issued(fresh) : Live(id)' => Live(id) /\ rows'[id].host = rows[id].host
  BY DEF RowsContinue, Live
<1> QED BY <1>1, <1>2, <1>3 DEF FitsJob

LEMMA SlotFitCarries ==
    ASSUME DataTypeOK, RowsContinue, fresh' \in Nat, fresh <= fresh',
           NEW c \in SlotState(fresh), FitsSlot(c)
    PROVE  FitsSlot(c)'
<1>1. fresh \in Nat /\ Issued(fresh) \subseteq Issued(fresh') BY LiveTypes, StatesGrow
<1>2. \A id \in Issued(fresh) : Live(id)' => Live(id) /\ rows'[id].host = rows[id].host
  BY DEF RowsContinue, Live
<1> QED BY <1>1, <1>2 DEF FitsSlot

LEMMA FitKept ==
    ASSUME DataTypeOK, FitInv, RowsContinue, fresh' \in Nat, fresh <= fresh',
           \A j \in Job : \/ job'[j] = job[j]
                          \/ \E r \in JobState(fresh) : job'[j] = r /\ FitsJob(r)
                          \/ FitsJob(job[j])',
           \A s \in Slot : slot'[s] = slot[s] \/ FitsSlot(slot[s])',
           IdentityTold'
    PROVE  FitInv'
<1>1. ASSUME NEW j \in Job PROVE FitsJob(job[j])'
  <2>1. CASE FitsJob(job[j])' BY <2>1
  <2>2. CASE \E r \in JobState(fresh) : job'[j] = r /\ FitsJob(r)
    <3>1. PICK r \in JobState(fresh) : job'[j] = r /\ FitsJob(r) BY <2>2
    <3>2. FitsJob(r)' BY <3>1, JobFitCarries
    <3> QED BY <3>1, <3>2 DEF FitsJob
  <2>3. CASE job'[j] = job[j]
    <3>1. PICK r : r = job[j] OBVIOUS
    <3>2. r \in JobState(fresh) /\ FitsJob(r) /\ job'[j] = r
      BY <2>3, <3>1 DEF DataTypeOK, FitInv
    <3>3. FitsJob(r)' BY <3>2, JobFitCarries
    <3> QED BY <3>2, <3>3 DEF FitsJob
  <2> QED BY <2>1, <2>2, <2>3
<1>2. ASSUME NEW s \in Slot PROVE FitsSlot(slot[s])'
  <2>1. CASE FitsSlot(slot[s])' BY <2>1
  <2>2. CASE slot'[s] = slot[s]
    <3>1. PICK c : c = slot[s] OBVIOUS
    <3>2. c \in SlotState(fresh) /\ FitsSlot(c) /\ slot'[s] = c
      BY <2>2, <3>1 DEF DataTypeOK, FitInv
    <3>3. FitsSlot(c)' BY <3>2, SlotFitCarries
    <3> QED BY <3>2, <3>3 DEF FitsSlot
  <2> QED BY <2>1, <2>2
<1> QED BY <1>1, <1>2 DEF FitInv

LEMMA PendingKept ==
    ASSUME PendingInv,
           \A id \in Id : Pending(id)' => Pending(id) \/ Owned(id)',
           \A id \in Id : Owned(id) /\ Pending(id)' => Owned(id)'
    PROVE  PendingInv'
  BY DEF PendingInv

OkAs(id, device) == rows[id].status = "ok" /\ rows[id].identity = device

LEMMA OneRowKept ==
    ASSUME OneRowInv, leftover \subseteq leftover',
           \A id \in LiveIds', device \in Device : OkAs(id, device)' =>
               \/ id \in LiveIds /\ OkAs(id, device)
               \/ \E s \in Slot : slot'[s].pc = "match" /\ slot'[s].identity = device,
           \A s \in Slot, a, b \in LiveIds', device \in Device \ leftover' :
               /\ a # b /\ a \in LiveIds /\ b \in LiveIds /\ SameDevice(a, b, device)
               /\ Clears(slot[s], a, b, device)
               => \E t \in Slot : Clears(slot[t], a, b, device)'
    PROVE  OneRowInv'
<1> SUFFICES ASSUME NEW a \in LiveIds', NEW b \in LiveIds', NEW device \in Device \ leftover',
                    a # b, SameDevice(a, b, device)'
             PROVE  \E s \in Slot : Clears(slot[s], a, b, device)'
  BY DEF OneRowInv
<1>1. OkAs(a, device)' /\ OkAs(b, device)' BY DEF SameDevice, OkAs
<1>2. CASE \E s \in Slot : slot'[s].pc = "match" /\ slot'[s].identity = device
  BY <1>2 DEF Clears
<1>3. CASE a \in LiveIds /\ b \in LiveIds /\ OkAs(a, device) /\ OkAs(b, device)
  <2>1. SameDevice(a, b, device) /\ device \in Device \ leftover
    BY <1>3 DEF SameDevice, OkAs
  <2>2. PICK s \in Slot : Clears(slot[s], a, b, device) BY <1>3, <2>1 DEF OneRowInv
  <2> QED BY <1>3, <2>1, <2>2
<1> QED BY <1>1, <1>2, <1>3

(* A row that goes leaves a better one of its device, or somebody deleted   *)
(* a row of the device.                                                     *)
NotLost ==
    \A id \in LiveIds : rows'[id] = None =>
        \/ DeviceAt[rows[id].host] \in dismissed'
        \/ \E other \in LiveIds : /\ Better(other, id)
                                  /\ rows'[other] # None /\ rows'[other].host = rows[other].host
                                  /\ DeviceAt[rows[other].host] = DeviceAt[rows[id].host]

LEMMA BetterOrder ==
    ASSUME DataTypeOK
    PROVE  /\ \A a \in LiveIds : ~Better(a, a)
           /\ \A a, b, c \in LiveIds : Better(a, b) /\ Better(b, c) => Better(a, c)
           /\ \A a, b \in LiveIds : a # b => Better(a, b) \/ Better(b, a)
<1>1. ASSUME NEW a \in LiveIds PROVE a \in Nat /\ rows[a].host \in Nat
  <2>1. fresh \in Nat /\ a \in Issued(fresh) /\ rows[a].host \in Host BY LiveTypes
  <2>2. Host \subseteq Nat BY NocDataAssumption
  <2>3. rows[a].host \in Nat BY <2>1, <2>2
  <2>4. a \in Nat BY <2>1 DEF Issued
  <2> QED BY <2>3, <2>4
<1> QED BY <1>1 DEF Better

LEMMA KeptKept ==
    ASSUME DataTypeOK, KeptInv, RowsContinue, NotLost, dismissed \subseteq dismissed',
           fresh <= fresh',
           \A s \in Slot : slot'[s].pc = "remove" =>
               \/ /\ slot[s].pc = "remove" /\ slot'[s].identity = slot[s].identity
                  /\ slot'[s].extra \subseteq slot[s].extra
               \/ RemovesOthers(slot[s])',
           rows' \in [Id -> Row \cup {None}]
    PROVE  KeptInv'
<1> SUFFICES ASSUME NEW s \in Slot, slot[s].pc = "remove",
                    slot'[s].identity = slot[s].identity, slot'[s].extra \subseteq slot[s].extra
             PROVE  RemovesOthers(slot[s])'
  BY DEF KeptInv
<1>1. RemovesOthers(slot[s]) BY DEF KeptInv
<1>2. slot[s].extra \subseteq Issued(fresh) BY DEF DataTypeOK, SlotState
<1>3. \A id \in Id : id \in LiveIds' <=> rows'[id] # None BY DEF LiveIds, Live
<1>4. \A id \in LiveIds : id \in Issued(fresh) /\ id \in Id BY LiveTypes
<1>5. \A id \in Issued(fresh) : rows'[id] # None => /\ id \in LiveIds
                                                    /\ rows'[id].host = rows[id].host
  BY LiveTypes DEF RowsContinue
<1> SUFFICES ASSUME NEW id \in slot'[s].extra \cap LiveIds'
             PROVE  /\ DeviceAt[rows'[id].host] = slot'[s].identity
                    /\ slot'[s].identity \notin dismissed' => BetterKept(id, slot[s].identity)'
  BY DEF RemovesOthers
<1>6. id \in slot[s].extra \cap LiveIds /\ rows'[id].host = rows[id].host
  BY <1>2, <1>3, <1>5, LiveTypes
<1>7. DeviceAt[rows'[id].host] = slot'[s].identity BY <1>1, <1>6 DEF RemovesOthers
<1>8. ASSUME slot'[s].identity \notin dismissed'
      PROVE  BetterKept(id, slot[s].identity)'
  <2>1. PICK x \in LiveIds : Better(x, id) /\ DeviceAt[rows[x].host] = slot[s].identity
    BY <1>1, <1>6, <1>8 DEF RemovesOthers, BetterKept
  <2>2. \E y \in LiveIds : /\ Better(y, id) /\ rows'[y] # None
                           /\ DeviceAt[rows[y].host] = slot[s].identity
    <3>1. CASE rows'[x] # None BY <2>1, <3>1
    <3>2. CASE rows'[x] = None
      <4>1. PICK y \in LiveIds : /\ Better(y, x) /\ rows'[y] # None
                                 /\ DeviceAt[rows[y].host] = DeviceAt[rows[x].host]
        BY <1>8, <2>1, <3>2 DEF NotLost
      <4>2. Better(y, id) BY <1>6, <2>1, <4>1, BetterOrder
      <4> QED BY <2>1, <4>1, <4>2
    <3> QED BY <3>1, <3>2
  <2>3. PICK y \in LiveIds : /\ Better(y, id) /\ rows'[y] # None
                             /\ DeviceAt[rows[y].host] = slot[s].identity
    BY <2>2
  <2>4. y \in LiveIds' /\ rows'[y].host = rows[y].host BY <1>3, <1>4, <1>5, <2>3
  <2>5. Better(y, id)' BY <1>6, <2>3, <2>4 DEF Better
  <2> QED BY <2>3, <2>4, <2>5 DEF BetterKept
<1> QED BY <1>7, <1>8
-----------------------------------------------------------------------------
(* Each class of steps keeps the invariant.                                 *)
LEMMA JobStepKeeps ==
    ASSUME DataInv, JobOnly, Counted
    PROVE  DataInv' /\ NotLost
<1> USE DEF DataInv
<1>1. PICK j \in Job, change \in JobState(fresh) :
        /\ Go(j, change) /\ FitsJob(change)
        /\ Secures(job[j]) \subseteq Secures(change) \cup stranded'
  BY DEF JobOnly
<1>2. /\ stranded \subseteq stranded' /\ stranded' \subseteq Id
      /\ UNCHANGED <<rows, fresh, slot, excluded, logins, leftover, dismissed>>
  BY DEF JobOnly
<1>3. job'[j] = change /\ \A k \in Job \ {j} : job'[k] = job[k] BY <1>1, GoStep
<1>4. job' \in [Job -> JobState(fresh)] BY <1>1, GoStep, LiveTypes DEF DataTypeOK
<1>5. LiveIds' = LiveIds BY <1>2 DEF LiveIds, Live
<1>6. DataTypeOK'
  <2>1. /\ rows' \in [Id -> Row \cup {None}] /\ fresh' \in 1 .. MaxRows + 1
        /\ LiveIds' \subseteq Issued(fresh') /\ slot' \in [Slot -> SlotState(fresh')]
        /\ excluded' \subseteq Exclusion /\ logins' \subseteq Family \X Login
        /\ leftover' \subseteq Device /\ dismissed' \subseteq Device
    BY <1>2, <1>5 DEF DataTypeOK, TypeOK
  <2> QED BY <1>2, <1>4, <2>1, TypesKept
<1>7. RowsContinue BY <1>2 DEF RowsContinue, Live
<1>8. FitInv'
  <2>1. \A k \in Job : \/ job'[k] = job[k]
                       \/ \E r \in JobState(fresh) : job'[k] = r /\ FitsJob(r)
    BY <1>1, <1>3
  <2>2. IdentityTold' BY <1>2, <1>5 DEF FitInv, IdentityTold
  <2>3. fresh' \in Nat /\ fresh <= fresh' BY <1>2, LiveTypes
  <2> QED BY <1>2, <1>7, <2>1, <2>2, <2>3, FitKept
<1>9. PendingInv'
  <2>1. ASSUME NEW id \in Id, Pending(id)' PROVE Pending(id)
    BY <1>2, <1>5, <2>1 DEF Pending
  <2>2. ASSUME NEW id \in Id, Owned(id), Pending(id)' PROVE Owned(id)'
    <3>1. id \notin stranded' BY <2>2 DEF Pending
    <3>2. CASE \E s \in Slot : Handles(slot[s], id)
      BY <1>2, <3>2 DEF Owned, Handles
    <3>3. CASE \E k \in Job : id \in Secures(job[k])
      <4>1. PICK k \in Job : id \in Secures(job[k]) BY <3>3
      <4>2. CASE k = j
        <5>1. id \in Secures(change) BY <1>1, <3>1, <4>1, <4>2
        <5> QED BY <1>3, <5>1 DEF Owned, Secures
      <4>3. CASE k # j
        <5>1. job'[k] = job[k] BY <1>3, <4>3
        <5> QED BY <4>1, <5>1 DEF Owned, Secures
      <4> QED BY <4>2, <4>3
    <3> QED BY <2>2, <3>2, <3>3 DEF Owned
  <2> QED BY <2>1, <2>2, PendingKept
<1>10. OneRowInv'
  BY <1>2, <1>5 DEF OneRowInv, SameDevice, Clears
<1>11. NotLost BY <1>2 DEF NotLost, LiveIds, Live
<1>12. KeptInv'
  <2>1. rows' \in [Id -> Row \cup {None}] /\ fresh <= fresh' BY <1>2, LiveTypes
  <2>2. dismissed \subseteq dismissed' BY <1>2
  <2>3. \A s \in Slot : slot'[s].pc = "remove" =>
               /\ slot[s].pc = "remove" /\ slot'[s].identity = slot[s].identity
               /\ slot'[s].extra \subseteq slot[s].extra
    BY <1>2
  <2> QED BY <1>7, <1>11, <2>1, <2>2, <2>3, KeptKept
<1> QED BY <1>6, <1>8, <1>9, <1>10, <1>11, <1>12

LEMMA ClearsKept ==
    ASSUME NEW s \in Slot, slot[s].pc \in {"match", "remove"} => slot'[s] = slot[s],
           NEW a, NEW b, NEW device, Clears(slot[s], a, b, device)
    PROVE  Clears(slot[s], a, b, device)'
  BY DEF Clears

LEMMA ResetStepKeeps ==
    ASSUME DataInv, Resets, Counted
    PROVE  DataInv' /\ NotLost
<1> USE DEF DataInv
<1>1. PICK j \in Job, change \in JobState(fresh), id \in Issued(fresh) : \E row :
        /\ Write(id, row)
        /\ Live(id) => Repends(id, row)
        /\ Go(j, change) /\ FitsJob(change)
        /\ Secures(job[j]) \cup {id} \subseteq Secures(change)
  BY DEF Resets
<1>2. PICK row : /\ Write(id, row)
                 /\ Live(id) => Repends(id, row)
  BY <1>1
<1>3. UNCHANGED <<fresh, slot, excluded, logins, leftover, dismissed>> BY DEF Resets
<1>4. job'[j] = change /\ \A k \in Job \ {j} : job'[k] = job[k] BY <1>1, GoStep
<1>5. job' \in [Job -> JobState(fresh)] BY <1>1, GoStep, LiveTypes DEF DataTypeOK
<1>6. Live(id) => row \in Row BY <1>2 DEF Repends
<1>7. /\ rows' \in [Id -> Row \cup {None}] /\ LiveIds' = LiveIds
      /\ Live(id) => rows'[id] = row
      /\ \A other \in Id \ {id} : rows'[other] = rows[other]
      /\ stranded' = stranded \ {id}
  BY <1>2, <1>6, WriteStep
<1>8. id \in Id /\ id \in LiveIds <=> Live(id) BY LiveTypes
<1>9. \A x \in LiveIds : \/ x # id /\ rows'[x] = rows[x]
                         \/ x = id /\ rows'[x] = row /\ Repends(id, row)
  BY <1>2, <1>7, <1>8, LiveTypes
<1>10. DataTypeOK'
  <2>1. /\ fresh' \in 1 .. MaxRows + 1
        /\ LiveIds' \subseteq Issued(fresh') /\ slot' \in [Slot -> SlotState(fresh')]
        /\ excluded' \subseteq Exclusion /\ logins' \subseteq Family \X Login
        /\ leftover' \subseteq Device /\ dismissed' \subseteq Device
        /\ stranded' \subseteq Id
    BY <1>3, <1>7 DEF DataTypeOK, TypeOK
  <2> QED BY <1>3, <1>5, <1>7, <2>1, TypesKept
<1>11. RowsContinue /\ NotLost
  <2>1. \A x \in Id : rows'[x] # None <=> x \in LiveIds BY <1>7 DEF LiveIds, Live
  <2>2. RowsContinue
    BY <1>9, <2>1, LiveTypes DEF RowsContinue, Repends
  <2> QED BY <2>1, <2>2, LiveTypes DEF NotLost
<1>12. FitInv'
  <2>1. \A k \in Job : \/ job'[k] = job[k]
                       \/ \E r \in JobState(fresh) : job'[k] = r /\ FitsJob(r)
    BY <1>1, <1>4
  <2>2. IdentityTold' BY <1>7, <1>9 DEF FitInv, IdentityTold, Repends
  <2>3. fresh' \in Nat /\ fresh <= fresh' BY <1>3, LiveTypes
  <2> QED BY <1>3, <1>11, <2>1, <2>2, <2>3, FitKept
<1>13. PendingInv'
  <2>1. ASSUME NEW x \in Id, Pending(x)' PROVE Pending(x) \/ Owned(x)'
    <3>1. CASE x = id
      <4>1. id \in Secures(change) BY <1>1
      <4> QED BY <1>4, <3>1, <4>1 DEF Owned, Secures
    <3>2. CASE x # id BY <1>7, <2>1, <3>2 DEF Pending
    <3> QED BY <3>1, <3>2
  <2>2. ASSUME NEW x \in Id, Owned(x) PROVE Owned(x)'
    <3>1. CASE \E s \in Slot : Handles(slot[s], x)
      BY <1>3, <3>1 DEF Owned, Handles
    <3>2. CASE \E k \in Job : x \in Secures(job[k])
      <4>1. PICK k \in Job : x \in Secures(job[k]) BY <3>2
      <4>2. CASE k = j
        <5>1. x \in Secures(change) BY <1>1, <4>1, <4>2
        <5> QED BY <1>4, <5>1 DEF Owned, Secures
      <4>3. CASE k # j
        <5>1. job'[k] = job[k] BY <1>4, <4>3
        <5> QED BY <4>1, <5>1 DEF Owned, Secures
      <4> QED BY <4>2, <4>3
    <3> QED BY <2>2, <3>1, <3>2 DEF Owned
  <2> QED BY <2>1, <2>2, PendingKept
<1>14. OneRowInv'
  <2>1. \A x \in LiveIds', device \in Device : OkAs(x, device)' =>
               x \in LiveIds /\ OkAs(x, device)
    BY <1>7, <1>9 DEF OkAs, Repends
  <2>2. \A s \in Slot : \A a, b, device :
               Clears(slot[s], a, b, device) => Clears(slot[s], a, b, device)'
    BY <1>3, ClearsKept
  <2> QED BY <1>3, <2>1, <2>2, OneRowKept
<1>15. KeptInv'
  <2>1. fresh <= fresh' BY <1>3, LiveTypes
  <2>2. dismissed \subseteq dismissed' BY <1>3
  <2>3. \A s \in Slot : slot'[s].pc = "remove" =>
               /\ slot[s].pc = "remove" /\ slot'[s].identity = slot[s].identity
               /\ slot'[s].extra \subseteq slot[s].extra
    BY <1>3
  <2> QED BY <1>7, <1>11, <2>1, <2>2, <2>3, KeptKept
<1> QED BY <1>10, <1>11, <1>12, <1>13, <1>14, <1>15

LEMMA DiscoverStepKeeps ==
    ASSUME DataInv, Discovers, Counted
    PROVE  DataInv' /\ NotLost
<1> USE DEF DataInv
<1>1. PICK j \in Job, change \in JobState(fresh + 1), row \in Row :
        /\ rows' = [rows EXCEPT ![fresh] = row]
        /\ row.status = "pending" /\ row.identity = None
        /\ Go(j, change)
        /\ change.pc = "scan" /\ change.range \in DeviceRange
        /\ Secures(job[j]) \cup {fresh} \subseteq Secures(change)
  BY DEF Discovers
<1>2. fresh \in Id /\ fresh' = fresh + 1 /\ fresh \in Nat /\ fresh' \in Nat /\ fresh <= fresh'
  BY LiveTypes DEF Discovers
<1>3. UNCHANGED <<slot, excluded, logins, stranded, leftover, dismissed>> BY DEF Discovers
<1>4. job'[j] = change /\ \A k \in Job \ {j} : job'[k] = job[k] BY <1>1, GoStep
<1>5. /\ Issued(fresh) \subseteq Issued(fresh') /\ fresh \notin Issued(fresh)
      /\ fresh \in Issued(fresh')
      /\ JobState(fresh) \subseteq JobState(fresh') /\ SlotState(fresh) \subseteq SlotState(fresh')
  <2>1. fresh \notin Issued(fresh) /\ fresh \in Issued(fresh')
    BY <1>2, LiveTypes DEF Issued
  <2> QED BY <1>2, <2>1, StatesGrow
<1>6. job' \in [Job -> JobState(fresh')]
  <2>1. change \in JobState(fresh') /\ job \in [Job -> JobState(fresh')]
    BY <1>1, <1>2, <1>5 DEF DataTypeOK
  <2> QED BY <1>1, <1>2, <2>1, GoStep
<1>7. /\ rows' \in [Id -> Row \cup {None}] /\ rows'[fresh] = row
      /\ \A x \in Id \ {fresh} : rows'[x] = rows[x]
  BY <1>1, <1>2, LiveTypes
<1>8. row # None BY NocDataAssumption, <1>1
<1>9. LiveIds' = LiveIds \cup {fresh} /\ fresh \notin LiveIds
  <2>1. fresh \notin LiveIds BY <1>5, LiveTypes
  <2> QED BY <1>2, <1>7, <1>8, <2>1 DEF LiveIds, Live
<1>10. DataTypeOK'
  <2>1. /\ fresh' \in 1 .. MaxRows + 1
        /\ LiveIds' \subseteq Issued(fresh') /\ slot' \in [Slot -> SlotState(fresh')]
    BY <1>2, <1>3, <1>5, <1>9, LiveTypes DEF DataTypeOK, Id
  <2>2. /\ excluded' \subseteq Exclusion /\ logins' \subseteq Family \X Login
        /\ leftover' \subseteq Device /\ dismissed' \subseteq Device
        /\ stranded' \subseteq Id
    BY <1>3 DEF DataTypeOK, TypeOK
  <2> QED BY <1>6, <1>7, <2>1, <2>2, TypesKept
<1>11. RowsContinue /\ NotLost
  <2>1. \A x \in Issued(fresh) : rows'[x] = rows[x] BY <1>5, <1>7, LiveTypes
  <2>2. RowsContinue BY <2>1 DEF RowsContinue, Live
  <2>3. \A x \in LiveIds : rows'[x] # None BY <2>1, LiveTypes DEF LiveIds, Live
  <2> QED BY <2>2, <2>3 DEF NotLost
<1>12. FitInv'
  <2>1. FitsJob(job[j])' BY <1>1, <1>4 DEF FitsJob
  <2>2. \A k \in Job : job'[k] = job[k] \/ FitsJob(job[k])' BY <1>4, <2>1
  <2>3. IdentityTold'
    BY <1>1, <1>7, <1>9, LiveTypes DEF FitInv, IdentityTold
  <2> QED BY <1>2, <1>3, <1>11, <2>2, <2>3, FitKept
<1>13. PendingInv'
  <2>1. ASSUME NEW x \in Id, Pending(x)' PROVE Pending(x) \/ Owned(x)'
    <3>1. CASE x = fresh
      <4>1. fresh \in Secures(change) BY <1>1
      <4> QED BY <1>4, <3>1, <4>1 DEF Owned, Secures
    <3>2. CASE x # fresh BY <1>3, <1>7, <1>9, <2>1, <3>2 DEF Pending
    <3> QED BY <3>1, <3>2
  <2>2. ASSUME NEW x \in Id, Owned(x) PROVE Owned(x)'
    <3>1. CASE \E s \in Slot : Handles(slot[s], x)
      BY <1>3, <3>1 DEF Owned, Handles
    <3>2. CASE \E k \in Job : x \in Secures(job[k])
      <4>1. PICK k \in Job : x \in Secures(job[k]) BY <3>2
      <4>2. CASE k = j
        <5>1. x \in Secures(change) BY <1>1, <4>1, <4>2
        <5> QED BY <1>4, <5>1 DEF Owned, Secures
      <4>3. CASE k # j
        <5>1. job'[k] = job[k] BY <1>4, <4>3
        <5> QED BY <4>1, <5>1 DEF Owned, Secures
      <4> QED BY <4>2, <4>3
    <3> QED BY <2>2, <3>1, <3>2 DEF Owned
  <2> QED BY <2>1, <2>2, PendingKept
<1>14. OneRowInv'
  <2>1. \A x \in LiveIds', device \in Device : OkAs(x, device)' =>
               x \in LiveIds /\ OkAs(x, device)
    BY <1>1, <1>7, <1>9, LiveTypes DEF OkAs
  <2>2. \A s \in Slot : \A a, b, device :
               Clears(slot[s], a, b, device) => Clears(slot[s], a, b, device)'
    BY <1>3, ClearsKept
  <2> QED BY <1>3, <2>1, <2>2, OneRowKept
<1>15. KeptInv'
  <2>1. dismissed \subseteq dismissed' BY <1>3
  <2>2. \A s \in Slot : slot'[s].pc = "remove" =>
               /\ slot[s].pc = "remove" /\ slot'[s].identity = slot[s].identity
               /\ slot'[s].extra \subseteq slot[s].extra
    BY <1>3
  <2> QED BY <1>2, <1>7, <1>11, <2>1, <2>2, KeptKept
<1> QED BY <1>10, <1>11, <1>12, <1>13, <1>14, <1>15
-----------------------------------------------------------------------------
(* Of rows there is a best one: with the fewest better ones.                *)
LEMMA BestExists ==
    ASSUME DataTypeOK, NEW S \in SUBSET LiveIds, S # {}
    PROVE  \E id \in S : \A other \in S \ {id} : Better(id, other)
<1> DEFINE Above(id) == {x \in S : Better(x, id)}
           T == {Cardinality(Above(id)) : id \in S}
<1>1. IsFiniteSet(S)
  <2>1. IsFiniteSet(Issued(fresh)) BY LiveTypes, FS_Interval DEF Issued
  <2>2. S \in SUBSET Issued(fresh) BY LiveTypes
  <2> QED BY <2>1, <2>2, FS_Subset
<1>2. \A id \in S : IsFiniteSet(Above(id)) /\ Cardinality(Above(id)) \in Nat
  <2>1. \A id \in S : Above(id) \in SUBSET S OBVIOUS
  <2> HIDE DEF Above
  <2> QED BY <1>1, <2>1, FS_Subset, FS_CardinalityType
<1>3. T \in SUBSET Nat /\ T # {} BY <1>2
<1>4. \E n \in T : \A m \in T : n <= m
  <2> HIDE DEF T
  <2> QED BY <1>3, HasLeast
<1>5. PICK id \in S : \A other \in S : Cardinality(Above(id)) <= Cardinality(Above(other))
  BY <1>4
<1>6. ASSUME NEW other \in S \ {id} PROVE Better(id, other)
  <2>1. SUFFICES ASSUME Better(other, id) PROVE FALSE BY BetterOrder
  <2>2. Above(other) \in SUBSET Above(id) BY <2>1, BetterOrder
  <2>3. other \in Above(id) /\ other \notin Above(other) BY <2>1, BetterOrder
  <2> HIDE DEF Above
  <2>4. Cardinality(Above(other)) <= Cardinality(Above(id))
    BY <1>2, <2>2, FS_Subset
  <2>5. Cardinality(Above(id)) = Cardinality(Above(other)) BY <1>2, <1>5, <2>4
  <2>6. Above(id) = Above(other) BY <1>2, <2>2, <2>5, FS_Subset
  <2> QED BY <2>3, <2>6
<1> QED BY <1>6

(* Of two rows of a device the search finds at least one to remove, and     *)
(* each that it finds is worse than the one it keeps.                       *)
LEMMA DuplicatesFound ==
    ASSUME DataTypeOK, IdentityTold, NEW device \in Device, NEW current
    PROVE  /\ Duplicates(device, current) \subseteq LiveIds
           /\ \A a, b \in LiveIds : a # b /\ SameDevice(a, b, device)
                => Duplicates(device, current) \cap {a, b} # {}
           /\ \A id \in Duplicates(device, current) :
                DeviceAt[rows[id].host] = device /\ BetterKept(id, device)
<1> DEFINE S == {id \in LiveIds : rows[id].identity = device}
           keep == DuplicateKeep(S, current)
<1>1. \/ Cardinality(S) <= 1 /\ Duplicates(device, current) = {}
      \/ Duplicates(device, current) = S \ {keep}
  BY DEF Duplicates
<1>2. S \in SUBSET LiveIds /\ IsFiniteSet(S)
  <2>1. IsFiniteSet(Issued(fresh)) BY LiveTypes, FS_Interval DEF Issued
  <2>2. S \in SUBSET Issued(fresh) BY LiveTypes
  <2> QED BY <2>1, <2>2, FS_Subset
<1>3. ASSUME NEW a \in LiveIds, NEW b \in LiveIds, a # b, SameDevice(a, b, device)
      PROVE  Duplicates(device, current) \cap {a, b} # {}
  <2>1. {a, b} \in SUBSET S BY <1>3 DEF SameDevice
  <2> HIDE DEF S
  <2>2. Cardinality({a, b}) = 2 /\ IsFiniteSet({a, b})
    <3>1. IsFiniteSet({a}) /\ Cardinality({a}) = 1 BY FS_Singleton
    <3>2. {a} \cup {b} = {a, b} /\ b \notin {a} BY <1>3
    <3> QED BY <3>1, <3>2, FS_AddElement, SMTT(60)
  <2>3. Cardinality(S) \in Nat /\ Cardinality({a, b}) <= Cardinality(S)
    BY <1>2, <2>1, FS_Subset, FS_CardinalityType
  <2>4. Duplicates(device, current) = S \ {keep} BY <1>1, <2>2, <2>3
  <2> QED BY <1>3, <2>1, <2>4
<1>4. \A id \in S : DeviceAt[rows[id].host] = device
  <2>1. device # None BY NocDataAssumption
  <2> QED BY <2>1 DEF IdentityTold
<1>5. ASSUME NEW id \in Duplicates(device, current)
      PROVE  DeviceAt[rows[id].host] = device /\ BetterKept(id, device)
  <2>1. id \in S /\ id # keep BY <1>1
  <2>2. \E best \in S : \A other \in S \ {best} : Better(best, other)
    <3> HIDE DEF S
    <3> QED BY <1>2, <2>1, BestExists
  <2>3. keep \in S /\ \A other \in S \ {keep} : Better(keep, other)
    BY <2>2 DEF DuplicateKeep, Better
  <2> HIDE DEF keep
  <2>4. keep \in LiveIds /\ Better(keep, id) /\ DeviceAt[rows[keep].host] = device
    BY <1>4, <2>1, <2>3
  <2> QED BY <1>4, <2>1, <2>4 DEF BetterKept
<1> QED BY <1>1, <1>2, <1>3, <1>5
-----------------------------------------------------------------------------
(* A collection goes on without writing: what it handled it handles still   *)
(* or strands, what it was about to clear it clears still or leaves over.   *)
SlotOnly ==
    /\ \E s \in Slot, c \in SlotState(fresh) :
          /\ slot' = [slot EXCEPT ![s] = c]
          /\ FitsSlot(c)
          /\ \A id \in Id : Handles(slot[s], id) => Handles(c, id) \/ id \in stranded'
          /\ \A a, b \in LiveIds, device \in Device \ leftover' :
                a # b /\ SameDevice(a, b, device) /\ Clears(slot[s], a, b, device)
                => Clears(c, a, b, device)
          /\ c.pc = "remove" => RemovesOthers(c)
    /\ stranded \subseteq stranded' /\ stranded' \subseteq Id
    /\ leftover \subseteq leftover' /\ leftover' \subseteq Device
    /\ UNCHANGED <<rows, fresh, job, excluded, logins, dismissed>>

LEMMA SlotStepKeeps ==
    ASSUME DataInv, SlotOnly, Counted
    PROVE  DataInv' /\ NotLost
<1> USE DEF DataInv
<1>1. PICK s \in Slot, c \in SlotState(fresh) :
        /\ slot' = [slot EXCEPT ![s] = c]
        /\ FitsSlot(c)
        /\ \A id \in Id : Handles(slot[s], id) => Handles(c, id) \/ id \in stranded'
        /\ \A a, b \in LiveIds, device \in Device \ leftover' :
              a # b /\ SameDevice(a, b, device) /\ Clears(slot[s], a, b, device)
              => Clears(c, a, b, device)
        /\ c.pc = "remove" => RemovesOthers(c)
  BY DEF SlotOnly
<1>2. /\ stranded \subseteq stranded' /\ stranded' \subseteq Id
      /\ leftover \subseteq leftover' /\ leftover' \subseteq Device
      /\ UNCHANGED <<rows, fresh, job, excluded, logins, dismissed>>
  BY DEF SlotOnly
<1>3. /\ slot'[s] = c /\ \A t \in Slot \ {s} : slot'[t] = slot[t]
      /\ slot' \in [Slot -> SlotState(fresh)]
  BY <1>1, SlotStep
<1>4. LiveIds' = LiveIds BY <1>2 DEF LiveIds, Live
<1>5. DataTypeOK'
  <2>1. /\ rows' \in [Id -> Row \cup {None}] /\ fresh' \in 1 .. MaxRows + 1
        /\ LiveIds' \subseteq Issued(fresh') /\ job' \in [Job -> JobState(fresh')]
        /\ excluded' \subseteq Exclusion /\ logins' \subseteq Family \X Login
        /\ dismissed' \subseteq Device
    BY <1>2, <1>4 DEF DataTypeOK, TypeOK
  <2> QED BY <1>2, <1>3, <2>1, TypesKept
<1>6. RowsContinue /\ NotLost BY <1>2 DEF RowsContinue, NotLost, LiveIds, Live
<1>7. FitInv'
  <2>1. FitsSlot(c)' BY <1>1, <1>2, <1>6, SlotFitCarries, LiveTypes
  <2>2. FitsSlot(slot[s])' BY <1>3, <2>1 DEF FitsSlot
  <2>3. \A t \in Slot : slot'[t] = slot[t] \/ FitsSlot(slot[t])' BY <1>3, <2>2
  <2>4. IdentityTold' BY <1>2, <1>4 DEF FitInv, IdentityTold
  <2>5. fresh' \in Nat /\ fresh <= fresh' BY <1>2, LiveTypes
  <2>6. \A k \in Job : job'[k] = job[k] BY <1>2
  <2> QED BY <1>6, <2>3, <2>4, <2>5, <2>6, FitKept
<1>8. PendingInv'
  <2>1. ASSUME NEW id \in Id, Pending(id)' PROVE Pending(id)
    BY <1>2, <1>4, <2>1 DEF Pending
  <2>2. ASSUME NEW id \in Id, Owned(id), Pending(id)' PROVE Owned(id)'
    <3>1. id \notin stranded' BY <2>2 DEF Pending
    <3>2. CASE \E k \in Job : id \in Secures(job[k])
      BY <1>2, <3>2 DEF Owned, Secures
    <3>3. CASE \E t \in Slot : Handles(slot[t], id)
      <4>1. PICK t \in Slot : Handles(slot[t], id) BY <3>3
      <4>2. CASE t = s
        <5>1. Handles(c, id) BY <1>1, <3>1, <4>1, <4>2
        <5> QED BY <1>3, <5>1 DEF Owned, Handles
      <4>3. CASE t # s
        <5>1. slot'[t] = slot[t] BY <1>3, <4>3
        <5> QED BY <4>1, <5>1 DEF Owned, Handles
      <4> QED BY <4>2, <4>3
    <3> QED BY <2>2, <3>2, <3>3 DEF Owned
  <2> QED BY <2>1, <2>2, PendingKept
<1>9. OneRowInv'
  <2>1. \A x \in LiveIds', device \in Device : OkAs(x, device)' =>
               x \in LiveIds /\ OkAs(x, device)
    BY <1>2, <1>4 DEF OkAs
  <2>2. ASSUME NEW t \in Slot, NEW a \in LiveIds', NEW b \in LiveIds',
               NEW device \in Device \ leftover',
               a # b, SameDevice(a, b, device), Clears(slot[t], a, b, device)
        PROVE  Clears(slot[t], a, b, device)'
    <3>1. CASE t = s
      <4>1. Clears(c, a, b, device) BY <1>1, <1>4, <2>2, <3>1
      <4> QED BY <1>3, <3>1, <4>1 DEF Clears
    <3>2. CASE t # s
      <4>1. slot'[t] = slot[t] BY <1>3, <3>2
      <4> QED BY <2>2, <4>1, ClearsKept
    <3> QED BY <3>1, <3>2
  <2> QED BY <1>2, <2>1, <2>2, OneRowKept
<1>10. KeptInv'
  <2>1. rows' \in [Id -> Row \cup {None}] /\ fresh <= fresh' /\ dismissed \subseteq dismissed'
    BY <1>2, LiveTypes
  <2>2. c.pc = "remove" => RemovesOthers(slot[s])'
    BY <1>1, <1>2, <1>3, <1>4 DEF RemovesOthers, BetterKept, Better
  <2>3. ASSUME NEW t \in Slot, slot'[t].pc = "remove"
        PROVE  \/ /\ slot[t].pc = "remove" /\ slot'[t].identity = slot[t].identity
                  /\ slot'[t].extra \subseteq slot[t].extra
               \/ RemovesOthers(slot[t])'
    <3>1. CASE t = s BY <1>3, <2>2, <2>3, <3>1
    <3>2. CASE t # s BY <1>3, <2>3, <3>2
    <3> QED BY <3>1, <3>2
  <2> QED BY <1>6, <2>1, <2>3, KeptKept
<1> QED BY <1>5, <1>6, <1>7, <1>8, <1>9, <1>10

LEMMA Collected ==
    ASSUME DataTypeOK, NEW s \in Slot, slot[s].pc = "contact", FitsSlot(slot[s]),
           NEW known \in Known, NEW complete \in BOOLEAN,
           NEW told \in Told(DeviceAt[slot[s].row.host], complete)
    PROVE  LET c == CollectSnapshot(slot[s], known, complete, told)
           IN  /\ c \in SlotState(fresh) /\ FitsSlot(c)
               /\ c.pc = "store" /\ c.id = slot[s].id
<1> DEFINE device == DeviceAt[slot[s].row.host]
           c == CollectSnapshot(slot[s], known, complete, told)
           status == ValidateSnapshot(complete)
<1>1. slot[s] \in SlotState(fresh) BY DEF DataTypeOK
<1>2. /\ slot[s].id \in Issued(fresh) /\ slot[s].row \in Row
      /\ Live(slot[s].id) => slot[s].row.host = rows[slot[s].id].host
  BY DEF FitsSlot
<1>3. device \in Device BY <1>2, NocDataAssumption DEF Row
<1>4. told \in {device, None} BY DEF Told
<1>5. status \in {"ok", "fail"} BY DEF ValidateSnapshot
<1>6. c = [slot[s] EXCEPT !.pc = "store", !.row = None, !.login = known,
                          !.identity = told, !.status = status]
  BY DEF CollectSnapshot
<1> HIDE DEF c, status
<1>7. c \in SlotState(fresh) BY <1>1, <1>3, <1>4, <1>5, <1>6, ZenonT(60) DEF SlotState, Status
<1>8. /\ c.pc = "store" /\ c.id = slot[s].id /\ c.login = known
      /\ c.identity = told /\ c.status = status
  BY <1>1, <1>6 DEF SlotState
<1>9. FitsSlot(c) BY <1>2, <1>4, <1>5, <1>8 DEF FitsSlot
<1> QED BY <1>7, <1>8, <1>9 DEF c

LEMMA CollectOneClass ==
    ASSUME DataTypeOK, FitInv, NEW s \in Slot, CollectOne(s)
    PROVE  SlotOnly /\ Counted
<1> DEFINE failed == [slot[s] EXCEPT !.pc = "fail", !.row = None]
<1>1. slot[s].pc = "contact" /\ FitsSlot(slot[s]) /\ slot[s] \in SlotState(fresh)
  BY DEF CollectOne, FitInv, DataTypeOK
<1>2. Counted
  <2>1. Asks \/ Fails \/ Works BY DEF CollectOne
  <2> QED BY <2>1, Counting DEF DataTypeOK
<1>3. UNCHANGED <<rows, fresh, job, excluded, logins, stranded, leftover, dismissed>>
  BY DEF CollectOne, setup, notes
<1>4. \/ slot' = [slot EXCEPT ![s] = failed]
      \/ \E known \in ResolveCredentials(slot[s].row), complete \in BOOLEAN :
           \E told \in Told(DeviceAt[slot[s].row.host], complete) :
              slot' = [slot EXCEPT ![s] = CollectSnapshot(slot[s], known, complete, told)]
  BY DEF CollectOne
<1>5. \E c \in SlotState(fresh) : /\ slot' = [slot EXCEPT ![s] = c] /\ FitsSlot(c)
                                  /\ c.pc \in {"store", "fail"} /\ c.id = slot[s].id
  <2>1. CASE slot' = [slot EXCEPT ![s] = failed]
    <3>1. failed \in SlotState(fresh) BY <1>1 DEF SlotState
    <3>2. failed.pc = "fail" /\ failed.id = slot[s].id BY <1>1 DEF SlotState
    <3> HIDE DEF failed
    <3>3. FitsSlot(failed) BY <1>1, <3>2 DEF FitsSlot
    <3> QED BY <2>1, <3>1, <3>2, <3>3
  <2>2. CASE \E known \in ResolveCredentials(slot[s].row), complete \in BOOLEAN :
               \E told \in Told(DeviceAt[slot[s].row.host], complete) :
                  slot' = [slot EXCEPT ![s] = CollectSnapshot(slot[s], known, complete, told)]
    <3>1. PICK known \in ResolveCredentials(slot[s].row), complete \in BOOLEAN :
               \E told \in Told(DeviceAt[slot[s].row.host], complete) :
                  slot' = [slot EXCEPT ![s] = CollectSnapshot(slot[s], known, complete, told)]
      BY <2>2
    <3>2. PICK told \in Told(DeviceAt[slot[s].row.host], complete) :
                  slot' = [slot EXCEPT ![s] = CollectSnapshot(slot[s], known, complete, told)]
      BY <3>1
    <3>3. known \in Known
      <4>1. \A f, login : [family |-> f, login |-> login].login = login OBVIOUS
      <4>2. known \in {slot[s].row.login} \/ known \in Known BY <3>1 DEF ResolveCredentials
      <4>3. known \in {slot[s].row.login} =>
              slot[s].row.login \in Known \/ known \in Known
        BY <3>1 DEF ResolveCredentials
      <4> QED BY <4>2, <4>3
    <3>4. PICK c : c = CollectSnapshot(slot[s], known, complete, told) OBVIOUS
    <3>5. c \in SlotState(fresh) /\ FitsSlot(c) /\ c.pc = "store" /\ c.id = slot[s].id
      BY <1>1, <3>3, <3>2, <3>4, Collected
    <3> QED BY <3>2, <3>4, <3>5
  <2> QED BY <1>4, <2>1, <2>2
<1>6. PICK c \in SlotState(fresh) : /\ slot' = [slot EXCEPT ![s] = c] /\ FitsSlot(c)
                                    /\ c.pc \in {"store", "fail"} /\ c.id = slot[s].id
  BY <1>5
<1>7. \A id \in Id : Handles(slot[s], id) => Handles(c, id) BY <1>6 DEF Handles
<1>8. \A a, b, device : ~Clears(slot[s], a, b, device) BY <1>1 DEF Clears
<1>9. stranded' \subseteq Id /\ leftover' \subseteq Device BY <1>3 DEF DataTypeOK, TypeOK
<1>10. SlotOnly BY <1>3, <1>6, <1>7, <1>8, <1>9 DEF SlotOnly
<1> QED BY <1>2, <1>10

(* A collection that ends, having handed on or given up what it was about.  *)
LEMMA SlotEnds ==
    ASSUME DataTypeOK, NEW s \in Slot, slot' = [slot EXCEPT ![s] = NoCollection],
           slot[s].pc \in {"contact", "store", "fail"} => slot[s].id \in stranded',
           slot[s].pc \in {"match", "remove"} => slot[s].identity \in leftover',
           stranded \subseteq stranded', stranded' \subseteq Id,
           leftover \subseteq leftover', leftover' \subseteq Device,
           UNCHANGED <<rows, fresh, job, excluded, logins, dismissed>>
    PROVE  SlotOnly
<1>1. PICK c : c = NoCollection OBVIOUS
<1>2. c \in SlotState(fresh) /\ c.pc = "idle"
  BY <1>1, NoCollectionState, LiveTypes DEF NoCollection
<1>3. FitsSlot(c) BY <1>2 DEF FitsSlot
<1>4. \A id \in Id : Handles(slot[s], id) => id \in stranded' BY DEF Handles
<1>5. \A a, b : \A device \in Device \ leftover' : ~Clears(slot[s], a, b, device)
  BY DEF Clears
<1>6. slot' = [slot EXCEPT ![s] = c] BY <1>1
<1> QED BY <1>2, <1>3, <1>4, <1>5, <1>6 DEF SlotOnly

LEMMA FailureClass ==
    ASSUME DataTypeOK, FitInv, NEW s \in Slot, StoreFails(s) \/ CleanupFails(s)
    PROVE  SlotOnly /\ Counted
<1>1. Counted BY Counting DEF StoreFails, CleanupFails, DataTypeOK
<1>2. FitsSlot(slot[s]) BY DEF FitInv
<1>3. stranded \subseteq Id /\ leftover \subseteq Device BY DEF DataTypeOK, TypeOK
<1>4. CASE StoreFails(s)
  <2>1. slot[s].id \in Id BY <1>2, <1>4, LiveTypes DEF StoreFails, FitsSlot
  <2>2. /\ slot[s].pc \in {"store", "fail"} /\ slot' = [slot EXCEPT ![s] = NoCollection]
        /\ stranded' = stranded \cup {slot[s].id}
        /\ UNCHANGED <<rows, fresh, job, excluded, logins, leftover, dismissed>>
    BY <1>4 DEF StoreFails, setup
  <2>3. SlotOnly BY <1>3, <2>1, <2>2, SlotEnds
  <2> QED BY <1>1, <2>3
<1>5. CASE CleanupFails(s)
  <2>1. slot[s].identity \in Device BY <1>2, <1>5 DEF CleanupFails, FitsSlot
  <2>2. /\ slot[s].pc \in {"match", "remove"} /\ slot' = [slot EXCEPT ![s] = NoCollection]
        /\ leftover' = leftover \cup {slot[s].identity}
        /\ UNCHANGED <<rows, fresh, job, excluded, logins, stranded, dismissed>>
    BY <1>5 DEF CleanupFails, setup
  <2>3. SlotOnly BY <1>3, <2>1, <2>2, SlotEnds
  <2> QED BY <1>1, <2>3
<1> QED BY <1>4, <1>5

LEMMA FindByIdentityClass ==
    ASSUME DataTypeOK, FitInv, NEW s \in Slot, FindByIdentity(s)
    PROVE  SlotOnly /\ Counted
<1> DEFINE extra == Duplicates(slot[s].identity, slot[s].id)
           removes == [slot[s] EXCEPT !.pc = "remove", !.extra = extra, !.id = None]
<1>1. Counted BY Counting DEF FindByIdentity, DataTypeOK
<1>2. /\ slot[s].pc = "match" /\ slot[s].identity \in Device /\ slot[s] \in SlotState(fresh)
      /\ IdentityTold
  BY DEF FindByIdentity, FitInv, FitsSlot, DataTypeOK
<1>3. UNCHANGED <<rows, fresh, job, excluded, logins, stranded, leftover, dismissed>>
  BY DEF FindByIdentity, setup, notes
<1>4. /\ extra \subseteq LiveIds
      /\ \A a, b \in LiveIds : a # b /\ SameDevice(a, b, slot[s].identity)
           => extra \cap {a, b} # {}
      /\ \A id \in extra : /\ DeviceAt[rows[id].host] = slot[s].identity
                           /\ BetterKept(id, slot[s].identity)
  BY <1>2, DuplicatesFound
<1>5. slot' = [slot EXCEPT ![s] = IF extra = {} THEN NoCollection ELSE removes]
  BY DEF FindByIdentity
<1> HIDE DEF extra
<1>6. /\ removes \in SlotState(fresh)
      /\ removes.pc = "remove" /\ removes.extra = extra /\ removes.identity = slot[s].identity
  <2>1. extra \in SUBSET Issued(fresh) BY <1>4, LiveTypes
  <2> QED BY <1>2, <2>1 DEF SlotState
<1> HIDE DEF removes
<1>7. PICK c : c = IF extra = {} THEN NoCollection ELSE removes OBVIOUS
<1>8. c \in SlotState(fresh)
  BY <1>6, <1>7, NoCollectionState, LiveTypes
<1>9. \/ extra = {} /\ c.pc = "idle"
      \/ /\ extra # {}
         /\ c.pc = "remove" /\ c.extra = extra /\ c.identity = slot[s].identity
  BY <1>6, <1>7 DEF NoCollection
<1>10. FitsSlot(c) BY <1>2, <1>9 DEF FitsSlot
<1>11. \A id \in Id : ~Handles(slot[s], id) BY <1>2 DEF Handles
<1>12. \A a, b \in LiveIds, device \in Device \ leftover' :
         a # b /\ SameDevice(a, b, device) /\ Clears(slot[s], a, b, device)
         => Clears(c, a, b, device)
  BY <1>2, <1>4, <1>9 DEF Clears
<1>13. c.pc = "remove" => RemovesOthers(c) BY <1>4, <1>9 DEF RemovesOthers
<1>14. slot' = [slot EXCEPT ![s] = c] BY <1>5, <1>7
<1>15. stranded' \subseteq Id /\ leftover' \subseteq Device BY <1>3 DEF DataTypeOK, TypeOK
<1>16. SlotOnly
  BY <1>3, <1>8, <1>10, <1>11, <1>12, <1>13, <1>14, <1>15 DEF SlotOnly
<1> QED BY <1>1, <1>16
-----------------------------------------------------------------------------
(* A collection writes its result.                                          *)
Result(c, id, row) ==
    /\ row \in Row /\ row.host = rows[id].host /\ row.status \in {"ok", "fail"}
    /\ row.identity \in {None, DeviceAt[rows[id].host]}
    /\ row.status = "ok" /\ row.identity # None => c.pc = "match" /\ c.identity = row.identity

SlotWrites ==
    /\ \E s \in Slot, c \in SlotState(fresh), id \in Issued(fresh) : \E row :
          /\ slot[s].pc \in {"store", "fail"} /\ slot[s].id = id
          /\ slot' = [slot EXCEPT ![s] = c]
          /\ FitsSlot(c) /\ c.pc # "remove"
          /\ Write(id, row)
          /\ Live(id) => Result(c, id, row)
    /\ UNCHANGED <<fresh, job, excluded, logins, leftover, dismissed>>

LEMMA WriteStepKeeps ==
    ASSUME DataInv, SlotWrites, Counted
    PROVE  DataInv' /\ NotLost
<1> USE DEF DataInv
<1>1. PICK s \in Slot, c \in SlotState(fresh), id \in Issued(fresh) : \E row :
        /\ slot[s].pc \in {"store", "fail"} /\ slot[s].id = id
        /\ slot' = [slot EXCEPT ![s] = c]
        /\ FitsSlot(c) /\ c.pc # "remove"
        /\ Write(id, row)
        /\ Live(id) => Result(c, id, row)
  BY DEF SlotWrites
<1>2. PICK row : Write(id, row) /\ (Live(id) => Result(c, id, row)) BY <1>1
<1>3. UNCHANGED <<fresh, job, excluded, logins, leftover, dismissed>> BY DEF SlotWrites
<1>4. /\ slot'[s] = c /\ \A t \in Slot \ {s} : slot'[t] = slot[t]
      /\ slot' \in [Slot -> SlotState(fresh)]
  BY <1>1, SlotStep
<1>5. Live(id) => row \in Row BY <1>2 DEF Result
<1>6. /\ rows' \in [Id -> Row \cup {None}] /\ LiveIds' = LiveIds
      /\ Live(id) => rows'[id] = row
      /\ \A other \in Id \ {id} : rows'[other] = rows[other]
      /\ stranded' = stranded \ {id}
  BY <1>2, <1>5, WriteStep
<1>7. id \in Id /\ (id \in LiveIds <=> Live(id)) BY LiveTypes
<1>8. \A x \in LiveIds : \/ x # id /\ rows'[x] = rows[x]
                         \/ x = id /\ rows'[x] = row /\ Result(c, id, row)
  BY <1>2, <1>6, <1>7, LiveTypes
<1>9. DataTypeOK'
  <2>1. /\ fresh' \in 1 .. MaxRows + 1
        /\ LiveIds' \subseteq Issued(fresh') /\ job' \in [Job -> JobState(fresh')]
        /\ excluded' \subseteq Exclusion /\ logins' \subseteq Family \X Login
        /\ leftover' \subseteq Device /\ dismissed' \subseteq Device
        /\ stranded' \subseteq Id
    BY <1>3, <1>6 DEF DataTypeOK, TypeOK
  <2> QED BY <1>3, <1>4, <1>6, <2>1, TypesKept
<1>10. RowsContinue /\ NotLost
  <2>1. \A x \in Id : rows'[x] # None <=> x \in LiveIds BY <1>6 DEF LiveIds, Live
  <2>2. RowsContinue BY <1>8, <2>1, LiveTypes DEF RowsContinue, Result
  <2> QED BY <2>1, <2>2, LiveTypes DEF NotLost
<1>11. FitInv'
  <2>1. fresh' \in Nat /\ fresh <= fresh' BY <1>3, LiveTypes
  <2>2. FitsSlot(c)' BY <1>1, <1>10, <2>1, SlotFitCarries
  <2>3. FitsSlot(slot[s])' BY <1>4, <2>2 DEF FitsSlot
  <2>4. \A t \in Slot : slot'[t] = slot[t] \/ FitsSlot(slot[t])' BY <1>4, <2>3
  <2>5. IdentityTold' BY <1>6, <1>8 DEF FitInv, IdentityTold, Result
  <2>6. \A k \in Job : job'[k] = job[k] BY <1>3
  <2> QED BY <1>10, <2>1, <2>4, <2>5, <2>6, FitKept
<1>12. PendingInv'
  <2>1. ASSUME NEW x \in Id, Pending(x)' PROVE Pending(x) /\ x # id
    <3>1. x \in LiveIds /\ rows'[x].status = "pending" /\ x \notin stranded \ {id}
      BY <1>6, <2>1 DEF Pending
    <3>2. x # id BY <1>8, <3>1 DEF Result
    <3> QED BY <1>8, <3>1, <3>2 DEF Pending
  <2>2. ASSUME NEW x \in Id, Owned(x), Pending(x)' PROVE Owned(x)'
    <3>1. x # id BY <2>1, <2>2
    <3>2. CASE \E k \in Job : x \in Secures(job[k])
      BY <1>3, <3>2 DEF Owned, Secures
    <3>3. CASE \E t \in Slot : Handles(slot[t], x)
      <4>1. PICK t \in Slot : Handles(slot[t], x) BY <3>3
      <4>2. t # s BY <1>1, <3>1, <4>1 DEF Handles
      <4>3. slot'[t] = slot[t] BY <1>4, <4>2
      <4> QED BY <4>1, <4>3 DEF Owned, Handles
    <3> QED BY <2>2, <3>2, <3>3 DEF Owned
  <2> QED BY <2>1, <2>2, PendingKept
<1>13. OneRowInv'
  <2>1. ASSUME NEW x \in LiveIds', NEW device \in Device, OkAs(x, device)'
        PROVE  \/ x \in LiveIds /\ OkAs(x, device)
               \/ \E t \in Slot : slot'[t].pc = "match" /\ slot'[t].identity = device
    <3>1. CASE x # id BY <1>6, <1>8, <2>1, <3>1 DEF OkAs
    <3>2. CASE x = id
      <4>1. rows'[x] = row /\ Result(c, id, row) BY <1>6, <1>8, <3>2
      <4>2. row.status = "ok" /\ row.identity = device BY <2>1, <4>1 DEF OkAs
      <4>3. device # None BY NocDataAssumption
      <4>4. c.pc = "match" /\ c.identity = device BY <4>1, <4>2, <4>3 DEF Result
      <4> QED BY <1>4, <4>4
    <3> QED BY <3>1, <3>2
  <2>2. ASSUME NEW t \in Slot, NEW a, NEW b, NEW device, Clears(slot[t], a, b, device)
        PROVE  Clears(slot[t], a, b, device)'
    <3>1. slot[t].pc \in {"match", "remove"} => slot'[t] = slot[t] BY <1>1, <1>4
    <3> QED BY <2>2, <3>1, ClearsKept
  <2>3. leftover \subseteq leftover' BY <1>3
  <2> QED BY <2>1, <2>2, <2>3, OneRowKept
<1>14. KeptInv'
  <2>1. fresh <= fresh' /\ dismissed \subseteq dismissed' BY <1>3, LiveTypes
  <2>2. \A t \in Slot : slot'[t].pc = "remove" =>
               /\ slot[t].pc = "remove" /\ slot'[t].identity = slot[t].identity
               /\ slot'[t].extra \subseteq slot[t].extra
    BY <1>1, <1>4
  <2> QED BY <1>6, <1>10, <2>1, <2>2, KeptKept
<1> QED BY <1>9, <1>10, <1>11, <1>12, <1>13, <1>14

LEMMA ResultClass ==
    ASSUME DataTypeOK, FitInv, NEW s \in Slot, FailDevice(s) \/ UpdateSnapshot(s)
    PROVE  SlotWrites /\ Counted
<1> DEFINE id == slot[s].id
<1>1. Counted BY Counting DEF FailDevice, UpdateSnapshot, DataTypeOK
<1>2. UNCHANGED <<fresh, job, excluded, logins, leftover, dismissed>>
  BY DEF FailDevice, UpdateSnapshot, setup
<1>3. slot[s].pc \in {"store", "fail"} /\ FitsSlot(slot[s]) /\ slot[s] \in SlotState(fresh)
  BY DEF FailDevice, UpdateSnapshot, FitInv, DataTypeOK
<1>4. id \in Issued(fresh) /\ id \in Id BY <1>3, LiveTypes DEF FitsSlot
<1>5. Live(id) => /\ rows[id] \in Row
                  /\ rows[id].identity \in {None, DeviceAt[rows[id].host]}
  BY <1>4, LiveTypes DEF FitInv, IdentityTold
<1>6. CASE FailDevice(s)
  <2>1. PICK c, row : c = NoCollection /\ row = [rows[id] EXCEPT !.status = "fail"] OBVIOUS
  <2>2. /\ slot' = [slot EXCEPT ![s] = c] /\ Write(id, row)
    BY <1>6, <2>1 DEF FailDevice
  <2>3. c \in SlotState(fresh) /\ c.pc = "idle"
    BY <2>1, NoCollectionState, LiveTypes DEF NoCollection
  <2>4. FitsSlot(c) BY <2>3 DEF FitsSlot
  <2>5. Live(id) => Result(c, id, row)
    BY <1>5, <2>1 DEF Result, Row, Status
  <2>6. SlotWrites BY <1>2, <1>3, <1>4, <2>2, <2>3, <2>4, <2>5 DEF SlotWrites
  <2> QED BY <1>1, <2>6
<1>7. CASE UpdateSnapshot(s)
  <2>1. PICK c, row :
          /\ c = IF slot[s].status = "ok" /\ slot[s].identity # None
                 THEN [NoCollection EXCEPT !.pc = "match", !.job = slot[s].job,
                                           !.id = slot[s].id, !.identity = slot[s].identity]
                 ELSE NoCollection
          /\ row = [rows[id] EXCEPT !.login = slot[s].login, !.status = slot[s].status,
                                    !.identity = slot[s].identity]
    OBVIOUS
  <2>2. slot' = [slot EXCEPT ![s] = c] /\ Write(id, row) /\ slot[s].pc = "store"
    BY <1>7, <2>1 DEF UpdateSnapshot
  <2>3. /\ slot[s].login \in Known /\ slot[s].status \in {"ok", "fail"}
        /\ Live(id) => slot[s].identity \in {None, DeviceAt[rows[id].host]}
        /\ slot[s].identity \in Device \cup {None}
    BY <1>3, <2>2 DEF FitsSlot, SlotState
  <2>4. /\ \/ c.pc = "idle" /\ ~(slot[s].status = "ok" /\ slot[s].identity # None)
           \/ c.pc = "match" /\ c.identity = slot[s].identity /\ slot[s].identity # None
        /\ c \in SlotState(fresh)
    <3>1. NoCollection \in SlotState(fresh) BY NoCollectionState, LiveTypes
    <3>2. CASE slot[s].status = "ok" /\ slot[s].identity # None
      BY <1>3, <2>1, <3>1, <3>2, ZenonT(60) DEF SlotState
    <3>3. CASE ~(slot[s].status = "ok" /\ slot[s].identity # None)
      <4>1. c = NoCollection BY <2>1, <3>3
      <4> QED BY <3>1, <3>3, <4>1 DEF NoCollection
    <3> QED BY <3>2, <3>3
  <2>5. FitsSlot(c) /\ c.pc # "remove" BY <2>3, <2>4 DEF FitsSlot
  <2>6. Live(id) => Result(c, id, row)
    <3>1. SUFFICES ASSUME Live(id) PROVE Result(c, id, row) OBVIOUS
    <3>2. rows[id].host \in Host BY <1>5, <3>1 DEF Row
    <3>3. DeviceAt[rows[id].host] \in Device BY <3>2, NocDataAssumption
    <3>4. /\ row \in Row /\ row.host = rows[id].host /\ row.status = slot[s].status
          /\ row.identity = slot[s].identity
      BY <1>5, <2>1, <2>3, <3>1, <3>3 DEF Row, Status
    <3> QED BY <2>3, <2>4, <3>1, <3>4 DEF Result
  <2>7. SlotWrites BY <1>2, <1>3, <1>4, <2>2, <2>4, <2>5, <2>6 DEF SlotWrites
  <2> QED BY <1>1, <2>7
<1> QED BY <1>6, <1>7
-----------------------------------------------------------------------------
(* A row goes.                                                              *)
LEMMA RowGoes ==
    ASSUME DataTypeOK, NEW id \in Id, rows' = [rows EXCEPT ![id] = None]
    PROVE  /\ rows' \in [Id -> Row \cup {None}] /\ LiveIds' = LiveIds \ {id}
           /\ rows'[id] = None /\ \A x \in Id \ {id} : rows'[x] = rows[x]
           /\ RowsContinue
<1>1. /\ rows' \in [Id -> Row \cup {None}]
      /\ rows'[id] = None /\ \A x \in Id \ {id} : rows'[x] = rows[x]
  BY LiveTypes
<1>2. LiveIds' = LiveIds \ {id} BY <1>1 DEF LiveIds, Live
<1>3. RowsContinue BY <1>1, LiveTypes DEF RowsContinue, Live
<1> QED BY <1>1, <1>2, <1>3

LEMMA RemoveStepKeeps ==
    ASSUME DataInv, NEW s \in Slot, RemoveDuplicate(s)
    PROVE  DataInv' /\ NotLost
<1> USE DEF DataInv
<1>1. PICK id \in slot[s].extra :
        /\ rows' = [rows EXCEPT ![id] = None]
        /\ slot' = [slot EXCEPT ![s] = IF slot[s].extra = {id} THEN NoCollection
                                       ELSE [slot[s] EXCEPT !.extra = @ \ {id}]]
  BY DEF RemoveDuplicate
<1>2. /\ slot[s].pc = "remove" /\ slot[s] \in SlotState(fresh) /\ RemovesOthers(slot[s])
      /\ slot[s].identity \in Device
  BY DEF RemoveDuplicate, DataTypeOK, KeptInv, FitInv, FitsSlot
<1>3. UNCHANGED <<fresh, job, excluded, logins, stranded, leftover, dismissed>>
  BY DEF RemoveDuplicate, setup, notes
<1>4. Counted BY Counting DEF RemoveDuplicate, DataTypeOK
<1>5. id \in Issued(fresh) /\ id \in Id BY <1>1, <1>2, LiveTypes DEF SlotState
<1>6. /\ rows' \in [Id -> Row \cup {None}] /\ LiveIds' = LiveIds \ {id}
      /\ rows'[id] = None /\ \A x \in Id \ {id} : rows'[x] = rows[x]
      /\ RowsContinue
  BY <1>1, <1>5, RowGoes
<1>7. PICK c : c = IF slot[s].extra = {id} THEN NoCollection
                   ELSE [slot[s] EXCEPT !.extra = @ \ {id}]
  OBVIOUS
<1>8. /\ c \in SlotState(fresh)
      /\ \/ slot[s].extra = {id} /\ c.pc = "idle"
         \/ /\ c.pc = "remove" /\ c.identity = slot[s].identity
            /\ c.extra = slot[s].extra \ {id}
  <2>1. CASE slot[s].extra = {id}
    <3>1. c = NoCollection BY <1>7, <2>1
    <3> QED BY <2>1, <3>1, NoCollectionState, LiveTypes DEF NoCollection
  <2>2. CASE slot[s].extra # {id}
    BY <1>2, <1>7, <2>2 DEF SlotState
  <2> QED BY <2>1, <2>2
<1>9. slot' = [slot EXCEPT ![s] = c] BY <1>1, <1>7
<1>10. /\ slot'[s] = c /\ \A t \in Slot \ {s} : slot'[t] = slot[t]
       /\ slot' \in [Slot -> SlotState(fresh)]
  BY <1>8, <1>9, SlotStep
<1>11. DataTypeOK'
  <2>1. /\ fresh' \in 1 .. MaxRows + 1
        /\ LiveIds' \subseteq Issued(fresh') /\ job' \in [Job -> JobState(fresh')]
        /\ excluded' \subseteq Exclusion /\ logins' \subseteq Family \X Login
        /\ leftover' \subseteq Device /\ dismissed' \subseteq Device
        /\ stranded' \subseteq Id
    BY <1>3, <1>6 DEF DataTypeOK, TypeOK
  <2> QED BY <1>3, <1>4, <1>6, <1>10, <2>1, TypesKept
<1>12. NotLost
  <2>1. ASSUME NEW x \in LiveIds, rows'[x] = None, DeviceAt[rows[x].host] \notin dismissed'
        PROVE  \E other \in LiveIds :
                  /\ Better(other, x)
                  /\ rows'[other] # None /\ rows'[other].host = rows[other].host
                  /\ DeviceAt[rows[other].host] = DeviceAt[rows[x].host]
    <3>1. x = id BY <1>6, <2>1, LiveTypes DEF Live
    <3>2. BetterKept(x, slot[s].identity) /\ DeviceAt[rows[x].host] = slot[s].identity
      BY <1>1, <1>2, <1>3, <2>1, <3>1 DEF RemovesOthers
    <3>3. PICK other \in LiveIds : /\ Better(other, x)
                                   /\ DeviceAt[rows[other].host] = slot[s].identity
      BY <3>2 DEF BetterKept
    <3>4. other # x BY <3>3, BetterOrder
    <3>5. rows'[other] # None /\ rows'[other].host = rows[other].host
      BY <1>6, <3>1, <3>4, LiveTypes DEF Live
    <3> QED BY <3>2, <3>3, <3>5
  <2> QED BY <2>1 DEF NotLost
<1>13. FitInv'
  <2>1. fresh' \in Nat /\ fresh <= fresh' BY <1>3, LiveTypes
  <2>2. FitsSlot(slot[s])' BY <1>2, <1>8, <1>10 DEF FitsSlot
  <2>3. \A t \in Slot : slot'[t] = slot[t] \/ FitsSlot(slot[t])' BY <1>10, <2>2
  <2>4. IdentityTold' BY <1>6, LiveTypes DEF FitInv, IdentityTold
  <2>5. \A k \in Job : job'[k] = job[k] BY <1>3
  <2> QED BY <1>6, <2>1, <2>3, <2>4, <2>5, FitKept
<1>14. PendingInv'
  <2>1. ASSUME NEW x \in Id, Pending(x)' PROVE Pending(x)
    BY <1>3, <1>6, <2>1 DEF Pending
  <2>2. ASSUME NEW x \in Id, Owned(x) PROVE Owned(x)'
    <3>1. CASE \E k \in Job : x \in Secures(job[k])
      BY <1>3, <3>1 DEF Owned, Secures
    <3>2. CASE \E t \in Slot : Handles(slot[t], x)
      <4>1. PICK t \in Slot : Handles(slot[t], x) BY <3>2
      <4>2. t # s BY <1>2, <4>1 DEF Handles
      <4>3. slot'[t] = slot[t] BY <1>10, <4>2
      <4> QED BY <4>1, <4>3 DEF Owned, Handles
    <3> QED BY <2>2, <3>1, <3>2 DEF Owned
  <2> QED BY <2>1, <2>2, PendingKept
<1>15. OneRowInv'
  <2>1. \A x \in LiveIds', device \in Device : OkAs(x, device)' =>
               x \in LiveIds /\ OkAs(x, device)
    BY <1>6, LiveTypes DEF OkAs
  <2>2. ASSUME NEW t \in Slot, NEW a \in LiveIds', NEW b \in LiveIds', NEW device,
               Clears(slot[t], a, b, device)
        PROVE  Clears(slot[t], a, b, device)'
    <3>1. CASE t = s
      <4>1. a # id /\ b # id BY <1>6
      <4>2. Clears(c, a, b, device)
        <5>1. device = slot[s].identity /\ slot[s].extra \cap {a, b} # {}
          BY <1>2, <2>2, <3>1 DEF Clears
        <5>2. slot[s].extra # {id} BY <4>1, <5>1
        <5>3. c.pc = "remove" /\ c.identity = device /\ c.extra = slot[s].extra \ {id}
          BY <1>8, <5>1, <5>2
        <5>4. c.extra \cap {a, b} # {} BY <4>1, <5>1, <5>3
        <5> QED BY <5>3, <5>4 DEF Clears
      <4> QED BY <1>10, <3>1, <4>2 DEF Clears
    <3>2. CASE t # s
      <4>1. slot'[t] = slot[t] BY <1>10, <3>2
      <4> QED BY <2>2, <4>1, ClearsKept
    <3> QED BY <3>1, <3>2
  <2>3. leftover \subseteq leftover' BY <1>3
  <2> QED BY <2>1, <2>2, <2>3, OneRowKept
<1>16. KeptInv'
  <2>1. fresh <= fresh' /\ dismissed \subseteq dismissed' BY <1>3, LiveTypes
  <2>2. ASSUME NEW t \in Slot, slot'[t].pc = "remove"
        PROVE  /\ slot[t].pc = "remove" /\ slot'[t].identity = slot[t].identity
               /\ slot'[t].extra \subseteq slot[t].extra
    <3>1. CASE t = s BY <1>2, <1>8, <1>10, <2>2, <3>1
    <3>2. CASE t # s BY <1>10, <2>2, <3>2
    <3> QED BY <3>1, <3>2
  <2> QED BY <1>6, <1>12, <2>1, <2>2, KeptKept
<1> QED BY <1>11, <1>12, <1>13, <1>14, <1>15, <1>16

LEMMA DeleteStepKeeps ==
    ASSUME DataInv, DeleteDevice
    PROVE  DataInv' /\ NotLost
<1> USE DEF DataInv
<1>1. PICK id \in LiveIds : /\ rows' = [rows EXCEPT ![id] = None]
                            /\ dismissed' = dismissed \cup {DeviceAt[rows[id].host]}
  BY DEF DeleteDevice
<1>2. UNCHANGED <<fresh, job, slot, excluded, logins, stranded, leftover>>
  BY DEF DeleteDevice, setup
<1>3. Counted BY Counting DEF DeleteDevice, DataTypeOK
<1>4. id \in Id /\ DeviceAt[rows[id].host] \in Device
  BY LiveTypes, NocDataAssumption
<1>5. /\ rows' \in [Id -> Row \cup {None}] /\ LiveIds' = LiveIds \ {id}
      /\ rows'[id] = None /\ \A x \in Id \ {id} : rows'[x] = rows[x]
      /\ RowsContinue
  BY <1>1, <1>4, RowGoes
<1>6. DataTypeOK'
  <2>1. /\ fresh' \in 1 .. MaxRows + 1
        /\ LiveIds' \subseteq Issued(fresh') /\ job' \in [Job -> JobState(fresh')]
        /\ slot' \in [Slot -> SlotState(fresh')]
        /\ excluded' \subseteq Exclusion /\ logins' \subseteq Family \X Login
        /\ leftover' \subseteq Device /\ dismissed' \subseteq Device
        /\ stranded' \subseteq Id
    BY <1>1, <1>2, <1>4, <1>5 DEF DataTypeOK, TypeOK
  <2> QED BY <1>3, <1>5, <2>1, TypesKept
<1>7. NotLost
  <2>1. \A x \in LiveIds : rows'[x] = None => x = id BY <1>5, LiveTypes DEF Live
  <2> QED BY <1>1, <2>1 DEF NotLost
<1>8. FitInv'
  <2>1. fresh' \in Nat /\ fresh <= fresh' BY <1>2, LiveTypes
  <2>2. IdentityTold' BY <1>5, LiveTypes DEF FitInv, IdentityTold
  <2>3. (\A k \in Job : job'[k] = job[k]) /\ \A t \in Slot : slot'[t] = slot[t] BY <1>2
  <2> QED BY <1>5, <2>1, <2>2, <2>3, FitKept
<1>9. PendingInv'
  <2>1. ASSUME NEW x \in Id, Pending(x)' PROVE Pending(x)
    BY <1>2, <1>5, <2>1 DEF Pending
  <2>2. \A x \in Id : Owned(x) => Owned(x)' BY <1>2 DEF Owned, Secures, Handles
  <2> QED BY <2>1, <2>2, PendingKept
<1>10. OneRowInv'
  <2>1. \A x \in LiveIds', device \in Device : OkAs(x, device)' =>
               x \in LiveIds /\ OkAs(x, device)
    BY <1>5, LiveTypes DEF OkAs
  <2>2. \A s \in Slot : \A a, b, device :
               Clears(slot[s], a, b, device) => Clears(slot[s], a, b, device)'
    BY <1>2, ClearsKept
  <2> QED BY <1>2, <2>1, <2>2, OneRowKept
<1>11. KeptInv'
  <2>1. fresh <= fresh' /\ dismissed \subseteq dismissed' BY <1>1, <1>2, LiveTypes
  <2>2. \A s \in Slot : slot'[s].pc = "remove" =>
               /\ slot[s].pc = "remove" /\ slot'[s].identity = slot[s].identity
               /\ slot'[s].extra \subseteq slot[s].extra
    BY <1>2
  <2> QED BY <1>5, <1>7, <2>1, <2>2, KeptKept
<1> QED BY <1>6, <1>7, <1>8, <1>9, <1>10, <1>11
-----------------------------------------------------------------------------
(* A job hands a row to a collection: the row is no longer the job's, but   *)
(* the collection's, or it is gone.                                         *)
LEMMA TakeStepKeeps ==
    ASSUME DataInv, NEW j \in Job, NEW s \in Slot, Take(j, s)
    PROVE  DataInv' /\ NotLost
<1> USE DEF DataInv
<1>1. PICK id \in IF job[j].pc = "collect" THEN {job[j].id} ELSE job[j].todo :
          LET row == IF job[j].pc = "pass" THEN job[j].list[id] ELSE rows[id] IN
          /\ slot' = [slot EXCEPT ![s] = IF row = None THEN NoCollection ELSE
                        [NoCollection EXCEPT !.pc = "contact", !.job = j, !.id = id,
                                             !.row = row]]
          /\ Go(j, IF job[j].pc = "collect"
                   THEN [job[j] EXCEPT !.pc = "recover", !.id = None]
                   ELSE [job[j] EXCEPT !.todo = @ \ {id}])
  BY DEF Take
<1>2. PICK row, c, change :
        /\ row = IF job[j].pc = "pass" THEN job[j].list[id] ELSE rows[id]
        /\ c = IF row = None THEN NoCollection
               ELSE [NoCollection EXCEPT !.pc = "contact", !.job = j, !.id = id, !.row = row]
        /\ change = IF job[j].pc = "collect"
                    THEN [job[j] EXCEPT !.pc = "recover", !.id = None]
                    ELSE [job[j] EXCEPT !.todo = @ \ {id}]
  OBVIOUS
<1>3. slot' = [slot EXCEPT ![s] = c] /\ Go(j, change) BY <1>1, <1>2
<1>4. /\ slot[s].pc = "idle" /\ job[j] \in JobState(fresh) /\ FitsJob(job[j])
      /\ job[j].pc \in {"pass", "scan", "upsert", "all", "each", "collect"}
  BY DEF Take, IdleSlot, Parallel, OneByOne, DataTypeOK, FitInv
<1>5. UNCHANGED <<rows, fresh, excluded, logins, stranded, leftover, dismissed>>
  BY DEF Take, setup, notes
<1>6. Counted BY Counting DEF Take, DataTypeOK
<1>7. id \in Issued(fresh) /\ id \in Id
  BY <1>1, <1>4, LiveTypes DEF FitsJob, JobState
<1>8. Secures(job[j]) = IF job[j].pc = "collect" THEN {id} ELSE job[j].todo
  BY <1>1, <1>4 DEF Secures
<1>9. /\ row \in Row \cup {None}
      /\ row # None /\ Live(id) => row.host = rows[id].host
      /\ row = None => ~Live(id)
  <2>1. CASE job[j].pc = "pass"
    <3>1. row = job[j].list[id] /\ id \in job[j].todo BY <1>1, <1>2, <2>1
    <3>2. row \in Row /\ (Live(id) => row.host = rows[id].host)
      BY <1>4, <2>1, <3>1 DEF FitsJob
    <3> QED BY <3>2, NocDataAssumption
  <2>2. CASE job[j].pc # "pass"
    <3>1. row = rows[id] BY <1>2, <2>2
    <3> QED BY <1>7, <3>1, LiveTypes DEF Live
  <2> QED BY <2>1, <2>2
<1>10. /\ c \in SlotState(fresh)
       /\ \/ row = None /\ c.pc = "idle"
          \/ row # None /\ c.pc = "contact" /\ c.id = id /\ c.row = row
  <2>1. NoCollection \in SlotState(fresh) BY NoCollectionState, LiveTypes
  <2>2. CASE row = None
    <3>1. c = NoCollection BY <1>2, <2>2
    <3> QED BY <2>1, <2>2, <3>1 DEF NoCollection
  <2>3. CASE row # None
    <3>1. c = [NoCollection EXCEPT !.pc = "contact", !.job = j, !.id = id, !.row = row]
      BY <1>2, <2>3
    <3>2. c \in SlotState(fresh) BY <1>7, <1>9, <2>1, <3>1 DEF SlotState
    <3> QED BY <2>3, <3>1, <3>2 DEF NoCollection
  <2> QED BY <2>2, <2>3
<1>11. FitsSlot(c) BY <1>7, <1>9, <1>10 DEF FitsSlot
<1>12. /\ change \in JobState(fresh)
       /\ \/ job[j].pc = "collect" /\ change.pc = "recover"
          \/ /\ job[j].pc # "collect" /\ change.pc = job[j].pc
             /\ change.todo = job[j].todo \ {id}
             /\ change.list = job[j].list /\ change.range = job[j].range
             /\ change.host = job[j].host
  BY <1>2, <1>4, ZenonT(120) DEF JobState
<1>13. FitsJob(change) BY <1>4, <1>12 DEF FitsJob
<1>14. Secures(job[j]) \subseteq Secures(change) \cup {id}
  BY <1>4, <1>8, <1>12 DEF Secures
<1>15. job'[j] = change /\ \A k \in Job \ {j} : job'[k] = job[k] BY <1>3, GoStep
<1>16. job' \in [Job -> JobState(fresh)] BY <1>3, <1>12, GoStep, LiveTypes DEF DataTypeOK
<1>17. /\ slot'[s] = c /\ \A t \in Slot \ {s} : slot'[t] = slot[t]
       /\ slot' \in [Slot -> SlotState(fresh)]
  BY <1>3, <1>10, SlotStep
<1>18. LiveIds' = LiveIds BY <1>5 DEF LiveIds, Live
<1>19. DataTypeOK'
  <2>1. /\ rows' \in [Id -> Row \cup {None}] /\ fresh' \in 1 .. MaxRows + 1
        /\ LiveIds' \subseteq Issued(fresh')
        /\ excluded' \subseteq Exclusion /\ logins' \subseteq Family \X Login
        /\ leftover' \subseteq Device /\ dismissed' \subseteq Device
        /\ stranded' \subseteq Id
    BY <1>5, <1>18 DEF DataTypeOK, TypeOK
  <2> QED BY <1>5, <1>6, <1>16, <1>17, <2>1, TypesKept
<1>20. RowsContinue /\ NotLost BY <1>5 DEF RowsContinue, NotLost, LiveIds, Live
<1>21. FitInv'
  <2>1. fresh' \in Nat /\ fresh <= fresh' BY <1>5, LiveTypes
  <2>2. FitsSlot(c)' BY <1>10, <1>11, <1>20, <2>1, SlotFitCarries
  <2>3. FitsSlot(slot[s])' BY <1>17, <2>2 DEF FitsSlot
  <2>4. \A t \in Slot : slot'[t] = slot[t] \/ FitsSlot(slot[t])' BY <1>17, <2>3
  <2>5. IdentityTold' BY <1>5, <1>18 DEF FitInv, IdentityTold
  <2>6. \A k \in Job : \/ job'[k] = job[k]
                       \/ \E r \in JobState(fresh) : job'[k] = r /\ FitsJob(r)
    BY <1>12, <1>13, <1>15
  <2> QED BY <1>20, <2>1, <2>4, <2>5, <2>6, FitKept
<1>22. PendingInv'
  <2>1. ASSUME NEW x \in Id, Pending(x)' PROVE Pending(x)
    BY <1>5, <1>18, <2>1 DEF Pending
  <2>2. ASSUME NEW x \in Id, Owned(x), Pending(x)' PROVE Owned(x)'
    <3>1. CASE \E t \in Slot : Handles(slot[t], x)
      <4>1. PICK t \in Slot : Handles(slot[t], x) BY <3>1
      <4>2. t # s BY <1>4, <4>1 DEF Handles
      <4>3. slot'[t] = slot[t] BY <1>17, <4>2
      <4> QED BY <4>1, <4>3 DEF Owned, Handles
    <3>2. CASE \E k \in Job : x \in Secures(job[k])
      <4>1. PICK k \in Job : x \in Secures(job[k]) BY <3>2
      <4>2. CASE k # j
        <5>1. job'[k] = job[k] BY <1>15, <4>2
        <5> QED BY <4>1, <5>1 DEF Owned, Secures
      <4>3. CASE k = j /\ x # id
        <5>1. x \in Secures(change) BY <1>14, <4>1, <4>3
        <5> QED BY <1>15, <5>1 DEF Owned, Secures
      <4>4. CASE x = id
        <5>1. Live(id) BY <2>1, <2>2, <4>4, LiveTypes DEF Pending
        <5>2. Handles(c, id) BY <1>9, <1>10, <5>1 DEF Handles
        <5> QED BY <1>17, <4>4, <5>2 DEF Owned, Handles
      <4> QED BY <4>2, <4>3, <4>4
    <3> QED BY <2>2, <3>1, <3>2 DEF Owned
  <2> QED BY <2>1, <2>2, PendingKept
<1>23. OneRowInv'
  <2>1. \A x \in LiveIds', device \in Device : OkAs(x, device)' =>
               x \in LiveIds /\ OkAs(x, device)
    BY <1>5, <1>18 DEF OkAs
  <2>2. ASSUME NEW t \in Slot, NEW a, NEW b, NEW device, Clears(slot[t], a, b, device)
        PROVE  Clears(slot[t], a, b, device)'
    <3>1. slot[t].pc \in {"match", "remove"} => slot'[t] = slot[t] BY <1>4, <1>17
    <3> QED BY <2>2, <3>1, ClearsKept
  <2>3. leftover \subseteq leftover' BY <1>5
  <2> QED BY <2>1, <2>2, <2>3, OneRowKept
<1>24. KeptInv'
  <2>1. rows' \in [Id -> Row \cup {None}] /\ fresh <= fresh' /\ dismissed \subseteq dismissed'
    BY <1>5, LiveTypes
  <2>2. \A t \in Slot : slot'[t].pc = "remove" =>
               /\ slot[t].pc = "remove" /\ slot'[t].identity = slot[t].identity
               /\ slot'[t].extra \subseteq slot[t].extra
    BY <1>10, <1>17
  <2> QED BY <1>20, <2>1, <2>2, KeptKept
<1> QED BY <1>19, <1>20, <1>21, <1>22, <1>23, <1>24

(* A crash takes every job and collection: what is pending is stranded, and *)
(* what was about to be cleared is left over.                               *)
LEMMA CrashStepKeeps ==
    ASSUME DataInv, Crash
    PROVE  DataInv' /\ NotLost
<1> USE DEF DataInv
<1>1. PICK r, c : r = NoJob /\ c = NoCollection OBVIOUS
<1>2. /\ job' = [j \in Job |-> r] /\ slot' = [s \in Slot |-> c]
      /\ stranded' = {id \in LiveIds : rows[id].status = "pending"}
      /\ leftover' = leftover \cup {slot[s].identity : s \in {t \in Slot :
                                       slot[t].pc \in {"match", "remove"}}}
      /\ UNCHANGED <<rows, fresh, excluded, logins, dismissed>>
  BY <1>1 DEF Crash, setup
<1>3. Counted BY DEF Crash, DataTypeOK, TypeOK, Counted
<1>4. /\ r \in JobState(fresh) /\ r.pc = "idle" /\ c \in SlotState(fresh) /\ c.pc = "idle"
  BY <1>1, NoJobState, NoCollectionState, LiveTypes DEF NoJob, NoCollection
<1>5. LiveIds' = LiveIds BY <1>2 DEF LiveIds, Live
<1>6. \A s \in Slot : slot[s].pc \in {"match", "remove"} => slot[s].identity \in Device
  BY DEF FitInv, FitsSlot
<1>7. DataTypeOK'
  <2>1. /\ rows' \in [Id -> Row \cup {None}] /\ fresh' \in 1 .. MaxRows + 1
        /\ LiveIds' \subseteq Issued(fresh')
        /\ excluded' \subseteq Exclusion /\ logins' \subseteq Family \X Login
        /\ dismissed' \subseteq Device
    BY <1>2, <1>5 DEF DataTypeOK, TypeOK
  <2>2. job' \in [Job -> JobState(fresh')] /\ slot' \in [Slot -> SlotState(fresh')]
    BY <1>2, <1>4
  <2>3. leftover' \subseteq Device BY <1>2, <1>6 DEF DataTypeOK, TypeOK
  <2>4. stranded' \subseteq Id BY <1>2, LiveTypes
  <2> QED BY <1>3, <2>1, <2>2, <2>3, <2>4, TypesKept
<1>8. NotLost BY <1>2 DEF NotLost, LiveIds, Live
<1>9. FitInv'
  <2>1. FitsJob(r)' /\ FitsSlot(c)' BY <1>4 DEF FitsJob, FitsSlot
  <2>2. \A j \in Job : FitsJob(job[j])' BY <1>2, <1>4 DEF FitsJob
  <2>3. \A s \in Slot : FitsSlot(slot[s])' BY <1>2, <1>4 DEF FitsSlot
  <2>4. IdentityTold' BY <1>2, <1>5 DEF FitInv, IdentityTold
  <2> QED BY <2>2, <2>3, <2>4 DEF FitInv
<1>10. PendingInv' BY <1>2, <1>5 DEF PendingInv, Pending
<1>11. OneRowInv'
  <2>1. ASSUME NEW a \in LiveIds', NEW b \in LiveIds', NEW device \in Device \ leftover',
               a # b, SameDevice(a, b, device)'
        PROVE  FALSE
    <3>1. SameDevice(a, b, device) /\ device \in Device \ leftover /\ a \in LiveIds /\ b \in LiveIds
      BY <1>2, <1>5, <2>1 DEF SameDevice
    <3>2. PICK s \in Slot : Clears(slot[s], a, b, device) BY <2>1, <3>1 DEF OneRowInv
    <3>3. slot[s].identity \in leftover' BY <1>2, <3>2 DEF Clears
    <3> QED BY <3>2, <3>3 DEF Clears
  <2> QED BY <2>1 DEF OneRowInv
<1>12. KeptInv' BY <1>2, <1>4 DEF KeptInv
<1> QED BY <1>7, <1>8, <1>9, <1>10, <1>11, <1>12

(* Nothing but the exclusions and logins changes.                           *)
LEMMA SetupStepKeeps ==
    ASSUME DataInv, Counted, UNCHANGED <<rows, fresh, job, slot, notes>>,
           excluded' \subseteq Exclusion, logins' \subseteq Family \X Login
    PROVE  DataInv' /\ NotLost
<1> USE DEF DataInv
<1>1. UNCHANGED <<rows, fresh, job, slot, stranded, leftover, dismissed>> BY DEF notes
<1>2. LiveIds' = LiveIds BY <1>1 DEF LiveIds, Live
<1>3. DataTypeOK'
  <2>1. /\ rows' \in [Id -> Row \cup {None}] /\ fresh' \in 1 .. MaxRows + 1
        /\ LiveIds' \subseteq Issued(fresh')
        /\ job' \in [Job -> JobState(fresh')] /\ slot' \in [Slot -> SlotState(fresh')]
        /\ leftover' \subseteq Device /\ dismissed' \subseteq Device
        /\ stranded' \subseteq Id
    BY <1>1, <1>2 DEF DataTypeOK, TypeOK
  <2> QED BY <2>1, TypesKept
<1>4. NotLost BY <1>1 DEF NotLost, LiveIds, Live
<1>5. FitInv'
  <2>1. \A j \in Job : FitsJob(job[j])' BY <1>1 DEF FitInv, FitsJob, Live
  <2>2. \A s \in Slot : FitsSlot(slot[s])' BY <1>1 DEF FitInv, FitsSlot, Live
  <2>3. IdentityTold' BY <1>1, <1>2 DEF FitInv, IdentityTold
  <2> QED BY <2>1, <2>2, <2>3 DEF FitInv
<1>6. PendingInv'
  BY <1>1, <1>2 DEF PendingInv, Pending, Owned, Secures, Handles
<1>7. OneRowInv' BY <1>1, <1>2 DEF OneRowInv, SameDevice, Clears
<1>8. KeptInv'
  BY <1>1, <1>2 DEF KeptInv, RemovesOthers, BetterKept, Better
<1> QED BY <1>3, <1>4, <1>5, <1>6, <1>7, <1>8
-----------------------------------------------------------------------------
LEMMA InitKeeps == ASSUME Init PROVE DataInv
<1>1. /\ rows \in [Id -> Row \cup {None}]
      /\ \A id \in LiveIds : rows[id].identity \in {None, DeviceAt[rows[id].host]}
  BY NocDataAssumption DEF Init, LiveIds, Live
<1>2. MaxRows \in Nat BY NocDataAssumption
<1> DEFINE After(n) == \A id \in LiveIds : id < n
           S == {n \in 1 .. MaxRows + 1 : After(n)}
<1>3. fresh \in 1 .. MaxRows + 1 /\ After(fresh)
  <2>1. MaxRows + 1 \in S BY <1>2 DEF LiveIds, Id
  <2>2. S \in SUBSET Nat /\ S # {}
    <3>1. 1 .. MaxRows + 1 \subseteq Nat BY <1>2
    <3> HIDE DEF After
    <3> QED BY <2>1, <3>1
  <2>3. \E n \in S : \A m \in S : n <= m
    <3> HIDE DEF S
    <3> QED BY <2>2, HasLeast
  <2>4. \E n \in 1 .. MaxRows + 1 :
           After(n) /\ \A m \in 1 .. MaxRows + 1 : After(m) => n <= m
    BY <2>3
  <2>5. fresh = CHOOSE n \in 1 .. MaxRows + 1 :
                   After(n) /\ \A m \in 1 .. MaxRows + 1 : After(m) => n <= m
    BY DEF Init
  <2> HIDE DEF After
  <2> QED BY <2>4, <2>5
<1>4. LiveIds \subseteq Issued(fresh) /\ fresh \in Nat
  BY <1>2, <1>3 DEF Issued, LiveIds, Id
<1>5. PICK r, c : r = NoJob /\ c = NoCollection OBVIOUS
<1>6. job = [j \in Job |-> r] /\ slot = [s \in Slot |-> c] BY <1>5 DEF Init
<1>7. /\ r \in JobState(fresh) /\ r.pc = "idle" /\ r.todo = {} /\ r.ids = {}
      /\ c \in SlotState(fresh) /\ c.pc = "idle" /\ c.job = None /\ c.id = None
  BY <1>4, <1>5, NoJobState, NoCollectionState DEF NoJob, NoCollection
<1>8. /\ stranded = {id \in LiveIds : rows[id].status = "pending"}
      /\ leftover = {d \in Device : \E a, b \in LiveIds : a # b /\ SameDevice(a, b, d)}
      /\ excluded = {} /\ logins = InitialLogins /\ dismissed = {}
      /\ requests = 0 /\ faults = 0 /\ crashes = 0
  BY DEF Init
<1>9. DataTypeOK
  <2>1. stranded \subseteq Id /\ leftover \subseteq Device BY <1>8 DEF LiveIds
  <2>2. logins \subseteq Family \X Login BY <1>8, NocDataAssumption
  <2>3. \A j \in Job : job[j].todo \subseteq Id /\ job[j].ids \subseteq Id BY <1>6, <1>7
  <2>4. \A s \in Slot : slot[s].job \in Job \cup {None} /\ slot[s].id \in Id \cup {None}
    BY <1>6, <1>7
  <2>5. TypeOK BY <1>1, <1>3, <1>8, <2>1, <2>2, <2>3, <2>4 DEF TypeOK
  <2> QED BY <1>4, <1>6, <1>7, <2>5 DEF DataTypeOK
<1>10. FitInv
  <2>1. \A j \in Job : FitsJob(job[j]) BY <1>6, <1>7 DEF FitsJob
  <2>2. \A s \in Slot : FitsSlot(slot[s]) BY <1>6, <1>7 DEF FitsSlot
  <2> QED BY <1>1, <2>1, <2>2 DEF FitInv, IdentityTold
<1>11. PendingInv BY <1>8 DEF PendingInv, Pending
<1>12. OneRowInv BY <1>8 DEF OneRowInv
<1>13. KeptInv BY <1>6, <1>7 DEF KeptInv
<1> QED BY <1>9, <1>10, <1>11, <1>12, <1>13 DEF DataInv

LEMMA NextKeeps == ASSUME DataInv, [Next]_vars PROVE DataInv' /\ NotLost
<1> USE DEF DataInv
<1>1. ASSUME NEW s \in Slot, Collect(s) PROVE DataInv' /\ NotLost
  <2>1. CASE CollectOne(s) BY <2>1, CollectOneClass, SlotStepKeeps
  <2>2. CASE FailDevice(s) \/ UpdateSnapshot(s) BY <2>2, ResultClass, WriteStepKeeps
  <2>3. CASE StoreFails(s) \/ CleanupFails(s) BY <2>3, FailureClass, SlotStepKeeps
  <2>4. CASE FindByIdentity(s) BY <2>4, FindByIdentityClass, SlotStepKeeps
  <2>5. CASE RemoveDuplicate(s) BY <2>5, RemoveStepKeeps
  <2> QED BY <1>1, <2>1, <2>2, <2>3, <2>4, <2>5 DEF Collect
<1>2. ASSUME NEW j \in Job, NEW s \in Slot, Take(j, s) PROVE DataInv' /\ NotLost
  BY <1>2, TakeStepKeeps
<1>3. CASE RunAllNow BY <1>3, RunAllNowClass, JobStepKeeps
<1>4. CASE SaveHistory BY <1>4, EndClass, JobStepKeeps
<1>5. ASSUME NEW j \in Job, ListFailed(j) \/ ResetForRecovery(j) PROVE DataInv' /\ NotLost
  <2>1. CASE ListFailed(j) BY <2>1, ListFailedClass, JobStepKeeps
  <2>2. CASE ResetForRecovery(j)
    BY <2>2, ResetForRecoveryClass, JobStepKeeps, ResetStepKeeps
  <2> QED BY <1>5, <2>1, <2>2
<1>6. ASSUME NEW r \in Request,
             \/ CreateDevice(r) \/ FindByRangeHost(r) \/ UpsertDiscoveredDevice(r)
             \/ RetryRange(r) \/ RunFailedDevices(r) \/ ResetListed(r) \/ Finish(r)
      PROVE  DataInv' /\ NotLost
  <2>1. CASE CreateDevice(r) \/ RetryRange(r) \/ RunFailedDevices(r)
    BY <2>1, RequestClass, JobStepKeeps
  <2>2. CASE FindByRangeHost(r) BY <2>2, FindByRangeHostClass, JobStepKeeps
  <2>3. CASE UpsertDiscoveredDevice(r)
    BY <2>3, UpsertClass, JobStepKeeps, ResetStepKeeps, DiscoverStepKeeps
  <2>4. CASE ResetListed(r) BY <2>4, ResetListedClass, JobStepKeeps, ResetStepKeeps
  <2>5. CASE Finish(r) BY <2>5, EndClass, JobStepKeeps
  <2> QED BY <1>6, <2>1, <2>2, <2>3, <2>4, <2>5
<1>7. CASE DeleteDevice BY <1>7, DeleteStepKeeps
<1>8. CASE ChangeExclusions \/ CreateCredential \/ DeleteCredential
  <2>1. Counted
    BY <1>8, Counting DEF ChangeExclusions, CreateCredential, DeleteCredential, DataTypeOK
  <2>2. UNCHANGED <<rows, fresh, job, slot, notes>>
    BY <1>8 DEF ChangeExclusions, CreateCredential, DeleteCredential
  <2>3. excluded' \subseteq Exclusion /\ logins' \subseteq Family \X Login
    BY <1>8 DEF ChangeExclusions, CreateCredential, DeleteCredential, DataTypeOK, TypeOK
  <2> QED BY <2>1, <2>2, <2>3, SetupStepKeeps
<1>9. CASE Crash BY <1>9, CrashStepKeeps
<1>10. CASE UNCHANGED vars
  <2>1. Counted BY <1>10 DEF vars, bounds, Counted, DataTypeOK, TypeOK
  <2>2. UNCHANGED <<rows, fresh, job, slot, notes>> BY <1>10 DEF vars
  <2>3. excluded' \subseteq Exclusion /\ logins' \subseteq Family \X Login
    BY <1>10 DEF vars, setup, DataTypeOK, TypeOK
  <2> QED BY <2>1, <2>2, <2>3, SetupStepKeeps
<1>11. CASE AtRest BY <1>10, <1>11 DEF AtRest
<1> HIDE DEF DataInv
<1> QED BY <1>1, <1>2, <1>3, <1>4, <1>5, <1>6, <1>7, <1>8, <1>9, <1>10, <1>11 DEF Next

(* The invariant holds in every state.                                      *)
THEOREM DataIsSound == Spec => []DataInv
<1>1. DataInv /\ [Next]_vars => DataInv' BY NextKeeps
<1> QED BY <1>1, InitKeeps, PTL DEF Spec

(* Rows, jobs and collections are always records of the kinds the program   *)
(* declares.                                                                *)
THEOREM DataIsTyped == Spec => []TypeOK
<1>1. DataInv => TypeOK BY DEF DataInv, DataTypeOK
<1> QED BY <1>1, DataIsSound, PTL

(* A pending row is about to be collected by some job, however the weekly   *)
(* run, retries, recoveries and discoveries interleave, unless a crash or a *)
(* failed call stranded it.                                                 *)
THEOREM NoRowIsForgotten == Spec => []PendingIsCollected
<1>1. ASSUME DataInv PROVE PendingIsCollected
  <2>1. ASSUME NEW id \in LiveIds \ stranded, rows[id].status = "pending"
        PROVE  \/ \E j \in Job : id \in Owed(j)
               \/ \E s \in Slot : slot[s].id = id /\ slot[s].pc \in {"contact", "store", "fail"}
    <3>1. id \in Id BY DEF LiveIds
    <3>2. Owned(id) BY <1>1, <2>1, <3>1 DEF DataInv, PendingInv, Pending
    <3>3. \A j \in Job : id \in Secures(job[j]) => id \in Owed(j) BY DEF Secures, Owed
    <3> QED BY <3>2, <3>3 DEF Owned, Handles
  <2> QED BY <2>1 DEF PendingIsCollected
<1> QED BY <1>1, DataIsSound, PTL

(* Of two rows of one device that say ok a collection is about to remove    *)
(* one, whichever collections finish together.                              *)
THEOREM NoDuplicateStays == Spec => []OneRowPerDevice
<1>1. DataInv => OneRowPerDevice
  BY DEF DataInv, OneRowInv, OneRowPerDevice, Clears
<1> QED BY <1>1, DataIsSound, PTL

(* Removing duplicates never takes the last row of a device, whatever other *)
(* collections remove at the same time.                                     *)
THEOREM NoDeviceIsLost == Spec => DeviceKept
<1>1. ASSUME DataInv, [Next]_vars
      PROVE  [ \A id \in Id :
                 LET device == DeviceAt[rows[id].host] IN
                 ( /\ Live(id) /\ rows'[id] = None /\ device \notin dismissed')
                 => \E other \in Id : rows'[other] # None
                                      /\ DeviceAt[rows'[other].host] = device ]_vars
  <2>1. NotLost BY <1>1, NextKeeps
  <2>2. ASSUME NEW id \in Id, Live(id), rows'[id] = None,
               DeviceAt[rows[id].host] \notin dismissed'
        PROVE  \E other \in Id : rows'[other] # None
                                 /\ DeviceAt[rows'[other].host] = DeviceAt[rows[id].host]
    <3>1. id \in LiveIds BY <2>2 DEF LiveIds
    <3>2. PICK other \in LiveIds : /\ rows'[other] # None /\ rows'[other].host = rows[other].host
                                   /\ DeviceAt[rows[other].host] = DeviceAt[rows[id].host]
      BY <2>1, <2>2, <3>1 DEF NotLost
    <3> QED BY <3>2 DEF LiveIds
  <2> QED BY <2>2
<1> QED BY <1>1, DataIsSound, PTL DEF Spec, DeviceKept

(***************************************************************************)
(* The hosts of a range (AddressRange).                                    *)
(***************************************************************************)
(* The sizes a block of an octet's values can have under a mask.           *)
BlockSize == {1, 2, 4, 8, 16, 32, 64, 128, 256}

(* What a mask with blocks of size b keeps of an octet.                     *)
Kept(x, b) == x - (x % b)

(* Between two values of one block of an octet all are of that block.       *)
LEMMA BlockIsConvex ==
    ASSUME NEW b \in BlockSize, NEW x \in Octet, NEW y \in Octet, NEW z \in Octet,
           x <= y, y <= z, Kept(x, b) = Kept(z, b)
    PROVE  Kept(y, b) = Kept(x, b)
<1>1. CASE b = 1
  BY <1>1 DEF Octet, Kept
<1>2. CASE b = 2
  BY <1>2 DEF Octet, Kept
<1>3. CASE b = 4
  BY <1>3 DEF Octet, Kept
<1>4. CASE b = 8
  BY <1>4 DEF Octet, Kept
<1>5. CASE b = 16
  BY <1>5 DEF Octet, Kept
<1>6. CASE b = 32
  BY <1>6 DEF Octet, Kept
<1>7. CASE b = 64
  BY <1>7 DEF Octet, Kept
<1>8. CASE b = 128
  BY <1>8 DEF Octet, Kept
<1>9. CASE b = 256
  BY <1>9 DEF Octet, Kept
<1>. QED
  BY <1>1, <1>2, <1>3, <1>4, <1>5, <1>6, <1>7, <1>8, <1>9 DEF BlockSize

(* A whole octet is kept under the mask, or lost.                           *)
LEMMA Edges ==
    ASSUME NEW x \in Octet PROVE Kept(x, 1) = x /\ Kept(x, 256) = 0
BY DEF Octet, Kept

(* A masked address, octet by octet.                                        *)
LEMMA MaskedIs ==
    ASSUME NEW ones, NEW a
    PROVE  Masked(ones, a) = [i \in 1 .. 4 |-> Kept(a[i], Block(ones, i))]
BY Zenon DEF Masked, Kept

(* The octets of an address are numbers.                                    *)
LEMMA Octets ==
    ASSUME NEW a \in Address
    PROVE  a[1] \in Nat /\ a[2] \in Nat /\ a[3] \in Nat /\ a[4] \in Nat
<1>1. 1 \in 1 .. 4 /\ 2 \in 1 .. 4 /\ 3 \in 1 .. 4 /\ 4 \in 1 .. 4
  BY SMT
<1>2. a[1] \in Octet /\ a[2] \in Octet /\ a[3] \in Octet /\ a[4] \in Octet
  BY <1>1, Zenon DEF Address
<1>. QED
  BY <1>2, SMTT(60) DEF Octet

(* compareIPv4 looks at the octets one after the other.                     *)
LEMMA BeforeIs ==
    ASSUME NEW a, NEW b
    PROVE  Before(a, b) <=> \/ a[1] < b[1]
                            \/ a[1] = b[1] /\ a[2] < b[2]
                            \/ a[1] = b[1] /\ a[2] = b[2] /\ a[3] < b[3]
                            \/ a[1] = b[1] /\ a[2] = b[2] /\ a[3] = b[3] /\ a[4] < b[4]
BY DEF Before

(* Where two addresses have the same octets before octet j, those between   *)
(* them have them too, and theirs of octet j is between the two.            *)
LEMMA Between ==
    ASSUME NEW a \in Address, NEW ip \in Address, NEW b \in Address, NEW j \in 1 .. 4,
           \A i \in 1 .. 4 : i < j => a[i] = b[i], ~Before(ip, a), ~Before(b, ip)
    PROVE  /\ \A i \in 1 .. 4 : i < j => ip[i] = a[i]
           /\ a[j] <= ip[j] /\ ip[j] <= b[j]
<1>1. /\ a[1] \in Int /\ a[2] \in Int /\ a[3] \in Int /\ a[4] \in Int
      /\ b[1] \in Int /\ b[2] \in Int /\ b[3] \in Int /\ b[4] \in Int
      /\ ip[1] \in Int /\ ip[2] \in Int /\ ip[3] \in Int /\ ip[4] \in Int
  BY Octets, SMTT(60)
<1>2. /\ a[1] <= ip[1]
      /\ ip[1] = a[1] => a[2] <= ip[2]
      /\ ip[1] = a[1] /\ ip[2] = a[2] => a[3] <= ip[3]
      /\ ip[1] = a[1] /\ ip[2] = a[2] /\ ip[3] = a[3] => a[4] <= ip[4]
  BY <1>1, BeforeIs
<1>3. /\ ip[1] <= b[1]
      /\ b[1] = ip[1] => ip[2] <= b[2]
      /\ b[1] = ip[1] /\ b[2] = ip[2] => ip[3] <= b[3]
      /\ b[1] = ip[1] /\ b[2] = ip[2] /\ b[3] = ip[3] => ip[4] <= b[4]
  BY <1>1, BeforeIs
<1>4. /\ j > 1 => a[1] = b[1] /\ ip[1] = a[1]
      /\ j > 2 => a[2] = b[2] /\ ip[2] = a[2]
      /\ j > 3 => a[3] = b[3] /\ ip[3] = a[3]
  <2>1. /\ j > 1 => a[1] = b[1]
        /\ j > 2 => a[2] = b[2]
        /\ j > 3 => a[3] = b[3]
    OBVIOUS
  <2>2. j > 1 => ip[1] = a[1]
    BY <1>1, <1>2, <1>3, <2>1
  <2>3. j > 2 => ip[2] = a[2]
    BY <1>1, <1>2, <1>3, <2>1, <2>2
  <2>4. j > 3 => ip[3] = a[3]
    BY <1>1, <1>2, <1>3, <2>1, <2>2, <2>3
  <2>. QED
    BY <2>1, <2>2, <2>3, <2>4
<1>5. ASSUME NEW i \in 1 .. 4, i < j PROVE ip[i] = a[i]
  <2>1. i = 1 \/ i = 2 \/ i = 3
    BY <1>5
  <2>. QED
    BY <1>4, <1>5, <2>1
<1>6. CASE j = 1
  BY <1>2, <1>3, <1>6
<1>7. CASE j = 2
  BY <1>2, <1>3, <1>4, <1>7
<1>8. CASE j = 3
  BY <1>2, <1>3, <1>4, <1>8
<1>9. CASE j = 4
  BY <1>2, <1>3, <1>4, <1>9
<1>. QED
  BY <1>5, <1>6, <1>7, <1>8, <1>9

(* compareIPv4 and ipv4ToUint32 agree.                                      *)
LEMMA OrderIsNumber ==
    ASSUME NEW a \in Address, NEW b \in Address
    PROVE  Before(a, b) <=> ipv4ToUint32(a) < ipv4ToUint32(b)
<1>1. /\ a[1] \in 0 .. 255 /\ a[2] \in 0 .. 255 /\ a[3] \in 0 .. 255 /\ a[4] \in 0 .. 255
      /\ b[1] \in 0 .. 255 /\ b[2] \in 0 .. 255 /\ b[3] \in 0 .. 255 /\ b[4] \in 0 .. 255
  BY DEF Address, Octet
<1>2. Before(a, b) <=> \/ a[1] < b[1]
                       \/ a[1] = b[1] /\ a[2] < b[2]
                       \/ a[1] = b[1] /\ a[2] = b[2] /\ a[3] < b[3]
                       \/ a[1] = b[1] /\ a[2] = b[2] /\ a[3] = b[3] /\ a[4] < b[4]
  BY BeforeIs, Zenon
<1>a1. PICK a1 \in 0 .. 255 : a[1] = a1
  BY <1>1
<1>a2. PICK a2 \in 0 .. 255 : a[2] = a2
  BY <1>1
<1>a3. PICK a3 \in 0 .. 255 : a[3] = a3
  BY <1>1
<1>a4. PICK a4 \in 0 .. 255 : a[4] = a4
  BY <1>1
<1>b1. PICK b1 \in 0 .. 255 : b[1] = b1
  BY <1>1
<1>b2. PICK b2 \in 0 .. 255 : b[2] = b2
  BY <1>1
<1>b3. PICK b3 \in 0 .. 255 : b[3] = b3
  BY <1>1
<1>b4. PICK b4 \in 0 .. 255 : b[4] = b4
  BY <1>1
<1>3. ipv4ToUint32(a) = ((a1 * 256 + a2) * 256 + a3) * 256 + a4
  BY <1>a1, <1>a2, <1>a3, <1>a4 DEF ipv4ToUint32
<1>4. ipv4ToUint32(b) = ((b1 * 256 + b2) * 256 + b3) * 256 + b4
  BY <1>b1, <1>b2, <1>b3, <1>b4 DEF ipv4ToUint32
<1>5. Before(a, b) <=> \/ a1 < b1
                       \/ a1 = b1 /\ a2 < b2
                       \/ a1 = b1 /\ a2 = b2 /\ a3 < b3
                       \/ a1 = b1 /\ a2 = b2 /\ a3 = b3 /\ a4 < b4
  BY <1>2, <1>a1, <1>a2, <1>a3, <1>a4, <1>b1, <1>b2, <1>b3, <1>b4
<1>. QED
  BY <1>3, <1>4, <1>5

(* An address has a number.                                                 *)
LEMMA NumbersAreNumbers ==
    ASSUME NEW a \in Address
    PROVE  ipv4ToUint32(a) \in Nat
<1>1. a[1] \in Nat /\ a[2] \in Nat /\ a[3] \in Nat /\ a[4] \in Nat
  BY Octets, Zenon
<1>. QED
  BY <1>1 DEF ipv4ToUint32

(* A mask ends within or after one octet: it keeps those before it whole and *)
(* none of those behind it.                                                 *)
LEMMA BlockSplits ==
    ASSUME NEW ones \in 0 .. 32
    PROVE  \E j \in 1 .. 4 : /\ Block(ones, j) \in BlockSize
                             /\ \A i \in 1 .. 4 : /\ i < j => Block(ones, i) = 1
                                                  /\ i > j => Block(ones, i) = 256
<1>1. ASSUME NEW j \in 1 .. 4, ones > 8 * j - 8, ones <= 8 * j
      PROVE  /\ Block(ones, j) \in BlockSize
             /\ \A i \in 1 .. 4 : /\ i < j => Block(ones, i) = 1
                                  /\ i > j => Block(ones, i) = 256
  <2>1. Block(ones, j) \in BlockSize
    <3>1. CASE ones = 8 * j
      BY <3>1, <1>1 DEF Block, BlockSize
    <3>2. CASE ones < 8 * j
      <4>1. 8 * j - ones \in 1 .. 7
        BY <3>2, <1>1
      <4>2. \A k \in 1 .. 7 : PowerOf2[k] \in BlockSize
        BY DEF PowerOf2, BlockSize
      <4>3. Block(ones, j) = PowerOf2[8 * j - ones]
        BY <3>2, <1>1 DEF Block
      <4>. QED
        BY <4>1, <4>2, <4>3
    <3>. QED
      BY <3>1, <3>2, <1>1
  <2>2. ASSUME NEW i \in 1 .. 4 PROVE /\ i < j => Block(ones, i) = 1
                                      /\ i > j => Block(ones, i) = 256
    BY <1>1 DEF Block
  <2>. QED
    BY <2>1, <2>2
<1>2. CASE ones = 0
  BY <1>2 DEF Block, BlockSize
<1>3. CASE ones > 0
  <2>1. \E j \in 1 .. 4 : ones > 8 * j - 8 /\ ones <= 8 * j
    BY <1>3
  <2>. QED
    BY <2>1, <1>1
<1>. QED
  BY <1>2, <1>3

(* Between two addresses of a subnet all are of that subnet.                *)
LEMMA SubnetIsConvex ==
    ASSUME NEW ones \in 0 .. 32, NEW a \in Address, NEW ip \in Address, NEW b \in Address,
           Masked(ones, a) = Masked(ones, b), ~Before(ip, a), ~Before(b, ip)
    PROVE  Masked(ones, ip) = Masked(ones, a)
<1>1. PICK j \in 1 .. 4 : /\ Block(ones, j) \in BlockSize
                          /\ \A i \in 1 .. 4 : /\ i < j => Block(ones, i) = 1
                                               /\ i > j => Block(ones, i) = 256
  BY BlockSplits
<1>2. \A i \in 1 .. 4 : a[i] \in Octet /\ ip[i] \in Octet /\ b[i] \in Octet
  BY Zenon DEF Address
<1>3. ASSUME NEW i \in 1 .. 4 PROVE Kept(a[i], Block(ones, i)) = Kept(b[i], Block(ones, i))
  <2>1. /\ Masked(ones, a)[i] = Kept(a[i], Block(ones, i))
        /\ Masked(ones, b)[i] = Kept(b[i], Block(ones, i))
    BY MaskedIs, Zenon
  <2>. QED
    BY <2>1
<1>4. ASSUME NEW i \in 1 .. 4, i < j PROVE a[i] = b[i]
  <2>1. Block(ones, i) = 1
    BY <1>1, <1>4
  <2>2. Kept(a[i], 1) = a[i] /\ Kept(b[i], 1) = b[i]
    BY <1>2, Edges, SMTT(60)
  <2>3. Kept(a[i], Block(ones, i)) = Kept(b[i], Block(ones, i))
    BY <1>3, Zenon
  <2>. QED
    BY <2>1, <2>2, <2>3
<1>5. \A i \in 1 .. 4 : i < j => ip[i] = a[i]
  BY <1>4, Between, SMTT(60)
<1>6. a[j] <= ip[j] /\ ip[j] <= b[j]
  BY <1>4, Between, SMTT(60)
<1>7. ASSUME NEW i \in 1 .. 4 PROVE Kept(ip[i], Block(ones, i)) = Kept(a[i], Block(ones, i))
  <2>1. CASE i < j
    BY <2>1, <1>5, Zenon
  <2>2. CASE i = j
    <3>1. Kept(a[j], Block(ones, j)) = Kept(b[j], Block(ones, j))
      BY <1>3, Zenon
    <3>2. PICK x, y, z, s : x = a[j] /\ y = ip[j] /\ z = b[j] /\ s = Block(ones, j)
      OBVIOUS
    <3>3. x \in Octet /\ y \in Octet /\ z \in Octet
      BY <1>2, <3>2, Zenon
    <3>4. s \in BlockSize /\ x <= y /\ y <= z /\ Kept(x, s) = Kept(z, s)
      BY <1>1, <1>6, <3>1, <3>2, Zenon
    <3>5. Kept(y, s) = Kept(x, s)
      BY <3>3, <3>4, BlockIsConvex, SMTT(60)
    <3>. QED
      BY <2>2, <3>2, <3>5
  <2>3. CASE i > j
    <3>1. Block(ones, i) = 256
      BY <2>3, <1>1
    <3>2. Kept(ip[i], 256) = 0 /\ Kept(a[i], 256) = 0
      BY <1>2, Edges, SMTT(60)
    <3>. QED
      BY <3>1, <3>2
  <2>. QED
    BY <2>1, <2>2, <2>3
<1>. QED
  BY <1>7, MaskedIs, Zenon

(* What people type for an end is an address, also when it is one number.   *)
LEMMA EndsAreAddresses ==
    ASSUME NEW t \in Target
    PROVE  Start(t) \in Address /\ End(t) \in Address
<1>1. ASSUME NEW i \in 1 .. 4 PROVE Network(t)[i] \in Octet
  <2>1. t.ip[i] \in Octet /\ t.ones \in 0 .. 32
    BY DEF Target, Address
  <2>2. PICK j \in 1 .. 4 : /\ Block(t.ones, j) \in BlockSize
                            /\ \A k \in 1 .. 4 : /\ k < j => Block(t.ones, k) = 1
                                                 /\ k > j => Block(t.ones, k) = 256
    BY <2>1, BlockSplits
  <2>3. Block(t.ones, i) \in BlockSize
    BY <2>2 DEF BlockSize
  <2>4. \A x \in Octet, b \in BlockSize : x - (x % b) \in Octet
    BY DEF Octet, BlockSize
  <2>. QED
    BY <2>1, <2>3, <2>4 DEF Network, Masked
<1>2. ASSUME NEW end \in Number \cup Address PROVE parseRangeEndpoint(t, end) \in Address
  <2>1. CASE end \in Address
    BY <2>1 DEF parseRangeEndpoint
  <2>2. CASE end \notin Address
    <3>1. end[1] \in Octet /\ 0 \in Octet
      BY <2>2 DEF Number, Octet
    <3>. QED
      BY <2>2, <3>1, <1>1 DEF parseRangeEndpoint, Address
  <2>. QED
    BY <2>1, <2>2
<1>. QED
  BY <1>2 DEF Start, End, Target

(* A discovery and an exclusion of one subnet and range mean the same hosts: *)
(* WalkIPv4Range, which counts addresses as numbers and never looks at the  *)
(* subnet again, comes by just those that HostMatchesIPv4Spec, which looks  *)
(* at the subnet first and then compares octets, says yes to.  For every    *)
(* mask, and for ends that are addresses or single numbers; only the walk   *)
(* of a range that ends at 255.255.255.255 wraps and comes by all others.   *)
THEOREM WalkMeetsMatches ==
    ASSUME NEW t \in Target, NEW ip \in Address, parseRangeBounds(t)
    PROVE  WalkIPv4Range(t, ip) <=> HostMatchesIPv4Spec(t, ip) \/ End(t) = LastAddress
<1>1. Start(t) \in Address /\ End(t) \in Address /\ t.ones \in 0 .. 32
  BY EndsAreAddresses DEF Target
<1>2. ASSUME WalkEnds(t)
      PROVE  WalkIPv4Range(t, ip) <=> ~Before(ip, Start(t)) /\ ~Before(End(t), ip)
  <2>1. /\ ipv4ToUint32(Start(t)) \in Nat /\ ipv4ToUint32(End(t)) \in Nat
        /\ ipv4ToUint32(ip) \in Nat
    BY <1>1, NumbersAreNumbers
  <2>2. /\ Before(ip, Start(t)) <=> ipv4ToUint32(ip) < ipv4ToUint32(Start(t))
        /\ Before(End(t), ip) <=> ipv4ToUint32(End(t)) < ipv4ToUint32(ip)
    BY <1>1, OrderIsNumber
  <2>. QED
    BY <1>2, <2>1, <2>2 DEF WalkIPv4Range
<1>3. ASSUME ~Before(ip, Start(t)), ~Before(End(t), ip) PROVE Contains(t, ip)
  <2>1. Masked(t.ones, Start(t)) = Network(t) /\ Masked(t.ones, End(t)) = Network(t)
    BY DEF parseRangeBounds, Contains
  <2>2. Masked(t.ones, ip) = Masked(t.ones, Start(t))
    BY <1>1, <1>3, <2>1, SubnetIsConvex
  <2>. QED
    BY <2>1, <2>2 DEF Contains
<1>4. CASE WalkEnds(t)
  BY <1>2, <1>3, <1>4 DEF HostMatchesIPv4Spec, WalkEnds
<1>5. CASE ~WalkEnds(t)
  BY <1>5 DEF WalkIPv4Range, WalkEnds
<1>. QED
  BY <1>4, <1>5
=============================================================================
