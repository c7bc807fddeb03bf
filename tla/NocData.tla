------------------------------- MODULE NocData -------------------------------
(***************************************************************************)
(* NOC DATA: the inventory of network devices.  The collector              *)
(* (internal/scheduler/noc_data_collector.go) logs into every row's host   *)
(* each week, the requests of internal/handlers/noc_data_handler.go and    *)
(* noc_data_failures.go discover hosts and retry rows, and the table is    *)
(* internal/repository/noc_data_repo.go.                                   *)
(*                                                                         *)
(* A job is a full run or a request; it hands rows to collections.  A      *)
(* collection works on the copy of the row it began with and writes back   *)
(* by id: an update of a deleted row touches nothing.  A device is known   *)
(* by its hostname, model, version and serial, abstracted to the device    *)
(* itself, and may answer on several hosts; a row that lacks one of the    *)
(* four has no identity.                                                   *)
(*                                                                         *)
(* A definition named for a defect (...Current, ...OfCurrent, ...Relisted) *)
(* is a faulty variant of the one that follows.                            *)
(***************************************************************************)
EXTENDS AddressRange, FiniteSets

CONSTANTS
    MaxRows,
    Host, AddressOf,     \* hosts, numbered in the order of their addresses
    Device, DeviceAt,    \* the device a host belongs to
    Family, FamilyOf,    \* vendor family of a device
    SerialOptional,      \* families whose snapshot is complete without a serial
    Login, Accepts,      \* logins a device accepts
    DeviceRange,         \* site, subnet and range people discover hosts in
    Exclusion,           \* subnet and range people exclude
    TargetOf,            \* subnet and range as they are typed
    InitialTables,       \* tables the program may find
    InitialLogins,       \* NOC Setup credentials: pairs of family and login
    FullRun, Request,    \* jobs
    Slot,            \* collections that may run at once
    None,
    MaxEvents        \* bound on requests, failed calls and crashes together

Id == 1 .. MaxRows
Job == Request \cup {FullRun}
Status == {"pending", "ok", "fail"}
Known == [family: Family, login: Login]
Row == [range: DeviceRange, host: Host, login: Known \cup {None}, status: Status,
        identity: Device \cup {None}]

ASSUME NocDataAssumption ==
    /\ MaxRows \in Nat /\ MaxEvents \in Nat /\ Host \subseteq Nat
    /\ AddressOf \in [Host -> Address]
    /\ \A g, h \in Host : g < h => Before(AddressOf[g], AddressOf[h])
    /\ DeviceAt \in [Host -> Device] /\ FamilyOf \in [Device -> Family]
    /\ Accepts \in [Device -> SUBSET Login] /\ TargetOf \in [DeviceRange \cup Exclusion -> Target]
    /\ SerialOptional \subseteq Family
    /\ InitialTables \subseteq [Id -> Row \cup {None}]
    /\ \A table \in InitialTables : \A id \in Id : table[id] # None =>
          table[id].identity \in {None, DeviceAt[table[id].host]}
    /\ InitialLogins \subseteq Family \X Login
    /\ FullRun \notin Request
    /\ None \notin Row \cup Device \cup Known \cup Host \cup Id \cup Job

VARIABLES
    rows,        \* table of devices by id
    fresh,       \* the next id
    excluded,    \* table of exclusions
    logins,      \* table of NOC credentials
    job,         \* what each full run or request is doing
    slot,        \* what each collection is doing
    history,     \* rows of the last history snapshot
    stranded,    \* history: rows nobody will collect after a crash or a failed call
    leftover,    \* history: devices whose duplicates a failed call left
    dismissed,   \* history: devices an administrator deleted a row of
    requests, faults, crashes

bounds == <<requests, faults, crashes>>
setup == <<excluded, logins>>
notes == <<stranded, leftover, dismissed>>
vars == <<rows, fresh, setup, job, slot, history, notes, bounds>>

NoJob == [pc |-> "idle", kind |-> None, hosts |-> {}, host |-> None, id |-> None,
          range |-> None, excluded |-> {}, todo |-> {}, ids |-> {}, list |-> None]
NoCollection == [pc |-> "idle", job |-> None, id |-> None, row |-> None,
                 login |-> None, identity |-> None, status |-> None, extra |-> {}]

Budget == requests + faults + crashes < MaxEvents
Asks == Budget /\ requests' = requests + 1 /\ UNCHANGED <<faults, crashes>>
Fails == Budget /\ faults' = faults + 1 /\ UNCHANGED <<requests, crashes>>
Works == UNCHANGED bounds

Live(id) == rows[id] # None
LiveIds == {id \in Id : Live(id)}
Failed == {id \in LiveIds : rows[id].status = "fail"}
SameDevice(a, b, device) ==
    \A id \in {a, b} : rows[id].status = "ok" /\ rows[id].identity = device
Busy(j) == \E s \in Slot : slot[s].job = j
IdleSlot(s) == slot[s].pc = "idle"
Go(j, change) == job' = [job EXCEPT ![j] = change]

(* An update by id.  What is written is no longer stranded.                *)
Write(id, row) ==
    /\ rows' = IF Live(id) THEN [rows EXCEPT ![id] = row] ELSE rows
    /\ stranded' = stranded \ {id}

(* resetDeviceForRecovery forgets everything learned of the device; a      *)
(* retried range forgets the login only.                                   *)
Blank(row) == [row EXCEPT !.login = None, !.status = "pending", !.identity = None]
Unlearned(row) == [row EXCEPT !.login = None, !.status = "pending"]
Rediscovered(row) == [row EXCEPT !.status = "pending"]
-----------------------------------------------------------------------------
Init ==
    /\ rows \in InitialTables
    /\ fresh = CHOOSE n \in 1 .. MaxRows + 1 :
                  /\ \A id \in LiveIds : id < n
                  /\ \A m \in 1 .. MaxRows + 1 : (\A id \in LiveIds : id < m) => n <= m
    /\ excluded = {} /\ logins = InitialLogins
    /\ job = [j \in Job |-> NoJob]
    /\ slot = [s \in Slot |-> NoCollection]
    /\ history = {}
    /\ stranded = {id \in LiveIds : rows[id].status = "pending"}
    /\ leftover = {device \in Device : \E a, b \in LiveIds : a # b /\ SameDevice(a, b, device)}
    /\ dismissed = {}
    /\ requests = 0 /\ faults = 0 /\ crashes = 0

Crash ==
    /\ Budget /\ crashes' = crashes + 1
    /\ job' = [j \in Job |-> NoJob]
    /\ stranded' = {id \in LiveIds : rows[id].status = "pending"}
    /\ leftover' = leftover \cup {slot[s].identity : s \in {t \in Slot :
                                     slot[t].pc \in {"match", "remove"}}}
    /\ slot' = [s \in Slot |-> NoCollection]
    /\ UNCHANGED <<rows, fresh, setup, history, dismissed, requests, faults>>
-----------------------------------------------------------------------------
(* The logins tried for a family, and those that work: a probe of another  *)
(* vendor gets no valid answer.  The copy's own login is tried only where  *)
(* the table has a login of its family at all, and then first.             *)
CredentialsForVendor(row, family) ==
    LET table == {pair[2] : pair \in {p \in logins : p[1] = family}}
    IN  IF table # {} /\ row.login # None /\ row.login.family = family
        THEN table \cup {row.login.login} ELSE table

ProbeDevice(host, family, login) ==
    FamilyOf[DeviceAt[host]] = family /\ login \in Accepts[DeviceAt[host]]

ResolveCredentials(row) ==
    LET working == {known \in Known :
                       /\ known.login \in CredentialsForVendor(row, known.family)
                       /\ ProbeDevice(row.host, known.family, known.login)}
    IN  IF row.login \in working THEN {row.login} ELSE working

(* A snapshot lacks something required or is complete.  One that is        *)
(* complete tells which device answered, but where the serial is optional. *)
ValidateSnapshot(complete) == IF complete THEN "ok" ELSE "fail"
Told(device, complete) ==
    {device} \cup IF complete /\ FamilyOf[device] \notin SerialOptional THEN {} ELSE {None}

CollectSnapshot(c, known, complete, told) ==
    [c EXCEPT !.pc = "store", !.row = None, !.login = known,
              !.identity = told, !.status = ValidateSnapshot(complete)]

IsExcluded(host, list) ==
    \E x \in list : HostMatchesIPv4Spec(TargetOf[x], AddressOf[host])

(* One collection: the host must not be excluded, must answer a ping, let  *)
(* some login in and answer the critical commands.                         *)
CollectOne(s) ==
    LET c == slot[s]
        Result(r) == slot' = [slot EXCEPT ![s] = r]
        failed == [c EXCEPT !.pc = "fail", !.row = None]
        Snapshot(known, complete) ==
            \E told \in Told(DeviceAt[c.row.host], complete) :
                Result(CollectSnapshot(c, known, complete, told))
    IN  /\ c.pc = "contact"
        /\ \/ /\ ~IsExcluded(c.row.host, excluded)
              /\ \E known \in ResolveCredentials(c.row) :
                    (Works /\ Snapshot(known, TRUE)) \/ (Fails /\ Snapshot(known, FALSE))
           \/ IsExcluded(c.row.host, excluded) /\ Works /\ Result(failed)
           \/ ResolveCredentials(c.row) = {} /\ Works /\ Result(failed)
           \/ Fails /\ Result(failed)
        /\ UNCHANGED <<rows, fresh, setup, job, history, notes>>

(* failDevice changes the status only.                                     *)
FailDevice(s) ==
    /\ slot[s].pc = "fail"
    /\ Write(slot[s].id, [rows[slot[s].id] EXCEPT !.status = "fail"])
    /\ slot' = [slot EXCEPT ![s] = NoCollection]
    /\ Works
    /\ UNCHANGED <<fresh, setup, job, history, leftover, dismissed>>

(* Duplicates are looked for when the snapshot is complete and named.      *)
UpdateSnapshot(s) ==
    LET c == slot[s] IN
    /\ c.pc = "store"
    /\ Write(c.id, [rows[c.id] EXCEPT !.login = c.login, !.status = c.status,
                                         !.identity = c.identity])
    /\ slot' = [slot EXCEPT ![s] =
                   IF c.status = "ok" /\ c.identity # None THEN [NoCollection EXCEPT
                       !.pc = "match", !.job = c.job, !.id = c.id, !.identity = c.identity]
                   ELSE NoCollection]
    /\ Works
    /\ UNCHANGED <<fresh, setup, job, history, leftover, dismissed>>

(* The table refuses the result: nobody looks at the row again.            *)
StoreFails(s) ==
    /\ slot[s].pc \in {"store", "fail"} /\ Fails
    /\ slot' = [slot EXCEPT ![s] = NoCollection]
    /\ stranded' = stranded \cup {slot[s].id}
    /\ UNCHANGED <<rows, fresh, setup, job, history, leftover, dismissed>>

(* Of the rows of one device the highest address is kept, of one address   *)
(* the row of lowest id.                                                   *)
DuplicateKeepCurrent(ids, current) == current

DuplicateKeep(ids, current) ==
    CHOOSE id \in ids : \A other \in ids \ {id} :
        \/ rows[id].host > rows[other].host
        \/ rows[id].host = rows[other].host /\ id < other

DuplicatesOfCurrent(identity, current) ==
    LET matches == {id \in LiveIds : rows[id].identity = identity}
    IN  IF Cardinality(matches) <= 1 \/ DuplicateKeep(matches, current) = current THEN {}
        ELSE {current}

Duplicates(identity, current) ==
    LET matches == {id \in LiveIds : rows[id].identity = identity}
    IN  IF Cardinality(matches) <= 1 THEN {}
        ELSE matches \ {DuplicateKeep(matches, current)}

FindByIdentity(s) ==
    LET c == slot[s]
        extra == Duplicates(c.identity, c.id)
    IN  /\ c.pc = "match"
        /\ Works
        /\ slot' = [slot EXCEPT ![s] = IF extra = {} THEN NoCollection
                       ELSE [c EXCEPT !.pc = "remove", !.extra = extra, !.id = None]]
        /\ UNCHANGED <<rows, fresh, setup, job, history, notes>>

RemoveDuplicate(s) ==
    LET c == slot[s] IN
    /\ c.pc = "remove"
    /\ \E id \in c.extra :
          /\ rows' = [rows EXCEPT ![id] = None]
          /\ slot' = [slot EXCEPT ![s] = IF c.extra = {id} THEN NoCollection
                                         ELSE [c EXCEPT !.extra = @ \ {id}]]
    /\ Works
    /\ UNCHANGED <<fresh, setup, job, history, notes>>

CleanupFails(s) ==
    /\ slot[s].pc \in {"match", "remove"} /\ Fails
    /\ slot' = [slot EXCEPT ![s] = NoCollection]
    /\ leftover' = leftover \cup {slot[s].identity}
    /\ UNCHANGED <<rows, fresh, setup, job, history, stranded, dismissed>>
-----------------------------------------------------------------------------
(* Jobs hand rows to collections: the full run the copy it listed, the     *)
(* others the row read at that moment.  In the phases "pass", "scan" and   *)
(* "all" several collections of a job run at once, elsewhere one.          *)
Parallel(j) == job[j].pc \in {"pass", "scan", "upsert", "all"}
OneByOne(j) == job[j].pc \in {"each", "collect"}

Take(j, s) ==
    /\ IdleSlot(s)
    /\ Parallel(j) \/ (OneByOne(j) /\ ~Busy(j))
    /\ \E id \in IF job[j].pc = "collect" THEN {job[j].id} ELSE job[j].todo :
          LET row == IF job[j].pc = "pass" THEN job[j].list[id] ELSE rows[id] IN
          /\ slot' = [slot EXCEPT ![s] = IF row = None THEN NoCollection ELSE
                        [NoCollection EXCEPT !.pc = "contact", !.job = j, !.id = id,
                                             !.row = row]]
          /\ Go(j, IF job[j].pc = "collect"
                   THEN [job[j] EXCEPT !.pc = "recover", !.id = None]
                   ELSE [job[j] EXCEPT !.todo = @ \ {id}])
    /\ Works
    /\ UNCHANGED <<rows, fresh, setup, history, notes>>

(* RunAllNow, by the weekly ticker or a request, unless one is running.    *)
RunAllNow ==
    /\ job[FullRun].pc = "idle" /\ Asks
    /\ Go(FullRun, [NoJob EXCEPT !.pc = "pass", !.todo = LiveIds, !.list = rows])
    /\ UNCHANGED <<rows, fresh, setup, slot, history, notes>>

(* When a pass or a discovery is over its failed rows are recovered one    *)
(* after the other: reset, read again, collected.                          *)
ListFailed(j) ==
    /\ \/ job[j].pc = "pass"
       \/ job[j].pc = "scan" /\ job[j].hosts = {}
    /\ job[j].todo = {} /\ ~Busy(j)
    /\ Go(j, [NoJob EXCEPT !.pc = "recover",
                           !.todo = IF j = FullRun THEN Failed ELSE Failed \cap job[j].ids])
    /\ Works
    /\ UNCHANGED <<rows, fresh, setup, slot, history, notes>>

ResetForRecovery(j) ==
    /\ job[j].pc = "recover" /\ ~Busy(j)
    /\ \E id \in job[j].todo :
          \/ /\ Works
             /\ Write(id, Blank(rows[id]))
             /\ Go(j, [job[j] EXCEPT !.pc = "collect", !.id = id, !.todo = @ \ {id}])
          \/ /\ Fails
             /\ Go(j, [job[j] EXCEPT !.todo = @ \ {id}])
             /\ UNCHANGED <<rows, stranded>>
    /\ UNCHANGED <<fresh, setup, slot, history, leftover, dismissed>>

(* The last step of a full run, and of any other job.                      *)
SaveHistory ==
    /\ job[FullRun].pc = "recover" /\ job[FullRun].todo = {} /\ ~Busy(FullRun)
    /\ \/ Works /\ history' = [id \in LiveIds |-> rows[id].status]
       \/ Fails /\ UNCHANGED history
    /\ Go(FullRun, NoJob)
    /\ UNCHANGED <<rows, fresh, setup, slot, notes>>

Finish(r) ==
    /\ job[r].pc \in {"recover", "each", "all"} /\ job[r].todo = {} /\ ~Busy(r)
    /\ Go(r, NoJob)
    /\ Works
    /\ UNCHANGED <<rows, fresh, setup, slot, history, notes>>
-----------------------------------------------------------------------------
(* CreateDevice: the hosts of a range are pinged, each that answers gets a *)
(* row or has its row reset, found and written in two steps.               *)
CreateDevice(r) ==
    /\ job[r].pc = "idle" /\ Asks
    /\ \E g \in {t \in DeviceRange : parseRangeBounds(TargetOf[t])} :
          Go(r, [NoJob EXCEPT !.pc = "scan", !.range = g, !.excluded = excluded,
                    !.hosts = {h \in Host : WalkIPv4Range(TargetOf[g], AddressOf[h])}])
    /\ UNCHANGED <<rows, fresh, setup, slot, history, notes>>

(* What a walk has before it once it came by h.                            *)
StillToWalk(t, hosts, h) == IF WalkEnds(t) THEN hosts \ {h} ELSE hosts

RowOf(g, h) == {id \in LiveIds : rows[id].range = g /\ rows[id].host = h}

FindByRangeHost(r) ==
    /\ job[r].pc = "scan"
    /\ \E h \in job[r].hosts :
          LET found == RowOf(job[r].range, h)
              skipped == [job[r] EXCEPT !.hosts = StillToWalk(TargetOf[job[r].range], @, h)]
          IN  \/ IsExcluded(h, job[r].excluded) /\ Works /\ Go(r, skipped)
              \/ Fails /\ Go(r, skipped)
              \/ /\ ~IsExcluded(h, job[r].excluded) /\ Works
                 /\ Go(r, [skipped EXCEPT !.pc = "upsert", !.host = h,
                              !.id = IF found = {} THEN None
                                     ELSE CHOOSE id \in found : \A o \in found : id <= o])
    /\ UNCHANGED <<rows, fresh, setup, slot, history, notes>>

(* The row keeps its login if it had one; a row created gets a new id.     *)
UpsertDiscoveredDevice(r) ==
    LET found == job[r].id
        id == IF found = None THEN fresh ELSE found
        scanning == [job[r] EXCEPT !.pc = "scan", !.host = None, !.id = None]
    IN  /\ job[r].pc = "upsert"
        /\ \/ /\ found # None /\ Works
              /\ Write(found, Rediscovered(rows[found]))
              /\ Go(r, [scanning EXCEPT !.todo = @ \cup {id}, !.ids = @ \cup {id}])
              /\ UNCHANGED fresh
           \/ /\ found = None /\ fresh \in Id /\ Works
              /\ rows' = [rows EXCEPT ![fresh] =
                    [range |-> job[r].range, host |-> job[r].host, login |-> None,
                     status |-> "pending", identity |-> None]]
              /\ fresh' = fresh + 1
              /\ Go(r, [scanning EXCEPT !.todo = @ \cup {id}, !.ids = @ \cup {id}])
              /\ UNCHANGED stranded
           \/ /\ Fails \/ (found = None /\ fresh \notin Id /\ Works)
              /\ Go(r, scanning)
              /\ UNCHANGED <<rows, fresh, stranded>>
        /\ UNCHANGED <<setup, slot, history, leftover, dismissed>>

(* RetryRange and the retry of failed rows reset every row they listed,    *)
(* then collect them, all at once or one by one.  A reset that fails ends  *)
(* the request with the rows already reset.                                *)
RetryRange(r) ==
    /\ job[r].pc = "idle" /\ Asks
    /\ \E g \in DeviceRange :
          LET ids == {id \in LiveIds : rows[id].range = g} IN
          /\ ids # {}
          /\ Go(r, [NoJob EXCEPT !.pc = "reset", !.kind = "all", !.todo = ids])
    /\ UNCHANGED <<rows, fresh, setup, slot, history, notes>>

RunFailedDevices(r) ==
    /\ job[r].pc = "idle" /\ Asks
    /\ \E ids \in {Failed} \cup {{id} : id \in Failed} :
          /\ ids # {}
          /\ Go(r, [NoJob EXCEPT !.pc = "reset", !.kind = "each", !.todo = ids])
    /\ UNCHANGED <<rows, fresh, setup, slot, history, notes>>

ListedRelisted(r) == job[r].ids \cap Failed
Listed(r) == job[r].ids

ResetListed(r) ==
    /\ job[r].pc = "reset"
    /\ IF job[r].todo = {}
       THEN /\ Works
            /\ Go(r, [NoJob EXCEPT !.pc = job[r].kind, !.todo = Listed(r)])
            /\ UNCHANGED <<rows, stranded>>
       ELSE \E id \in job[r].todo :
            \/ /\ Works
               /\ Write(id, IF job[r].kind = "all" THEN Unlearned(rows[id])
                            ELSE Blank(rows[id]))
               /\ Go(r, [job[r] EXCEPT !.todo = @ \ {id}, !.ids = @ \cup {id}])
            \/ /\ Fails
               /\ stranded' = stranded \cup job[r].ids
               /\ Go(r, NoJob)
               /\ UNCHANGED rows
    /\ UNCHANGED <<fresh, setup, slot, history, leftover, dismissed>>

DeleteDevice ==
    /\ Asks
    /\ \E id \in LiveIds :
          /\ rows' = [rows EXCEPT ![id] = None]
          /\ dismissed' = dismissed \cup {DeviceAt[rows[id].host]}
    /\ UNCHANGED <<fresh, setup, job, slot, history, stranded, leftover>>

ChangeExclusions ==
    /\ Asks
    /\ \/ \E x \in Exclusion \ excluded :
             parseRangeBounds(TargetOf[x]) /\ excluded' = excluded \cup {x}
       \/ \E x \in excluded : excluded' = excluded \ {x}
    /\ UNCHANGED <<rows, fresh, logins, job, slot, history, notes>>

CreateCredential ==
    /\ Asks
    /\ \E pair \in (Family \X Login) \ logins : logins' = logins \cup {pair}
    /\ UNCHANGED <<rows, fresh, excluded, job, slot, history, notes>>

DeleteCredential ==
    /\ Asks
    /\ \E pair \in logins : logins' = logins \ {pair}
    /\ UNCHANGED <<rows, fresh, excluded, job, slot, history, notes>>
-----------------------------------------------------------------------------
Collect(s) ==
    \/ CollectOne(s) \/ FailDevice(s) \/ UpdateSnapshot(s) \/ StoreFails(s)
    \/ FindByIdentity(s) \/ RemoveDuplicate(s) \/ CleanupFails(s)

AtRest ==
    /\ ~Budget /\ \A j \in Job : job[j] = NoJob
    /\ UNCHANGED vars

Next ==
    \/ \E s \in Slot : Collect(s)
    \/ \E j \in Job, s \in Slot : Take(j, s)
    \/ RunAllNow \/ SaveHistory
    \/ \E j \in Job : ListFailed(j) \/ ResetForRecovery(j)
    \/ \E r \in Request : \/ CreateDevice(r) \/ FindByRangeHost(r)
                          \/ UpsertDiscoveredDevice(r) \/ RetryRange(r)
                          \/ RunFailedDevices(r) \/ ResetListed(r) \/ Finish(r)
    \/ DeleteDevice \/ ChangeExclusions \/ CreateCredential \/ DeleteCredential
    \/ Crash \/ AtRest

Spec == Init /\ [][Next]_vars
-----------------------------------------------------------------------------
TypeOK ==
    /\ rows \in [Id -> Row \cup {None}] /\ fresh \in 1 .. MaxRows + 1
    /\ excluded \subseteq Exclusion /\ logins \subseteq Family \X Login
    /\ stranded \subseteq Id /\ leftover \subseteq Device /\ dismissed \subseteq Device
    /\ \A j \in Job : job[j].todo \subseteq Id /\ job[j].ids \subseteq Id
    /\ \A s \in Slot : slot[s].job \in Job \cup {None} /\ slot[s].id \in Id \cup {None}
    /\ requests \in Nat /\ faults \in Nat /\ crashes \in Nat

(* Two rows that say ok are never rows of one device, but while a          *)
(* collection is about to remove one of them: collections of two rows of a *)
(* device that finish together do not both miss the other.                 *)
OneRowPerDevice ==
    \A a, b \in LiveIds, device \in Device \ leftover :
        a # b /\ SameDevice(a, b, device)
        => \E s \in Slot : \/ slot[s].pc = "match" /\ slot[s].identity = device
                           \/ slot[s].pc = "remove" /\ slot[s].extra \cap {a, b} # {}

(* Removing duplicates never takes the last row of a device, whatever      *)
(* other collections remove at the same time.                              *)
DeviceKept ==
    [][ \A id \in Id :
          LET device == DeviceAt[rows[id].host] IN
          ( /\ Live(id) /\ rows'[id] = None /\ device \notin dismissed')
          => \E other \in Id : rows'[other] # None /\ DeviceAt[rows'[other].host] = device ]_vars

(* A pending row is about to be collected by some job, unless a crash or a *)
(* failed call stranded it: no reset comes after the collection it was     *)
(* made for.                                                               *)
Owed(j) == job[j].todo \cup (CASE job[j].pc = "collect" -> {job[j].id}
                             [] job[j].pc = "reset" -> job[j].ids
                             [] OTHER -> {})

PendingIsCollected ==
    \A id \in LiveIds \ stranded : rows[id].status = "pending" =>
        \/ \E j \in Job : id \in Owed(j)
        \/ \E s \in Slot : slot[s].id = id /\ slot[s].pc \in {"contact", "store", "fail"}
=============================================================================
