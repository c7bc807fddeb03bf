------------------------------- MODULE NocPass -------------------------------
(***************************************************************************)
(* NOC PASS: policies that give the FIBERX and SUPPORT users of network    *)
(* devices the password of the day (internal/nocpass), the rotator that    *)
(* runs the due ones (internal/scheduler/noc_pass_rotator.go), the         *)
(* requests that edit and run policies and keep or save users              *)
(* (internal/handlers/noc_pass_handler.go) and the tables                  *)
(* (internal/repository/noc_pass_repo.go).                                 *)
(*                                                                         *)
(* The rotator and every request are goroutines that share only the        *)
(* tables and the devices.  A policy row is read whole and written back    *)
(* whole; gorm's Save writes a deleted row anew.  The rows of NOC data and *)
(* the NOC Setup credentials do not change here (NocData models them).     *)
(*                                                                         *)
(* A definition named for a defect (...Late, ...Unkept, ...Locked,         *)
(* ...Unchecked, ...Unmarked) is a faulty variant of the one that follows. *)
(***************************************************************************)
EXTENDS Naturals, FiniteSets, Sequences

CONSTANTS
    MaxPolicies,
    Host,            \* hosts of the NOC data rows, numbered in the order listed
    Attribute,       \* network type, province, vendor and model of a host
    Mikrotik,        \* hosts whose users are removed by a filter, not by name
    User, Fiberx, Support, Dev,
    Setup,           \* users of the NOC Setup credentials that fit every host
    Targets,         \* targets a request may give a policy
    SavedInputs,     \* saved users a request may create
    Keepable,        \* users a request may keep
    ManualPassword,
    Own,             \* the password of a user the rotation does not set, in NOC Setup
                     \* that of each setup user
    Typed,           \* the password an administrator enters for a saved user
    Earlier,         \* the password of an earlier day
    InitialPolicies, \* tables of policies the program may find
    InitialUsers,    \* users it may find on the devices
    RotatedBefore,        \* hosts rotated on an earlier day
    Rotator, Request,  \* goroutines
    None,
    MaxDays, MaxPasswords,  \* bounds on midnights and on generated passwords
    MaxEvents        \* bound on requests, failed calls, crashes and midnights together

Policy == 1 .. MaxPolicies
Day == 1 .. MaxDays
NoDay == 0   \* never, or an earlier day
Worker == Request \cup {Rotator}
Rotated == {Fiberx, Support}
Generated == 1 .. MaxPasswords
Password == Generated \cup ManualPassword \cup {Own, Typed, Earlier}

Group == {"network_type", "province", "vendor", "model"}
PolicyRow == [live: BOOLEAN, enabled: BOOLEAN, target: Targets, mode: {"random", "manual"},
              manual: ManualPassword \cup {None}, active: Password \cup {None},
              date: Day \cup {NoDay}, ran: Day \cup {NoDay},
              status: {"pending", "ok", "error"}]
Credential == [password: Password, ok: BOOLEAN]
HostState == [password: Password \cup {None}, ok: BOOLEAN]

(* The administrators' own users are not the ones the rotation sets: then  *)
(* NOC Setup would hold the password of yesterday.  A generated password   *)
(* is none that was ever typed or set before, and a policy has a manual    *)
(* password when its mode asks for one.                                    *)
ASSUME NocPassAssumption ==
    /\ MaxPolicies \in Nat /\ MaxDays \in Nat \ {0} /\ MaxPasswords \in Nat /\ MaxEvents \in Nat
    /\ Host \subseteq Nat /\ Mikrotik \subseteq Host /\ RotatedBefore \subseteq Host
    /\ Rotated \cup {Dev} \cup Setup \cup Keepable \cup InitialUsers \subseteq User
    /\ Setup \cap Rotated = {} /\ Keepable \cap (Rotated \cup {Dev}) = {}
    /\ Attribute \in [Host -> [Group -> STRING]]
    /\ \A t \in Targets : t.type \in Group \cup {"all_networks", "device"}
    /\ [type |-> "all_networks", value |-> "all"] \in Targets
    /\ \A item \in SavedInputs : item.user \in User
    /\ Generated \cap (ManualPassword \cup {Own, Typed, Earlier}) = {}
    /\ InitialPolicies \subseteq [Policy -> PolicyRow \cup {None}]
    /\ \A t \in InitialPolicies : \A p \in Policy : t[p] # None =>
          /\ t[p].active \notin Generated /\ t[p].date <= 1
          /\ t[p].mode = "manual" => t[p].manual # None
    /\ None \notin Password \cup PolicyRow \cup HostState \cup User \cup SavedInputs
    /\ Rotator \notin Request

VARIABLES
    policies,    \* table of policies
    excluded,    \* hosts the table of exclusions covers
    keeps,       \* table of keep users
    saved,       \* table of saved users
    creds,       \* table of credentials by host and user
    states,      \* table of device states by host
    dev,         \* passwords of the users that exist on each device
    worker,      \* what each goroutine is doing
    day,         \* today
    issued,      \* history: the policy and day each password was generated for
    settings,    \* history: what an administrator last asked of each policy
    raced,       \* history: policies edited or run while another goroutine held
                 \* them, or run with the date of an earlier day
    doubted,     \* history: hosts with overlapping rotations, or an unrecorded one
    mixed,       \* history: hosts on which a saved user with the name of a user the
                 \* rotation sets, or logs in with, was given or taken
    requests, faults, crashes

tables == <<policies, excluded, keeps, saved, creds, states>>
bounds == <<requests, faults, crashes>>
history == <<settings, raced, doubted, mixed>>
vars == <<tables, dev, worker, day, issued, history, bounds>>

Idle == [pc |-> "idle", due |-> {}, policy |-> 0, row |-> None, day |-> NoDay,
         hosts |-> {}, host |-> 0, admins |-> {}, admin |-> None, password |-> None,
         keep |-> {}, managed |-> {}, found |-> {}, began |-> {}, initial |-> FALSE,
         sent |-> FALSE, alone |-> TRUE, bad |-> FALSE, item |-> None]

Budget == requests + faults + crashes < MaxEvents
Fails == Budget /\ faults' = faults + 1 /\ UNCHANGED <<requests, crashes>>
Works == UNCHANGED bounds
Asks == Budget /\ requests' = requests + 1 /\ UNCHANGED <<faults, crashes>>

Earliest(S) == CHOOSE i \in S : \A k \in S : i <= k
Live(p) == policies[p] # None /\ policies[p].live
LivePolicies == {p \in Policy : Live(p)}
Present(h) == {u \in User : dev[h][u] # None}
At(w) == worker[w].pc
Step(w, change) == worker' = [worker EXCEPT ![w] = change]
-----------------------------------------------------------------------------
(* Which policy a device belongs to.                                       *)
TargetMatches(target, h) ==
    \/ target.type = "all_networks"
    \/ target.type = "device" /\ target.value = h
    \/ target.type \in Group /\ Attribute[h][target.type] = target.value

PolicyTargetPriority(target) ==
    CASE target.type = "device" -> 50
      [] target.type = "province" -> 40
      [] target.type = "model" -> 30
      [] target.type = "vendor" -> 20
      [] target.type = "network_type" -> 10
      [] OTHER -> 0

PolicyMatchesRow(row, h) == row.enabled /\ TargetMatches(row.target, h)

(* Policy p, read as row, owns host h against the policies listed later.   *)
PolicyOwnsRow(p, row, h) ==
    /\ PolicyMatchesRow(row, h)
    /\ \A q \in LivePolicies \ {p} : PolicyMatchesRow(policies[q], h) =>
          LET mine == PolicyTargetPriority(row.target)
              other == PolicyTargetPriority(policies[q].target)
          IN  other < mine \/ (other = mine /\ p < q)

(* A saved user is managed on the hosts every one of its lists allows.     *)
SavedUserMatchesRow(item, h) ==
    /\ \E t \in DOMAIN item.lists : item.lists[t] # {}
    /\ \A t \in Group : item.lists[t] # {} => Attribute[h][t] \in item.lists[t]
    /\ item.lists["device"] # {} => h \in item.lists["device"]

ManagedUsers(h) == {item.user : item \in {i \in saved : SavedUserMatchesRow(i, h)}}

(* The history `began` of each goroutine is cut down to the users that      *)
(* still are in the list of keep users or of saved users for its host.      *)
StillKept(w, users, items) ==
    {u \in worker[w].began :
        u \in users \/ \E i \in items : i.user = u /\ SavedUserMatchesRow(i, worker[w].host)}
WithoutUnkept(users, items) ==
    [w \in Worker |-> [worker[w] EXCEPT !.began = StillKept(w, users, items)]]

ShouldRunPolicy(row, today) ==
    /\ row.enabled
    /\ IF row.mode = "manual" THEN row.ran # today ELSE row.date # today

DefaultPolicy ==
    [live |-> TRUE, enabled |-> FALSE, target |-> [type |-> "all_networks", value |-> "all"],
     mode |-> "random", manual |-> None, active |-> None, date |-> NoDay, ran |-> NoDay,
     status |-> "pending"]

(* ListPolicies puts a policy into an empty table.                         *)
Seeded ==
    IF LivePolicies # {} \/ \A p \in Policy : policies[p] # None THEN policies
    ELSE [policies EXCEPT ![Earliest({p \in Policy : policies[p] = None})] = DefaultPolicy]

Settings(row) == [live |-> row.live, enabled |-> row.enabled, target |-> row.target,
                  mode |-> row.mode, manual |-> row.manual]

(* What was asked of p, noting rows that appear without a request.         *)
NoteSeed == settings' = [p \in Policy |-> IF policies[p] = None /\ policies'[p] # None
                                          THEN Settings(policies'[p]) ELSE settings[p]]

Holds(w, p) == worker[w].policy = p /\ worker[w].row # None
HeldByOther(w, p) == \E v \in Worker \ {w} : Holds(v, p)
NoteRace(w, p) == raced' = IF HeldByOther(w, p) THEN raced \cup {p} ELSE raced
-----------------------------------------------------------------------------
Init ==
    /\ policies \in InitialPolicies
    /\ excluded = {} /\ keeps = {} /\ saved = {}
    /\ creds = [h \in Host |-> [u \in User |->
                   IF h \in RotatedBefore /\ u \in Rotated
                   THEN [password |-> Earlier, ok |-> TRUE] ELSE None]]
    /\ states = [h \in Host |-> IF h \in RotatedBefore THEN [password |-> Earlier, ok |-> TRUE]
                                ELSE None]
    /\ dev = [h \in Host |-> [u \in User |->
                 IF h \in RotatedBefore /\ u \in Rotated THEN Earlier
                 ELSE IF u \in InitialUsers THEN Own ELSE None]]
    /\ worker = [w \in Worker |-> Idle]
    /\ day = 1
    /\ issued = << >>
    /\ settings = [p \in Policy |->
                      IF policies[p] = None THEN None ELSE Settings(policies[p])]
    /\ raced = {} /\ doubted = {} /\ mixed = {}
    /\ requests = 0 /\ faults = 0 /\ crashes = 0

(* The tables and the devices stay; a rotation that was sent and not yet   *)
(* recorded leaves its host in doubt.                                      *)
Crash ==
    /\ Budget
    /\ crashes' = crashes + 1
    /\ worker' = [w \in Worker |-> Idle]
    /\ doubted' = doubted \cup {worker[w].host : w \in {v \in Worker : worker[v].sent}}
    /\ UNCHANGED <<tables, dev, day, issued, settings, raced, mixed, requests, faults>>

Midnight ==
    /\ day < MaxDays /\ Asks
    /\ day' = day + 1
    /\ UNCHANGED <<tables, dev, worker, issued, history>>
-----------------------------------------------------------------------------
(* Requests about policies.  UpdatePolicy reads a row, changes it and saves *)
(* it; DeletePolicy counts the policies, then deletes.                      *)
CreatePolicy(r) ==
    /\ At(r) = "idle" /\ Asks
    /\ \E p \in Policy :
          /\ policies[p] = None
          /\ p = Earliest({q \in Policy : policies[q] = None})
          /\ policies' = [policies EXCEPT ![p] = DefaultPolicy]
          /\ settings' = [settings EXCEPT ![p] = Settings(DefaultPolicy)]
    /\ UNCHANGED <<excluded, keeps, saved, creds, states, dev, worker, day, issued,
                   raced, doubted, mixed>>

(* What a request may turn a row into.                                     *)
Edits(row) ==
    {[row EXCEPT !.enabled = set.enabled, !.target = set.target] :
        set \in [enabled: BOOLEAN, target: Targets]}
    \cup {[row EXCEPT !.mode = "random"]}
    \cup {[row EXCEPT !.mode = "manual", !.manual = m] : m \in ManualPassword}

ReadPolicy(r) ==
    /\ At(r) = "idle" /\ Asks
    /\ \E p \in LivePolicies : \E row \in Edits(policies[p]) \ {policies[p]} :
          /\ Step(r, [Idle EXCEPT !.pc = "write", !.policy = p, !.row = row])
          /\ NoteRace(r, p)
    /\ UNCHANGED <<tables, dev, day, issued, settings, doubted, mixed>>

WritePolicy(r) ==
    /\ At(r) = "write"
    /\ LET p == worker[r].policy IN
          \/ /\ Works
             /\ policies' = [policies EXCEPT ![p] = worker[r].row]
             /\ settings' = [settings EXCEPT ![p] = Settings(worker[r].row)]
             /\ NoteRace(r, p)
          \/ Fails /\ UNCHANGED <<policies, settings, raced>>
    /\ Step(r, Idle)
    /\ UNCHANGED <<excluded, keeps, saved, creds, states, dev, day, issued, doubted, mixed>>

CountPolicies(r) ==
    /\ At(r) = "idle" /\ Asks
    /\ policies' = Seeded /\ NoteSeed
    /\ \E p \in Policy :
          /\ policies'[p] # None
          /\ Cardinality({q \in Policy : policies'[q] # None /\ policies'[q].live}) > 1
          /\ Step(r, [Idle EXCEPT !.pc = "erase", !.policy = p])
    /\ UNCHANGED <<excluded, keeps, saved, creds, states, dev, day, issued, raced, doubted, mixed>>

ErasePolicy(r) ==
    /\ At(r) = "erase"
    /\ LET p == worker[r].policy IN
          \/ /\ Works
             /\ policies' = [policies EXCEPT ![p].live = FALSE]
             /\ settings' = [settings EXCEPT ![p].live = FALSE]
             /\ NoteRace(r, p)
          \/ Fails /\ UNCHANGED <<policies, settings, raced>>
    /\ Step(r, Idle)
    /\ UNCHANGED <<excluded, keeps, saved, creds, states, dev, day, issued, doubted, mixed>>

(* Keep users and exclusions.                                              *)
CreateKeepUser(u) ==
    /\ u \in Keepable \ keeps /\ Asks
    /\ keeps' = keeps \cup {u}
    /\ UNCHANGED <<policies, excluded, saved, creds, states, dev, worker, day, issued, history>>

DeleteKeepUser(u) ==
    /\ u \in keeps /\ Asks
    /\ keeps' = keeps \ {u}
    /\ worker' = WithoutUnkept(keeps', saved)
    /\ UNCHANGED <<policies, excluded, saved, creds, states, dev, day, issued, history>>

ChangeExclusions(h) ==
    /\ Asks
    /\ excluded' = IF h \in excluded THEN excluded \ {h} ELSE excluded \cup {h}
    /\ UNCHANGED <<policies, keeps, saved, creds, states, dev, worker, day, issued, history>>

(* Saved users: the row is made first and given to its hosts after; it is  *)
(* taken from its hosts first and deleted after, when none failed.          *)
HostsOf(item) == {h \in Host : SavedUserMatchesRow(item, h)}

CreateSavedUser(r) ==
    /\ At(r) = "idle" /\ Asks
    /\ \E item \in SavedInputs \ saved :
          /\ saved' = saved \cup {item}
          /\ Step(r, [Idle EXCEPT !.pc = "give", !.item = item, !.hosts = HostsOf(item)])
    /\ UNCHANGED <<policies, excluded, keeps, creds, states, dev, day, issued, history>>

ReadSavedUser(r) ==
    /\ At(r) = "idle" /\ Asks
    /\ \E item \in saved :
          Step(r, [Idle EXCEPT !.pc = "take", !.item = item, !.hosts = HostsOf(item)])
    /\ UNCHANGED <<tables, dev, day, issued, history>>

(* A saved user may bear the name of one the rotation sets or logs in with. *)
NoteMixed(h, u) == mixed' = IF u \in Setup \cup Rotated THEN mixed \cup {h} ELSE mixed

(* Some setup user can log in to h, and the commands reach it.             *)
Admits(h) == \E a \in Setup : dev[h][a] = Own

(* ApplySavedUserToDevice for user u: the credential is noted when a login *)
(* succeeded, and marked failed when none did.                              *)
GiveUser(h, u, ok) ==
    \/ /\ Admits(h) /\ Works /\ ok
       /\ dev' = [dev EXCEPT ![h][u] = Typed]
       /\ creds' = [creds EXCEPT ![h][u] = [password |-> Typed, ok |-> TRUE]]
    \/ /\ Fails \/ (~Admits(h) /\ Works)
       /\ ~ok
       /\ dev' \in {dev} \cup (IF Admits(h) THEN {[dev EXCEPT ![h][u] = Typed]} ELSE {})
       /\ creds' = IF creds[h][u] = None THEN creds
                   ELSE [creds EXCEPT ![h][u].ok = FALSE]

GiveSavedUser(r) ==
    /\ At(r) = "give" /\ worker[r].hosts # {}
    /\ LET h == Earliest(worker[r].hosts) IN
          /\ \E ok \in BOOLEAN : GiveUser(h, worker[r].item.user, ok)
          /\ NoteMixed(h, worker[r].item.user)
          /\ Step(r, [worker[r] EXCEPT !.hosts = @ \ {h}])
    /\ UNCHANGED <<policies, excluded, keeps, saved, states, day, issued, settings, raced, doubted>>

TakeSavedUser(r) ==
    /\ At(r) = "take" /\ worker[r].hosts # {}
    /\ LET h == Earliest(worker[r].hosts)
           u == worker[r].item.user
       IN  /\ NoteMixed(h, u)
           /\ \/ /\ Admits(h) /\ Works
                 /\ dev' = [dev EXCEPT ![h][u] = None]
                 /\ creds' = [creds EXCEPT ![h][u] = None]
                 /\ Step(r, [worker[r] EXCEPT !.hosts = @ \ {h}])
              \/ /\ Fails \/ (~Admits(h) /\ Works)
                 /\ dev' \in {dev} \cup (IF Admits(h) THEN {[dev EXCEPT ![h][u] = None]} ELSE {})
                 /\ Step(r, [worker[r] EXCEPT !.hosts = @ \ {h}, !.bad = TRUE])
                 /\ UNCHANGED creds
    /\ UNCHANGED <<policies, excluded, keeps, saved, states, day, issued, settings, raced, doubted>>

EndSavedUser(r) ==
    /\ At(r) \in {"give", "take"} /\ worker[r].hosts = {}
    /\ \/ /\ Works
          /\ saved' = IF At(r) = "take" /\ ~worker[r].bad THEN saved \ {worker[r].item}
                      ELSE saved
       \/ At(r) = "take" /\ Fails /\ UNCHANGED saved
    /\ worker' = [WithoutUnkept(keeps, saved') EXCEPT ![r] = Idle]
    /\ UNCHANGED <<policies, excluded, keeps, creds, states, dev, day, issued, history>>
-----------------------------------------------------------------------------
(* runDue: the policies due by the list are run one after the other.       *)
RunDue ==
    /\ At(Rotator) = "idle"
    /\ \/ /\ Works
          /\ policies' = Seeded /\ NoteSeed
          /\ LET due == {p \in LivePolicies : ShouldRunPolicy(policies[p], day)} IN
                /\ policies' # policies \/ due # {}
                /\ worker' = IF due = {} THEN worker
                             ELSE [worker EXCEPT ![Rotator] =
                                      [Idle EXCEPT !.pc = "next", !.due = due, !.day = day]]
       \/ Fails /\ UNCHANGED <<policies, settings, worker>>
    /\ UNCHANGED <<excluded, keeps, saved, creds, states, dev, day, issued, raced, doubted, mixed>>

(* RunPolicy ends: the rotator takes the next policy.                      *)
Ended(w) == IF w = Rotator THEN [Idle EXCEPT !.pc = "next", !.due = worker[w].due,
                                             !.day = worker[w].day]
            ELSE Idle

(* RunPolicy, for the next policy that is due or for RunPolicyNow, reads    *)
(* the policy again: it may be gone or disabled.                            *)
Begun(w, p) == [Ended(w) EXCEPT !.policy = p, !.day = IF w = Rotator THEN @ ELSE day]

ReadForRunUnchecked(w, p, row) ==
    /\ Step(w, [Begun(w, p) EXCEPT !.pc = "targets", !.due = @ \ {p}, !.row = row])
    /\ raced' = IF HeldByOther(w, p) \/ Begun(w, p).day # day THEN raced \cup {p} ELSE raced

ReadForRun(w, p, row) ==
    \/ /\ row.live /\ row.enabled
       /\ Step(w, [Begun(w, p) EXCEPT !.pc = "targets", !.due = @ \ {p}, !.row = row])
       /\ raced' = IF HeldByOther(w, p) \/ Begun(w, p).day # day THEN raced \cup {p} ELSE raced
    \/ /\ ~(row.live /\ row.enabled)
       /\ Step(w, [Ended(w) EXCEPT !.due = @ \ {p}])
       /\ UNCHANGED raced

GetPolicy(w) ==
    /\ \/ w = Rotator /\ At(w) = "next" /\ worker[w].due # {}
       \/ w \in Request /\ At(w) = "idle"
    /\ \E p \in IF w = Rotator THEN {Earliest(worker[w].due)} ELSE LivePolicies :
          \/ /\ IF w = Rotator THEN Works ELSE Asks
             /\ ReadForRun(w, p, policies[p])
          \/ /\ w = Rotator /\ Fails
             /\ Step(w, [Ended(w) EXCEPT !.due = @ \ {p}])
             /\ UNCHANGED raced
    /\ UNCHANGED <<tables, dev, day, issued, settings, doubted, mixed>>

NoneDue ==
    /\ At(Rotator) = "next" /\ worker[Rotator].due = {}
    /\ Step(Rotator, Idle)
    /\ UNCHANGED <<tables, dev, day, issued, history, bounds>>

(* The row goes to its end: the run is over, or it failed.                 *)
Concluded(w, status) ==
    [worker[w] EXCEPT !.pc = "save", !.row.ran = worker[w].day, !.row.status = status]

(* Rows, policies and exclusions are listed; the hosts this policy owns    *)
(* and no exclusion covers are left.                                       *)
ResolveTargets(w) ==
    /\ At(w) = "targets"
    /\ LET p == worker[w].policy
           row == worker[w].row
           matched == {h \in Host : TargetMatches(row.target, h)}
           owned == {h \in matched : PolicyOwnsRow(p, row, h)}
       IN  \/ /\ Works
              /\ policies' = Seeded /\ NoteSeed
              /\ Step(w, IF matched # {} /\ owned = {} THEN Concluded(w, "ok")
                         ELSE IF owned \subseteq excluded THEN Concluded(w, "error")
                         ELSE [worker[w] EXCEPT !.pc = "passwords", !.hosts = owned \ excluded])
           \/ /\ Fails
              /\ Step(w, Concluded(w, "error")) \/ Step(w, Ended(w))
              /\ UNCHANGED <<policies, settings>>
    /\ UNCHANGED <<excluded, keeps, saved, creds, states, dev, day, issued, raced, doubted, mixed>>

Save(p, row) == policies' = [policies EXCEPT ![p] = [row EXCEPT !.live = TRUE]]

(* The password of the day is stored before any device gets it.  A random  *)
(* one is generated once a day.                                            *)
NewPassword(w) ==
    LET row == worker[w].row IN
    IF row.mode = "manual" THEN row.manual ELSE Len(issued) + 1

Issue(w) == [policy |-> worker[w].policy, day |-> worker[w].day]

Renews(w) == worker[w].row.active = None \/ worker[w].row.date # worker[w].day

EnsurePolicyPasswordsLate(w) ==
    /\ At(w) = "passwords"
    /\ LET row == worker[w].row IN
       IF ~Renews(w)
       THEN /\ Step(w, [worker[w] EXCEPT !.pc = "host",
                        !.password = IF row.mode = "manual" THEN row.manual ELSE row.active])
            /\ UNCHANGED issued
       ELSE LET renewed == [row EXCEPT !.active = NewPassword(w), !.date = worker[w].day] IN
            /\ row.mode = "random" => Len(issued) < MaxPasswords
            /\ issued' = IF row.mode = "random" THEN Append(issued, Issue(w)) ELSE issued
            /\ Step(w, [worker[w] EXCEPT !.pc = "host", !.row = renewed,
                                         !.password = renewed.active])
    /\ UNCHANGED <<tables, dev, day, history, bounds>>

EnsurePolicyPasswords(w) ==
    /\ At(w) = "passwords"
    /\ LET row == worker[w].row
           renewed == [row EXCEPT !.active = NewPassword(w), !.date = worker[w].day]
       IN  \/ /\ ~Renews(w) /\ Works
              /\ Step(w, [worker[w] EXCEPT !.pc = "host",
                          !.password = IF row.mode = "manual" THEN row.manual ELSE row.active])
              /\ UNCHANGED <<policies, issued>>
           \/ /\ Renews(w)
              /\ row.mode = "random" => Len(issued) < MaxPasswords
              /\ issued' = IF row.mode = "random" THEN Append(issued, Issue(w)) ELSE issued
              /\ \/ /\ Works
                    /\ Save(worker[w].policy, renewed)
                    /\ Step(w, [worker[w] EXCEPT !.pc = "host", !.row = renewed,
                                                 !.password = renewed.active])
                 \/ /\ Fails
                    /\ Step(w, [Concluded(w, "error") EXCEPT !.row.active = renewed.active,
                                                             !.row.date = renewed.date])
                    /\ UNCHANGED policies
    /\ UNCHANGED <<excluded, keeps, saved, creds, states, dev, day, settings, raced, doubted, mixed>>

(* The whole row as read goes back, with the outcome.                      *)
Outcome(w) ==
    IF At(w) = "save" THEN worker[w].row
    ELSE Concluded(w, IF worker[w].bad THEN "error" ELSE "ok").row

SaveOutcome(w) ==
    /\ At(w) = "save" \/ (At(w) = "host" /\ worker[w].hosts = {})
    /\ \/ Works /\ Save(worker[w].policy, Outcome(w))
       \/ Fails /\ UNCHANGED policies
    /\ Step(w, Ended(w))
    /\ UNCHANGED <<excluded, keeps, saved, creds, states, dev, day, issued, history>>
-----------------------------------------------------------------------------
(* ApplyToNocDataDevice: the hosts of a run one after the other.           *)
Rotating(w) == At(w) \in {"admin", "discover", "send", "credentials", "state",
                          "managed"}
RotatingElsewhere(w, h) == {v \in Worker \ {w} : Rotating(v) /\ worker[v].host = h}

(* What the rotation of a host remembers is gone when it ends.             *)
NextHost(w, bad) ==
    LET me == worker[w] IN
    [Idle EXCEPT !.pc = "host", !.due = me.due, !.policy = me.policy, !.row = me.row,
                 !.day = me.day, !.hosts = me.hosts, !.password = me.password,
                 !.bad = me.bad \/ bad]

(* TouchHostState: a host not seen before gets a row.                      *)
Touched(h) ==
    IF states[h] # None THEN states
    ELSE [states EXCEPT ![h] = [password |-> None, ok |-> FALSE]]

(* The credentials are listed and the state of the host is read or made.   *)
BeginHost(w) ==
    /\ At(w) = "host" /\ worker[w].hosts # {}
    /\ LET h == Earliest(worker[w].hosts)
           others == RotatingElsewhere(w, h)
           mine == [worker[w] EXCEPT !.hosts = @ \ {h}]
       IN  \/ /\ Works
              /\ worker' = [v \in Worker |->
                    IF v = w THEN [mine EXCEPT !.pc = "admin", !.host = h, !.admins = Setup,
                                      !.began = keeps \cup ManagedUsers(h),
                                      !.initial = states[h] = None \/ states[h].password = None,
                                      !.alone = others = {}]
                    ELSE [worker[v] EXCEPT !.alone = @ /\ v \notin others]]
              /\ states' = Touched(h)
              /\ doubted' = IF others = {} THEN doubted ELSE doubted \cup {h}
           \/ /\ Fails
              /\ Step(w, [mine EXCEPT !.bad = TRUE])
              /\ states' \in {states, [Touched(h) EXCEPT ![h].ok = FALSE]}
              /\ UNCHANGED doubted
    /\ UNCHANGED <<policies, excluded, keeps, saved, creds, dev, day, issued, settings, raced, mixed>>

(* The rotation of the host is given up and noted in its state, if that    *)
(* can be written.                                                         *)
GiveUp(w) ==
    LET h == worker[w].host IN
    /\ Step(w, NextHost(w, TRUE))
    /\ \/ states' = [states EXCEPT ![h].ok = FALSE] /\ UNCHANGED doubted
       \/ /\ UNCHANGED states
          /\ doubted' = IF worker[w].sent THEN doubted \cup {h} ELSE doubted

(* The next credential; the users to keep are listed for it.               *)
ListProtectedKeepUsers(w) ==
    /\ At(w) = "admin"
    /\ LET h == worker[w].host IN
          \/ /\ Works
             /\ \E a \in worker[w].admins :
                   Step(w, [worker[w] EXCEPT !.pc = "discover", !.admin = a,
                            !.admins = @ \ {a}, !.keep = keeps, !.managed = ManagedUsers(h)])
             /\ UNCHANGED <<states, doubted>>
          \/ worker[w].admins # {} /\ Fails /\ GiveUp(w)
    /\ UNCHANGED <<policies, excluded, keeps, saved, creds, dev, day, issued, settings, raced, mixed>>

LogsIn(w) == dev[worker[w].host][worker[w].admin] = Own

DiscoverExistingUsers(w) ==
    /\ At(w) = "discover"
    /\ LET mikrotik == worker[w].host \in Mikrotik IN
          \/ /\ LogsIn(w) \/ mikrotik
             /\ Works
             /\ Step(w, [worker[w] EXCEPT !.pc = "send",
                             !.found = IF mikrotik THEN {} ELSE Present(worker[w].host)])
          \/ /\ ~mikrotik
             /\ Fails \/ (~LogsIn(w) /\ Works)
             /\ Step(w, [worker[w] EXCEPT !.pc = "admin"])
    /\ UNCHANGED <<tables, dev, day, issued, history>>

ProtectedUsernamesUnkept(w) == Rotated \cup {Dev} \cup {worker[w].admin} \cup worker[w].managed
ProtectedUsernamesLocked(w) == Rotated \cup {Dev} \cup worker[w].keep \cup worker[w].managed
ProtectedUsernames(w) ==
    Rotated \cup {Dev} \cup {worker[w].admin} \cup worker[w].keep \cup worker[w].managed

(* The users the commands remove: those found before, or on a Mikrotik all *)
(* that are there now.                                                     *)
Removed(w) ==
    LET h == worker[w].host IN
    (IF h \in Mikrotik THEN Present(h) ELSE worker[w].found) \ ProtectedUsernames(w)

(* On a Mikrotik a password is set only for users that are there, after    *)
(* the first time.                                                         *)
Given(w) ==
    {u \in Rotated : worker[w].host \notin Mikrotik \/ worker[w].initial
                     \/ dev[worker[w].host][u] # None}

AfterCommands(w, removed, given) ==
    [dev EXCEPT ![worker[w].host] =
        [u \in User |-> IF u \in given THEN worker[w].password
                        ELSE IF u \in removed THEN None ELSE @[u]]]

(* The commands run; or the login is refused, or the session breaks at any *)
(* command, and the next credential is tried.                              *)
SendCommands(w) ==
    /\ At(w) = "send"
    /\ \/ /\ LogsIn(w) /\ Works
          /\ dev' = AfterCommands(w, Removed(w), Given(w))
          /\ Step(w, [worker[w] EXCEPT !.pc = "credentials", !.sent = TRUE, !.admins = {},
                          !.admin = None, !.keep = {}, !.found = {}, !.began = {}])
       \/ /\ LogsIn(w) /\ Fails
          /\ dev' \in {AfterCommands(w, Removed(w), Given(w)),
                       AfterCommands(w, Removed(w), Given(w) \cap {Fiberx}),
                       AfterCommands(w, Removed(w), {})}
          /\ Step(w, [worker[w] EXCEPT !.pc = "admin", !.sent = TRUE])
       \/ /\ Fails \/ (~LogsIn(w) /\ Works)
          /\ Step(w, [worker[w] EXCEPT !.pc = "admin"])
          /\ UNCHANGED dev
    /\ UNCHANGED <<tables, day, issued, history>>

(* saveConfirmedCredential for FIBERX and for SUPPORT: the first or both    *)
(* may fail.                                                                *)
Confirmed(w, users) ==
    [creds EXCEPT ![worker[w].host] =
        [u \in User |-> IF u \in users THEN [password |-> worker[w].password, ok |-> TRUE]
                        ELSE @[u]]]

SaveConfirmedCredentials(w) ==
    /\ At(w) = "credentials"
    /\ \/ /\ Works
          /\ creds' = Confirmed(w, Rotated)
          /\ Step(w, [worker[w] EXCEPT !.pc = "state"])
          /\ UNCHANGED <<states, doubted>>
       \/ Fails /\ GiveUp(w) /\ creds' \in {creds, Confirmed(w, {Fiberx})}
    /\ UNCHANGED <<policies, excluded, keeps, saved, dev, day, issued, settings, raced, mixed>>

UpdateAfterApply(w) ==
    /\ At(w) = "state"
    /\ LET h == worker[w].host IN
          \/ /\ Works
             /\ states' = [states EXCEPT ![h] = [password |-> worker[w].password, ok |-> TRUE]]
             /\ doubted' = IF worker[w].alone THEN doubted \ {h} ELSE doubted
             /\ Step(w, [worker[w] EXCEPT !.pc = "managed", !.sent = FALSE])
          \/ Fails /\ Step(w, NextHost(w, TRUE)) /\ UNCHANGED <<states, doubted>>
    /\ UNCHANGED <<policies, excluded, keeps, saved, creds, dev, day, issued, settings, raced, mixed>>

(* The saved users listed with the keep users are given to the host.       *)
ApplySavedUsers(w) ==
    /\ At(w) = "managed"
    /\ \/ /\ worker[w].managed = {} /\ Works
          /\ Step(w, NextHost(w, FALSE))
          /\ UNCHANGED <<dev, creds, mixed>>
       \/ \E u \in worker[w].managed : \E ok \in BOOLEAN :
             /\ GiveUser(worker[w].host, u, ok)
             /\ NoteMixed(worker[w].host, u)
             /\ Step(w, IF ok THEN [worker[w] EXCEPT !.managed = @ \ {u}] ELSE NextHost(w, TRUE))
    /\ UNCHANGED <<policies, excluded, keeps, saved, states, day, issued, settings, raced, doubted>>

(* No credential worked: state and credentials say so, if they can be      *)
(* written.                                                                *)
MarkCredentialFailureUnmarked(w) ==
    /\ At(w) = "admin" /\ worker[w].admins = {}
    /\ Works
    /\ Step(w, NextHost(w, TRUE))
    /\ UNCHANGED <<tables, dev, day, issued, history>>

MarkCredentialFailure(w) ==
    /\ At(w) = "admin" /\ worker[w].admins = {}
    /\ LET h == worker[w].host IN
          \/ /\ Works
             /\ states' = [states EXCEPT ![h].ok = FALSE]
             /\ creds' = [creds EXCEPT ![h] = [u \in User |->
                             IF u \in Rotated /\ @[u] # None THEN [@[u] EXCEPT !.ok = FALSE]
                             ELSE @[u]]]
             /\ Step(w, NextHost(w, TRUE))
             /\ UNCHANGED doubted
          \/ Fails /\ GiveUp(w) /\ UNCHANGED creds
    /\ UNCHANGED <<policies, excluded, keeps, saved, dev, day, issued, settings, raced, mixed>>
-----------------------------------------------------------------------------
Ask(r) ==
    \/ CreatePolicy(r) \/ ReadPolicy(r) \/ WritePolicy(r) \/ CountPolicies(r) \/ ErasePolicy(r)
    \/ CreateSavedUser(r) \/ ReadSavedUser(r) \/ GiveSavedUser(r)
    \/ TakeSavedUser(r) \/ EndSavedUser(r)

Run(w) ==
    \/ GetPolicy(w) \/ ResolveTargets(w) \/ EnsurePolicyPasswords(w) \/ SaveOutcome(w)
    \/ BeginHost(w) \/ ListProtectedKeepUsers(w) \/ DiscoverExistingUsers(w)
    \/ SendCommands(w) \/ SaveConfirmedCredentials(w) \/ UpdateAfterApply(w)
    \/ ApplySavedUsers(w) \/ MarkCredentialFailure(w)

(* Nothing has to happen while every goroutine waits.                      *)
AtRest == (\A w \in Worker : At(w) = "idle") /\ UNCHANGED vars

Next ==
    \/ \E r \in Request : Ask(r)
    \/ \E u \in Keepable : CreateKeepUser(u) \/ DeleteKeepUser(u)
    \/ \E h \in Host : ChangeExclusions(h)
    \/ RunDue \/ NoneDue
    \/ \E w \in Worker : Run(w)
    \/ Midnight \/ Crash \/ AtRest

Spec == Init /\ [][Next]_vars
-----------------------------------------------------------------------------
(* What the page of all devices shows for a user of a host: its credential, *)
(* and for FIBERX without one the password in the state of the host.        *)
Shown(h, u) ==
    IF creds[h][u] # None THEN creds[h][u].password
    ELSE IF u = Fiberx /\ states[h] # None THEN states[h].password
    ELSE None

(* TypeOK: the tables hold rows of their models.                           *)
TypeOK ==
    /\ policies \in [Policy -> PolicyRow \cup {None}]
    /\ excluded \subseteq Host /\ keeps \subseteq Keepable /\ saved \subseteq SavedInputs
    /\ creds \in [Host -> [User -> Credential \cup {None}]]
    /\ states \in [Host -> HostState \cup {None}]
    /\ dev \in [Host -> [User -> Password \cup {None}]]
    /\ day \in Day /\ issued \in Seq([policy: Policy, day: Day])
    /\ raced \subseteq Policy /\ doubted \subseteq Host /\ mixed \subseteq Host

(* A host whose last rotation is told successful has, for FIBERX and       *)
(* SUPPORT, the passwords the page shows: what is confirmed is what the     *)
(* device has, whatever calls failed and whichever commands of a broken    *)
(* session ran.  Not told: rotations of one host by two runs at once, a    *)
(* rotation whose outcome could not be written, and a FIBERX or SUPPORT    *)
(* that somebody saved by that name.                                       *)
ConfirmedIsActual ==
    \A h \in Host \ (doubted \cup mixed) :
        /\ states[h] # None /\ states[h].ok
        /\ \A w \in Worker : ~(Rotating(w) /\ worker[w].host = h)
        => \A u \in Rotated : Shown(h, u) = dev[h][u]

(* A password generated today that a device already has is on record: with *)
(* its policy or as the credential of the host, even if the program dies   *)
(* between the two.  Runs and edits of one policy at once, and runs the      *)
(* rotator began before midnight, are excepted.                             *)
PasswordOnRecord ==
    \A h \in Host, u \in Rotated :
        LET g == dev[h][u] IN
        /\ g \in DOMAIN issued
        /\ issued[g].day = day
        /\ issued[g].policy \notin raced
        => \/ policies[issued[g].policy].active = g
           \/ creds[h][u] # None /\ creds[h][u].password = g

(* However rotations with different setup users follow or overlap, every   *)
(* host keeps a setup user that can log in, where no saved user by the name *)
(* of one was given or taken.                                              *)
NotLockedOut == \A h \in Host \ mixed : Admits(h)

(* What an administrator last asked of a policy, its deletion included, is *)
(* what the table says, unless it was asked while the policy was run or    *)
(* edited: a run writes back the row it read, hours later.                  *)
EditsSurvive ==
    \A p \in Policy \ raced : policies[p] # None => Settings(policies[p]) = settings[p]

(* A rotation removes no user that was kept or saved for the host when it  *)
(* began and that has been ever since.                                      *)
KeptUsersStay ==
    [][\A w \in Worker : At(w) = "send" /\ worker'[w] # worker[w] =>
          \A u \in worker[w].began :
              dev[worker[w].host][u] # None => dev'[worker[w].host][u] # None]_vars
=============================================================================
