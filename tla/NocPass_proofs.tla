---------------------------- MODULE NocPass_proofs ----------------------------
(***************************************************************************)
(* Proofs about NocPass, for any hosts, policies, users and goroutines and *)
(* every value of the bounds: TypeOK, EditsSurvive, KeptUsersStay,         *)
(* NotLockedOut, PasswordOnRecord and ConfirmedIsActual.                   *)
(*                                                                         *)
(* Almost every action changes one goroutine and one row; the effect of    *)
(* each is stated once, in a lemma about the new value of that goroutine   *)
(* (the lemmas called ...Step), and the invariants use only those lemmas.  *)
(***************************************************************************)
EXTENDS NocPass, SequenceTheorems, WellFoundedInduction, TLAPS

Dials == {"admin", "discover", "send"}
RotatingPc == Dials \cup {"credentials", "state", "managed"}
RunPc == {"targets", "passwords", "save", "host"} \cup RotatingPc
Pc == {"idle", "write", "erase", "give", "take", "next"} \cup RunPc

WorkerRecord ==
    [pc: Pc, due: SUBSET Policy, policy: Policy \cup {0}, row: PolicyRow \cup {None},
     day: Day \cup {NoDay}, hosts: SUBSET Host, host: Host \cup {0}, admins: SUBSET Setup,
     admin: Setup \cup {None}, password: Password \cup {None}, keep: SUBSET User,
     managed: SUBSET User, found: SUBSET User, began: SUBSET User, initial: BOOLEAN,
     sent: BOOLEAN, alone: BOOLEAN, bad: BOOLEAN, item: SavedInputs \cup {None}]

SettingsRecord ==
    [live: BOOLEAN, enabled: BOOLEAN, target: Targets, mode: {"random", "manual"},
     manual: ManualPassword \cup {None}]

HasManual(row) == row.mode = "manual" => row.manual # None

(* What a goroutine has in hand at each point of its way.                  *)
InHand(m) ==
    /\ m.pc \in RunPc \cup {"write"} => m.row # None /\ HasManual(m.row)
    /\ m.pc \notin RunPc \cup {"write"} => m.row = None
    /\ m.pc \in RunPc \cup {"write", "erase"} => m.policy \in Policy
    /\ m.pc \in RunPc => m.row.live
    /\ m.pc \in RunPc \cup {"next"} => m.day \in Day
    /\ m.pc \in RotatingPc \cup {"host"} => m.password # None
    /\ m.pc \in RotatingPc => m.host \in Host
    /\ m.pc \in {"discover", "send"} => m.admin # None
    /\ m.pc \in {"give", "take"} => m.item # None
    /\ m.sent => m.pc \in RotatingPc

(* The policies a goroutine refers to are rows of table t.                 *)
Refers(m, t) ==
    /\ \A p \in m.due : t[p] # None
    /\ m.policy \in Policy => t[m.policy] # None

GoodTable(t) ==
    t \in [Policy -> PolicyRow \cup {None}] /\ \A p \in Policy : t[p] # None => HasManual(t[p])

GoodSettings(s, t) ==
    /\ s \in [Policy -> SettingsRecord \cup {None}]
    /\ \A p \in Policy : t[p] # None => s[p] \in SettingsRecord

(* Everything TypeOK says but what it says of the states of the hosts.     *)
BasicTypes ==
    /\ policies \in [Policy -> PolicyRow \cup {None}]
    /\ excluded \subseteq Host /\ keeps \subseteq Keepable /\ saved \subseteq SavedInputs
    /\ creds \in [Host -> [User -> Credential \cup {None}]]
    /\ dev \in [Host -> [User -> Password \cup {None}]]
    /\ day \in Day /\ issued \in Seq([policy: Policy, day: Day])
    /\ raced \subseteq Policy /\ doubted \subseteq Host

TInv ==
    /\ BasicTypes
    /\ GoodTable(policies) /\ GoodSettings(settings, policies)
    /\ worker \in [Worker -> WorkerRecord]
    /\ \A w \in Worker : InHand(worker[w]) /\ Refers(worker[w], policies)
-----------------------------------------------------------------------------
(***************************************************************************)
(* Type correctness                                                        *)
(***************************************************************************)
LEMMA NoneApart ==
    /\ None \notin Password /\ None \notin PolicyRow /\ None \notin HostState
    /\ None \notin Credential /\ None \notin Generated
    /\ None \notin SavedInputs /\ None \notin User
<1>1. None \notin Password \cup PolicyRow \cup HostState \cup User \cup SavedInputs
  BY NocPassAssumption
<1>2. Credential \subseteq HostState BY DEF Credential, HostState
<1> QED BY <1>1, <1>2 DEF Password

LEMMA IdleWorker ==
    Idle \in WorkerRecord /\ InHand(Idle) /\ \A t : Refers(Idle, t)
BY NocPassAssumption DEF Idle, WorkerRecord, InHand, Refers, Pc, RunPc, RotatingPc, Dials, Policy,
   NoDay

LEMMA DefaultRow ==
    /\ DefaultPolicy \in PolicyRow /\ HasManual(DefaultPolicy) /\ DefaultPolicy # None
    /\ Settings(DefaultPolicy) \in SettingsRecord
<1>1. [type |-> "all_networks", value |-> "all"] \in Targets BY NocPassAssumption
<1>2. DefaultPolicy \in PolicyRow BY <1>1 DEF DefaultPolicy, PolicyRow, NoDay
<1>3. HasManual(DefaultPolicy) BY DEF DefaultPolicy, HasManual
<1>4. Settings(DefaultPolicy) \in SettingsRecord BY <1>1 DEF DefaultPolicy, Settings, SettingsRecord
<1> QED BY <1>2, <1>3, <1>4, NoneApart

LEMMA SettingsOf == ASSUME NEW row \in PolicyRow PROVE Settings(row) \in SettingsRecord
BY DEF Settings, SettingsRecord, PolicyRow

(* A step of goroutine w, where no row of the table vanishes.              *)
LEMMA WorkerStep ==
    ASSUME TInv, NEW w \in Worker, NEW m \in WorkerRecord, InHand(m), Refers(m, policies'),
           worker' = [worker EXCEPT ![w] = m],
           \A p \in Policy : policies[p] # None => policies'[p] # None
    PROVE  /\ worker' \in [Worker -> WorkerRecord]
           /\ \A v \in Worker : InHand(worker'[v]) /\ Refers(worker'[v], policies')
<1>1. worker \in [Worker -> WorkerRecord] BY DEF TInv
<1>2. \A v \in Worker : worker[v].due \subseteq Policy BY <1>1 DEF WorkerRecord
<1>3. ASSUME NEW v \in Worker PROVE InHand(worker'[v]) /\ Refers(worker'[v], policies')
  <2>1. CASE v = w BY <2>1, <1>1
  <2>2. CASE v # w
    <3>1. worker'[v] = worker[v] BY <2>2, <1>1
    <3>2. InHand(worker[v]) /\ Refers(worker[v], policies) BY DEF TInv
    <3> QED BY <3>1, <3>2, <1>2 DEF Refers
  <2> QED BY <2>1, <2>2
<1> QED BY <1>1, <1>3

(* The least policy without a row, where ListPolicies puts the default one.*)
LEMMA EarliestOf ==
    ASSUME NEW S \in SUBSET Nat, S # {} PROVE Earliest(S) \in S /\ \A k \in S : Earliest(S) <= k
<1>1. PICK i \in S : \A k \in S : ~(<<k, i>> \in OpToRel(<, Nat)) BY NatLessThanWellFounded, WFMin
<1>2. ASSUME NEW k \in S PROVE i <= k
  <2>1. k \in Nat /\ i \in Nat OBVIOUS
  <2>2. <<k, i>> \in Nat \X Nat BY <2>1
  <2>3. ~(k < i) BY <1>1, <2>2, Zenon DEF OpToRel
  <2> QED BY <2>1, <2>3
<1> QED BY <1>2 DEF Earliest

LEMMA SeededTable ==
    ASSUME GoodTable(policies)
    PROVE  /\ GoodTable(Seeded)
           /\ \A p \in Policy : Seeded[p] # policies[p] =>
                 policies[p] = None /\ Seeded[p] = DefaultPolicy
<1>1. policies \in [Policy -> PolicyRow \cup {None}] BY DEF GoodTable
<1> DEFINE Free == {p \in Policy : policies[p] = None}
<1>2. CASE Free = {}
  <2>1. Seeded = policies BY <1>2 DEF Seeded
  <2> QED BY <2>1
<1>3. CASE Free # {}
  <2>1. Free \in SUBSET Nat BY DEF Policy
  <2>2. Earliest(Free) \in Free BY <1>3, <2>1, EarliestOf
  <2>3. Seeded = policies \/ Seeded = [policies EXCEPT ![Earliest(Free)] = DefaultPolicy]
    BY DEF Seeded
  <2> HIDE DEF Free
  <2>4. PICK q \in Policy : q = Earliest(Free) /\ policies[q] = None BY <2>2 DEF Free
  <2>5. Seeded = policies \/ Seeded = [policies EXCEPT ![q] = DefaultPolicy] BY <2>3, <2>4
  <2> QED BY <1>1, <2>4, <2>5, DefaultRow DEF GoodTable
<1> QED BY <1>2, <1>3

LEMMA SeedStep ==
    ASSUME TInv, policies' = Seeded, NoteSeed
    PROVE  /\ GoodTable(policies') /\ GoodSettings(settings', policies')
           /\ \A p \in Policy : policies[p] # None => policies'[p] = policies[p]
<1>1. GoodTable(policies) /\ GoodSettings(settings, policies) BY DEF TInv
<1>2. GoodTable(policies') BY <1>1, SeededTable
<1>3. \A p \in Policy : policies'[p] # policies[p] =>
         policies'[p] = DefaultPolicy /\ policies[p] = None
  BY <1>1, SeededTable
<1>4. \A p \in Policy : policies'[p] # None => Settings(policies'[p]) \in SettingsRecord
  BY <1>2, SettingsOf DEF GoodTable
<1>5. GoodSettings(settings', policies') BY <1>1, <1>3, <1>4 DEF NoteSeed, GoodSettings
<1> QED BY <1>2, <1>3, <1>5

LEMMA Worked ==
    ASSUME TInv, NEW w \in Worker
    PROVE  worker[w] \in WorkerRecord /\ InHand(worker[w]) /\ Refers(worker[w], policies)
BY DEF TInv

-----------------------------------------------------------------------------
LEMMA CreatePolicyTypes == ASSUME TInv, NEW r \in Request, CreatePolicy(r) PROVE TInv'
<1>1. PICK p \in Policy : /\ policies[p] = None
                          /\ policies' = [policies EXCEPT ![p] = DefaultPolicy]
                          /\ settings' = [settings EXCEPT ![p] = Settings(DefaultPolicy)]
  BY DEF CreatePolicy
<1>2. UNCHANGED <<excluded, keeps, saved, creds, states, dev, worker, day, issued, raced, doubted>>
  BY DEF CreatePolicy
<1>3. GoodTable(policies') BY <1>1, DefaultRow DEF TInv, GoodTable
<1>4. \A q \in Policy : policies[q] # None => policies'[q] # None BY <1>1 DEF TInv, GoodTable
<1>5. GoodSettings(settings', policies')
  BY <1>1, DefaultRow DEF TInv, GoodSettings, GoodTable
<1>6. \A v \in Worker : worker[v].due \subseteq Policy BY DEF TInv, WorkerRecord
<1>7. \A v \in Worker : Refers(worker'[v], policies') BY <1>2, <1>4, <1>6 DEF TInv, Refers
<1> QED BY <1>2, <1>3, <1>5, <1>7 DEF TInv, BasicTypes, GoodTable

(* An edit changes what an administrator sets, and no password of the day. *)
LEMMA EditsOf ==
    ASSUME NEW row \in PolicyRow, HasManual(row), NEW e \in Edits(row)
    PROVE  /\ e \in PolicyRow /\ HasManual(e)
           /\ e.active = row.active /\ e.date = row.date /\ e.live = row.live
<1>1. CASE \E s \in [enabled: BOOLEAN, target: Targets] :
             e = [row EXCEPT !.enabled = s.enabled, !.target = s.target]
  BY <1>1, ZenonT(60) DEF PolicyRow, HasManual
<1>2. CASE e = [row EXCEPT !.mode = "random"] BY <1>2 DEF PolicyRow, HasManual
<1>3. CASE \E m \in ManualPassword : e = [row EXCEPT !.mode = "manual", !.manual = m]
  <2>1. None \notin ManualPassword BY NoneApart DEF Password
  <2> QED BY <1>3, <2>1, ZenonT(120) DEF PolicyRow, HasManual
<1> QED BY <1>1, <1>2, <1>3 DEF Edits

LEMMA ReadPolicyTypes == ASSUME TInv, NEW r \in Request, ReadPolicy(r) PROVE TInv'
<1> USE DEF GoodTable
<1>1. PICK p \in LivePolicies : \E e \in Edits(policies[p]) :
          /\ Step(r, [Idle EXCEPT !.pc = "write", !.policy = p, !.row = e]) /\ NoteRace(r, p)
  BY DEF ReadPolicy
<1>2. PICK row \in Edits(policies[p]) :
          /\ Step(r, [Idle EXCEPT !.pc = "write", !.policy = p, !.row = row]) /\ NoteRace(r, p)
  BY <1>1
<1>3. p \in Policy /\ policies[p] # None /\ policies[p] \in PolicyRow /\ HasManual(policies[p])
  BY DEF LivePolicies, Live, TInv
<1>4. row \in PolicyRow /\ HasManual(row)
  BY <1>3, EditsOf
<1> DEFINE m == [Idle EXCEPT !.pc = "write", !.policy = p, !.row = row]
<1>5. m \in WorkerRecord /\ InHand(m) /\ Refers(m, policies)
  BY <1>3, <1>4, IdleWorker, NoneApart, ZenonT(120)
     DEF Idle, WorkerRecord, InHand, Refers, Pc, RunPc, RotatingPc, Dials
<1>6. worker' = [worker EXCEPT ![r] = m] BY <1>2 DEF Step
<1>7. raced' \subseteq Policy BY <1>2, <1>3 DEF TInv, BasicTypes, NoteRace
<1>8. UNCHANGED <<tables, dev, day, issued, settings, doubted>> BY DEF ReadPolicy
<1>9. r \in Worker BY DEF Worker
<1> HIDE DEF m
<1> QED BY <1>5, <1>6, <1>7, <1>8, <1>9, WorkerStep DEF TInv, BasicTypes, tables

LEMMA WritePolicyTypes == ASSUME TInv, NEW r \in Request, WritePolicy(r) PROVE TInv'
<1> USE DEF GoodTable
<1>1. r \in Worker BY DEF Worker
<1> DEFINE p == worker[r].policy
           row == worker[r].row
<1>2. At(r) = "write" /\ worker' = [worker EXCEPT ![r] = Idle] BY DEF WritePolicy, Step
<1>3. p \in Policy /\ row \in PolicyRow /\ HasManual(row) /\ row # None
  BY <1>1, <1>2, Worked DEF At, InHand, WorkerRecord
<1>4. \/ /\ policies' = [policies EXCEPT ![p] = row]
         /\ settings' = [settings EXCEPT ![p] = Settings(row)]
         /\ NoteRace(r, p)
      \/ UNCHANGED <<policies, settings, raced>>
  BY DEF WritePolicy
<1>5. UNCHANGED <<excluded, keeps, saved, creds, states, dev, day, issued, doubted>>
  BY DEF WritePolicy
<1>6. Settings(row) \in SettingsRecord BY <1>3, SettingsOf
<1> HIDE DEF p, row
<1>7. GoodTable(policies') /\ \A q \in Policy : policies[q] # None => policies'[q] # None
  BY <1>3, <1>4 DEF TInv
<1>8. GoodSettings(settings', policies') BY <1>3, <1>4, <1>6 DEF TInv, GoodSettings
<1>9. raced' \subseteq Policy BY <1>3, <1>4 DEF TInv, BasicTypes, NoteRace
<1> QED BY <1>1, <1>2, <1>5, <1>7, <1>8, <1>9, IdleWorker, WorkerStep DEF TInv, BasicTypes

LEMMA CountPoliciesTypes == ASSUME TInv, NEW r \in Request, CountPolicies(r) PROVE TInv'
<1> USE DEF GoodTable
<1>1. r \in Worker BY DEF Worker
<1>2. PICK p \in Policy :
          /\ policies'[p] # None
          /\ worker' = [worker EXCEPT ![r] = [Idle EXCEPT !.pc = "erase", !.policy = p]]
  BY DEF CountPolicies, Step
<1>3. UNCHANGED <<excluded, keeps, saved, creds, states, dev, day, issued, raced, doubted>>
  BY DEF CountPolicies
<1>4. /\ GoodTable(policies') /\ GoodSettings(settings', policies')
      /\ \A q \in Policy : policies[q] # None => policies'[q] # None
  BY SeedStep DEF CountPolicies
<1> DEFINE m == [Idle EXCEPT !.pc = "erase", !.policy = p]
<1>5. m \in WorkerRecord /\ InHand(m) /\ Refers(m, policies')
  BY <1>2, IdleWorker, ZenonT(120)
     DEF Idle, WorkerRecord, InHand, Refers, Pc, RunPc, RotatingPc, Dials
<1>6. worker' = [worker EXCEPT ![r] = m] BY <1>2
<1> HIDE DEF m
<1> QED BY <1>1, <1>3, <1>4, <1>5, <1>6, WorkerStep DEF TInv, BasicTypes

LEMMA ErasePolicyTypes == ASSUME TInv, NEW r \in Request, ErasePolicy(r) PROVE TInv'
<1> USE DEF GoodTable
<1>1. r \in Worker BY DEF Worker
<1>2. PICK p : p = worker[r].policy OBVIOUS
<1>3. At(r) = "erase" /\ worker' = [worker EXCEPT ![r] = Idle] BY DEF ErasePolicy, Step
<1>4. p \in Policy /\ policies[p] # None
  BY <1>1, <1>2, <1>3, Worked DEF At, InHand, Refers
<1>5. \/ /\ policies' = [policies EXCEPT ![p].live = FALSE]
         /\ settings' = [settings EXCEPT ![p].live = FALSE]
         /\ NoteRace(r, p)
      \/ UNCHANGED <<policies, settings, raced>>
  BY <1>2 DEF ErasePolicy
<1>6. UNCHANGED <<excluded, keeps, saved, creds, states, dev, day, issued, doubted>>
  BY DEF ErasePolicy
<1>7. policies[p] \in PolicyRow /\ HasManual(policies[p]) BY <1>4 DEF TInv
<1>8. /\ [policies[p] EXCEPT !.live = FALSE] \in PolicyRow
      /\ HasManual([policies[p] EXCEPT !.live = FALSE])
  BY <1>7, ZenonT(60) DEF PolicyRow, HasManual
<1>9. GoodTable(policies') /\ \A q \in Policy : policies[q] # None => policies'[q] # None
  BY <1>4, <1>5, <1>8, NoneApart, ZenonT(60) DEF TInv
<1>10. raced' \subseteq Policy BY <1>4, <1>5 DEF TInv, BasicTypes, NoteRace
<1>11. [settings[p] EXCEPT !.live = FALSE] \in SettingsRecord
  BY <1>4, ZenonT(60) DEF TInv, GoodSettings, SettingsRecord
<1>12. GoodSettings(settings', policies') BY <1>4, <1>5, <1>11, ZenonT(60) DEF TInv, GoodSettings
<1> QED BY <1>1, <1>3, <1>6, <1>9, <1>10, <1>12, IdleWorker, WorkerStep DEF TInv, BasicTypes

LEMMA UnkeptWorkers ==
    ASSUME TInv, NEW users, NEW items
    PROVE  /\ WithoutUnkept(users, items) \in [Worker -> WorkerRecord]
           /\ \A v \in Worker : /\ InHand(WithoutUnkept(users, items)[v])
                                /\ Refers(WithoutUnkept(users, items)[v], policies)
<1> SUFFICES ASSUME NEW v \in Worker
             PROVE  /\ [worker[v] EXCEPT !.began = StillKept(v, users, items)] \in WorkerRecord
                    /\ InHand([worker[v] EXCEPT !.began = StillKept(v, users, items)])
                    /\ Refers([worker[v] EXCEPT !.began = StillKept(v, users, items)], policies)
  BY DEF WithoutUnkept
<1>1. StillKept(v, users, items) \subseteq worker[v].began BY DEF StillKept
<1>2. PICK S : S = StillKept(v, users, items) OBVIOUS
<1>3. worker[v] \in WorkerRecord /\ InHand(worker[v]) /\ Refers(worker[v], policies) BY Worked
<1>4. S \subseteq User BY <1>1, <1>2, <1>3 DEF WorkerRecord
<1>5. [worker[v] EXCEPT !.began = S] \in WorkerRecord BY <1>3, <1>4 DEF WorkerRecord
<1>6. InHand([worker[v] EXCEPT !.began = S]) BY <1>3 DEF InHand, WorkerRecord
<1>7. Refers([worker[v] EXCEPT !.began = S], policies) BY <1>3 DEF Refers, WorkerRecord
<1> QED BY <1>2, <1>5, <1>6, <1>7

LEMMA KeepTypes ==
    ASSUME TInv, \/ \E u \in Keepable : CreateKeepUser(u) \/ DeleteKeepUser(u)
                 \/ \E h \in Host : ChangeExclusions(h)
    PROVE  TInv'
<1>1. /\ UNCHANGED <<policies, saved, creds, states, dev, day, issued, history>>
      /\ keeps' \subseteq Keepable /\ excluded' \subseteq Host
  BY DEF CreateKeepUser, DeleteKeepUser, ChangeExclusions, TInv, BasicTypes
<1>2. UNCHANGED worker \/ worker' = WithoutUnkept(keeps', saved)
  BY DEF CreateKeepUser, DeleteKeepUser, ChangeExclusions
<1>3. /\ worker' \in [Worker -> WorkerRecord]
      /\ \A v \in Worker : InHand(worker'[v]) /\ Refers(worker'[v], policies)
  BY <1>2, UnkeptWorkers DEF TInv
<1> QED BY <1>1, <1>3 DEF TInv, BasicTypes, GoodTable, GoodSettings, history

LEMMA HostsOfItem == ASSUME NEW item PROVE HostsOf(item) \subseteq Host
BY DEF HostsOf

LEMMA CreateSavedUserTypes == ASSUME TInv, NEW r \in Request, CreateSavedUser(r) PROVE TInv'
<1>1. r \in Worker BY DEF Worker
<1>2. PICK item \in SavedInputs :
        /\ saved' = saved \cup {item}
        /\ Step(r, [Idle EXCEPT !.pc = "give", !.item = item, !.hosts = HostsOf(item)])
  BY DEF CreateSavedUser
<1>3. UNCHANGED <<policies, excluded, keeps, creds, states, dev, day, issued, history>>
  BY DEF CreateSavedUser
<1>4. PICK S : S = HostsOf(item) OBVIOUS
<1> DEFINE m == [Idle EXCEPT !.pc = "give", !.item = item, !.hosts = S]
<1>5. item # None /\ S \subseteq Host BY <1>4, HostsOfItem, NoneApart
<1>6. m \in WorkerRecord /\ InHand(m) /\ Refers(m, policies)
  BY <1>5, IdleWorker, ZenonT(120)
     DEF Idle, WorkerRecord, InHand, Refers, Pc, RunPc, RotatingPc, Dials
<1>7. worker' = [worker EXCEPT ![r] = m] BY <1>2, <1>4 DEF Step
<1> HIDE DEF m
<1> QED BY <1>1, <1>2, <1>3, <1>6, <1>7, WorkerStep
        DEF TInv, BasicTypes, GoodTable, GoodSettings, history

LEMMA ReadSavedUserTypes == ASSUME TInv, NEW r \in Request, ReadSavedUser(r) PROVE TInv'
<1>1. r \in Worker BY DEF Worker
<1>2. PICK item \in saved :
        Step(r, [Idle EXCEPT !.pc = "take", !.item = item, !.hosts = HostsOf(item)])
  BY DEF ReadSavedUser
<1>3. UNCHANGED <<tables, dev, day, issued, history>> BY DEF ReadSavedUser
<1>4. PICK S : S = HostsOf(item) OBVIOUS
<1> DEFINE m == [Idle EXCEPT !.pc = "take", !.item = item, !.hosts = S]
<1>5. item \in SavedInputs /\ item # None /\ S \subseteq Host
  BY <1>4, HostsOfItem, NoneApart DEF TInv, BasicTypes
<1>6. m \in WorkerRecord /\ InHand(m) /\ Refers(m, policies)
  BY <1>5, IdleWorker, ZenonT(120)
     DEF Idle, WorkerRecord, InHand, Refers, Pc, RunPc, RotatingPc, Dials
<1>7. worker' = [worker EXCEPT ![r] = m] BY <1>2, <1>4 DEF Step
<1> HIDE DEF m
<1> QED BY <1>1, <1>3, <1>6, <1>7, WorkerStep
        DEF TInv, BasicTypes, GoodTable, GoodSettings, history, tables

(* One cell of a table by host and user is changed.                        *)
LEMMA CellChanged ==
    ASSUME NEW V, NEW f \in [Host -> [User -> V]], NEW h \in Host, NEW u \in User, NEW x \in V,
           NEW f2, f2 = [f EXCEPT ![h][u] = x]
    PROVE  /\ f2 \in [Host -> [User -> V]] /\ f2[h][u] = x
           /\ \A g \in Host : \A v \in User : g # h \/ v # u => f2[g][v] = f[g][v]
<1>1. f[h] \in [User -> V] OBVIOUS
<1>2. [f[h] EXCEPT ![u] = x] \in [User -> V] BY <1>1
<1>3. f2 = [f EXCEPT ![h] = [f[h] EXCEPT ![u] = x]] OBVIOUS
<1>4. f2 \in [Host -> [User -> V]] BY <1>2, <1>3
<1>5. f2[h] = [f[h] EXCEPT ![u] = x] BY <1>3
<1>6. \A g \in Host \ {h} : f2[g] = f[g] BY <1>3
<1> QED BY <1>1, <1>4, <1>5, <1>6

(* What becomes of devices and credentials when a user is given to a host. *)
LEMMA GiveUserTypes ==
    ASSUME TInv, NEW h \in Host, NEW u \in User, NEW ok \in BOOLEAN, GiveUser(h, u, ok)
    PROVE  /\ dev' \in [Host -> [User -> Password \cup {None}]]
           /\ creds' \in [Host -> [User -> Credential \cup {None}]]
           /\ \A g \in Host : \A v \in User \ {u} :
                 dev'[g][v] = dev[g][v] /\ creds'[g][v] = creds[g][v]
           /\ \A g \in Host \ {h} : \A v \in User :
                 dev'[g][v] = dev[g][v] /\ creds'[g][v] = creds[g][v]
           /\ \A g \in Host : \A v \in User : dev'[g][v] = dev[g][v] \/ dev'[g][v] = Typed
<1>1. /\ dev \in [Host -> [User -> Password \cup {None}]]
      /\ creds \in [Host -> [User -> Credential \cup {None}]]
  BY DEF TInv, BasicTypes
<1>2. Typed \in Password /\ Typed # None BY NoneApart DEF Password
<1>3. dev' = dev \/ dev' = [dev EXCEPT ![h][u] = Typed] BY DEF GiveUser
<1>4. \/ creds' = creds \/ creds' = [creds EXCEPT ![h][u] = [password |-> Typed, ok |-> TRUE]]
      \/ creds[h][u] # None /\ creds' = [creds EXCEPT ![h][u].ok = FALSE]
  BY DEF GiveUser
<1>5. [password |-> Typed, ok |-> TRUE] \in Credential BY <1>2 DEF Credential
<1>6. creds[h][u] # None => [creds[h][u] EXCEPT !.ok = FALSE] \in Credential
  <2>1. creds[h][u] \in Credential \cup {None} BY <1>1
  <2> QED BY <2>1 DEF Credential
<1>7. /\ dev' \in [Host -> [User -> Password \cup {None}]]
      /\ \A g \in Host : \A v \in User : g # h \/ v # u => dev'[g][v] = dev[g][v]
      /\ dev'[h][u] = dev[h][u] \/ dev'[h][u] = Typed
  <2>1. CASE dev' = dev BY <1>1, <2>1
  <2>2. CASE dev' = [dev EXCEPT ![h][u] = Typed]
    <3>1. Typed \in Password \cup {None} BY <1>2
    <3> QED BY <1>1, <2>2, <3>1, CellChanged
  <2> QED BY <1>3, <2>1, <2>2
<1>8. /\ creds' \in [Host -> [User -> Credential \cup {None}]]
      /\ \A g \in Host : \A v \in User : g # h \/ v # u => creds'[g][v] = creds[g][v]
  <2>1. CASE creds' = creds BY <1>1, <2>1
  <2>2. CASE \E c \in Credential \cup {None} : creds' = [creds EXCEPT ![h][u] = c]
    BY <1>1, <2>2, CellChanged
  <2>3. creds[h][u] # None /\ creds' = [creds EXCEPT ![h][u].ok = FALSE]
        => creds' = [creds EXCEPT ![h][u] = [creds[h][u] EXCEPT !.ok = FALSE]]
    OBVIOUS
  <2> QED BY <1>4, <1>5, <1>6, <2>1, <2>2, <2>3
<1>9. \A g \in Host : \A v \in User : dev'[g][v] = dev[g][v] \/ dev'[g][v] = Typed
  BY <1>7
<1> QED BY <1>2, <1>7, <1>8, <1>9

LEMMA GiveSavedUserTypes == ASSUME TInv, NEW r \in Request, GiveSavedUser(r) PROVE TInv'
<1>1. r \in Worker BY DEF Worker
<1>2. At(r) = "give" /\ worker[r].hosts # {} BY DEF GiveSavedUser
<1>3. /\ worker[r].hosts \in SUBSET Nat /\ worker[r].hosts \subseteq Host
      /\ worker[r].item \in SavedInputs
  BY <1>1, <1>2, Worked, NocPassAssumption DEF WorkerRecord, InHand, At
<1>4. PICK h \in Host : h = Earliest(worker[r].hosts) BY <1>2, <1>3, EarliestOf
<1>5. worker[r].item.user \in User BY <1>3, NocPassAssumption
<1>6. PICK ok \in BOOLEAN : GiveUser(h, worker[r].item.user, ok) BY <1>4 DEF GiveSavedUser
<1>7. /\ dev' \in [Host -> [User -> Password \cup {None}]]
      /\ creds' \in [Host -> [User -> Credential \cup {None}]]
  BY <1>5, <1>6, GiveUserTypes
<1> DEFINE m == [worker[r] EXCEPT !.hosts = @ \ {h}]
<1>8. worker' = [worker EXCEPT ![r] = m] BY <1>4 DEF GiveSavedUser, Step
<1>9. m \in WorkerRecord /\ InHand(m) /\ Refers(m, policies)
  BY <1>1, Worked DEF WorkerRecord, InHand, Refers
<1>10. UNCHANGED <<policies, excluded, keeps, saved, states, day, issued, settings, raced, doubted>>
  BY DEF GiveSavedUser
<1> HIDE DEF m
<1> QED BY <1>1, <1>7, <1>8, <1>9, <1>10, WorkerStep
        DEF TInv, BasicTypes, GoodTable, GoodSettings, history

(* What becomes of them when a user is taken from a host.                  *)
TakesFrom(h, u) ==
    /\ u \in Setup \cup Rotated => h \in mixed'
    /\ \A g \in Host : \A v \in User :
          g # h \/ v # u => dev'[g][v] = dev[g][v] /\ creds'[g][v] = creds[g][v]

LEMMA TakeUserTypes ==
    ASSUME TInv, NEW r \in Request, TakeSavedUser(r)
    PROVE  \E h \in Host, u \in User, b \in BOOLEAN :
             /\ worker[r].item \in SavedInputs /\ u = worker[r].item.user
             /\ TakesFrom(h, u)
             /\ worker' = [worker EXCEPT ![r] = [worker[r] EXCEPT !.hosts = @ \ {h}, !.bad = b]]
             /\ dev' \in [Host -> [User -> Password \cup {None}]]
             /\ creds' \in [Host -> [User -> Credential \cup {None}]]
             /\ \A g \in Host : \A v \in User \ {u} :
                   dev'[g][v] = dev[g][v] /\ creds'[g][v] = creds[g][v]
             /\ \A g \in Host : \A v \in User : dev'[g][v] \in {dev[g][v], None}
<1>1. r \in Worker BY DEF Worker
<1>2. At(r) = "take" /\ worker[r].hosts # {} BY DEF TakeSavedUser
<1>3. worker[r] \in WorkerRecord /\ InHand(worker[r]) BY <1>1, Worked
<1>4. worker[r].item \in SavedInputs BY <1>2, <1>3 DEF WorkerRecord, InHand, At
<1>5. worker[r].hosts \subseteq Host BY <1>3 DEF WorkerRecord
<1>6. worker[r].hosts \in SUBSET Nat BY <1>5, NocPassAssumption
<1>7. PICK h \in Host : h = Earliest(worker[r].hosts) BY <1>2, <1>5, <1>6, EarliestOf
<1>8. PICK u \in User : u = worker[r].item.user BY <1>4, NocPassAssumption
<1>9. \/ worker' = [worker EXCEPT ![r] = [worker[r] EXCEPT !.hosts = @ \ {h}]]
      \/ worker' = [worker EXCEPT ![r] = [worker[r] EXCEPT !.hosts = @ \ {h}, !.bad = TRUE]]
  BY <1>7 DEF TakeSavedUser, Step
<1>10. /\ worker[r].bad \in BOOLEAN
       /\ [worker[r] EXCEPT !.hosts = @ \ {h}]
            = [worker[r] EXCEPT !.hosts = @ \ {h}, !.bad = worker[r].bad]
  BY <1>3 DEF WorkerRecord
<1>11. PICK b \in BOOLEAN :
          worker' = [worker EXCEPT ![r] = [worker[r] EXCEPT !.hosts = @ \ {h}, !.bad = b]]
  BY <1>9, <1>10
<1>12. /\ dev' = dev \/ dev' = [dev EXCEPT ![h][u] = None]
       /\ creds' = creds \/ creds' = [creds EXCEPT ![h][u] = None]
  <2>1. \/ /\ dev' = [dev EXCEPT ![h][u] = None] /\ creds' = [creds EXCEPT ![h][u] = None]
        \/ /\ dev' \in {dev} \cup (IF Admits(h) THEN {[dev EXCEPT ![h][u] = None]} ELSE {})
           /\ UNCHANGED creds
    BY <1>7, <1>8 DEF TakeSavedUser
  <2> QED BY <2>1
<1>13. dev \in [Host -> [User -> Password \cup {None}]] BY DEF TInv, BasicTypes
<1>14. creds \in [Host -> [User -> Credential \cup {None}]] BY DEF TInv, BasicTypes
<1>15. /\ dev' \in [Host -> [User -> Password \cup {None}]]
       /\ \A g \in Host : \A v \in User : g # h \/ v # u => dev'[g][v] = dev[g][v]
       /\ \A g \in Host : \A v \in User : dev'[g][v] \in {dev[g][v], None}
  <2>1. None \in Password \cup {None} OBVIOUS
  <2>2. CASE dev' = dev BY <1>13, <2>2
  <2>3. CASE dev' = [dev EXCEPT ![h][u] = None] BY <1>13, <2>1, <2>3, CellChanged
  <2> QED BY <1>12, <2>2, <2>3
<1>16. /\ creds' \in [Host -> [User -> Credential \cup {None}]]
       /\ \A g \in Host : \A v \in User : g # h \/ v # u => creds'[g][v] = creds[g][v]
  <2>1. None \in Credential \cup {None} OBVIOUS
  <2>2. CASE creds' = creds BY <1>14, <2>2
  <2>3. CASE creds' = [creds EXCEPT ![h][u] = None] BY <1>14, <2>1, <2>3, CellChanged
  <2> QED BY <1>12, <2>2, <2>3
<1>17. u \in Setup \cup Rotated => h \in mixed'
  BY <1>7, <1>8 DEF TakeSavedUser, NoteMixed
<1>18. TakesFrom(h, u) BY <1>15, <1>16, <1>17 DEF TakesFrom
<1> WITNESS h \in Host, u \in User, b \in BOOLEAN
<1> QED BY <1>4, <1>8, <1>11, <1>15, <1>16, <1>18

LEMMA TakeSavedUserTypes == ASSUME TInv, NEW r \in Request, TakeSavedUser(r) PROVE TInv'
<1>1. r \in Worker BY DEF Worker
<1>2. PICK h \in Host, b \in BOOLEAN :
          worker' = [worker EXCEPT ![r] = [worker[r] EXCEPT !.hosts = @ \ {h}, !.bad = b]]
  BY TakeUserTypes
<1>3. /\ dev' \in [Host -> [User -> Password \cup {None}]]
      /\ creds' \in [Host -> [User -> Credential \cup {None}]]
  BY TakeUserTypes
<1>4. worker[r] \in WorkerRecord /\ InHand(worker[r]) /\ Refers(worker[r], policies)
  BY <1>1, Worked
<1> DEFINE m == [worker[r] EXCEPT !.hosts = @ \ {h}, !.bad = b]
<1>5. m \in WorkerRecord BY <1>4, ZenonT(60) DEF WorkerRecord
<1>6. InHand(m) /\ Refers(m, policies) BY <1>4 DEF WorkerRecord, InHand, Refers
<1>7. UNCHANGED <<policies, excluded, keeps, saved, states, day, issued, settings, raced, doubted>>
  BY DEF TakeSavedUser
<1>8. worker' = [worker EXCEPT ![r] = m] BY <1>2
<1> HIDE DEF m
<1> QED BY <1>1, <1>3, <1>5, <1>6, <1>7, <1>8, WorkerStep
        DEF TInv, BasicTypes, GoodTable, GoodSettings, history

LEMMA EndSavedUserTypes == ASSUME TInv, NEW r \in Request, EndSavedUser(r) PROVE TInv'
<1>1. r \in Worker BY DEF Worker
<1>2. PICK items : items = saved' OBVIOUS
<1>3. worker' = [WithoutUnkept(keeps, items) EXCEPT ![r] = Idle] BY <1>2 DEF EndSavedUser
<1>4. items \subseteq saved BY <1>2 DEF EndSavedUser
<1>5. UNCHANGED <<policies, excluded, keeps, creds, states, dev, day, issued, history>>
  BY DEF EndSavedUser
<1>6. /\ worker' \in [Worker -> WorkerRecord]
      /\ \A v \in Worker : InHand(worker'[v]) /\ Refers(worker'[v], policies)
  BY <1>1, <1>3, UnkeptWorkers, IdleWorker
<1> QED BY <1>2, <1>4, <1>5, <1>6 DEF TInv, BasicTypes, GoodTable, GoodSettings, history

-----------------------------------------------------------------------------
NextRecord(due, d) == [Idle EXCEPT !.pc = "next", !.due = due, !.day = d]

LEMMA NextWorker ==
    ASSUME NEW due \in SUBSET Policy, NEW d \in Day
    PROVE  /\ NextRecord(due, d) \in WorkerRecord /\ InHand(NextRecord(due, d))
           /\ NextRecord(due, d).row = None /\ NextRecord(due, d).password = None
           /\ NextRecord(due, d).pc = "next" /\ NextRecord(due, d).day = d
           /\ NextRecord(due, d).due = due /\ NextRecord(due, d).policy = 0
<1> DEFINE m == NextRecord(due, d)
<1>1. m \in WorkerRecord BY IdleWorker, ZenonT(60) DEF NextRecord, Idle, WorkerRecord, Pc
<1>2. /\ m.row = None /\ m.password = None /\ m.pc = "next" /\ m.day = d
      /\ m.due = due /\ m.policy = 0 /\ ~m.sent
  BY DEF NextRecord, Idle
<1>3. InHand(m) BY <1>2 DEF InHand, RunPc, RotatingPc, Dials
<1> QED BY <1>1, <1>2, <1>3

LEMMA RunDueTypes == ASSUME TInv, RunDue PROVE TInv'
<1>1. UNCHANGED <<excluded, keeps, saved, creds, states, dev, day, issued, raced, doubted>>
  BY DEF RunDue
<1>2. Rotator \in Worker BY DEF Worker
<1>3. /\ GoodTable(policies') /\ GoodSettings(settings', policies')
      /\ \A p \in Policy : policies[p] # None => policies'[p] # None
  <2>1. CASE policies' = Seeded /\ NoteSeed BY <2>1, SeedStep
  <2>2. CASE UNCHANGED <<policies, settings>> BY <2>2 DEF TInv
  <2> QED BY <2>1, <2>2 DEF RunDue
<1>4. CASE UNCHANGED worker
  <2>1. \A v \in Worker : worker[v].due \subseteq Policy BY DEF TInv, WorkerRecord
  <2>2. \A v \in Worker : Refers(worker'[v], policies') BY <1>3, <1>4, <2>1 DEF TInv, Refers
  <2> QED BY <1>1, <1>3, <1>4, <2>2 DEF TInv, BasicTypes, GoodTable
<1>5. CASE worker' # worker
  <2>1. PICK due \in SUBSET LivePolicies :
           worker' = [worker EXCEPT ![Rotator] =
                         [Idle EXCEPT !.pc = "next", !.due = due, !.day = day]]
    <3>1. PICK due : /\ due = {p \in LivePolicies : ShouldRunPolicy(policies[p], day)}
                     /\ worker' = IF due = {} THEN worker
                                  ELSE [worker EXCEPT ![Rotator] =
                                          [Idle EXCEPT !.pc = "next", !.due = due, !.day = day]]
      BY <1>5 DEF RunDue
    <3> QED BY <3>1, <1>5
  <2>2. \A p \in due : p \in Policy /\ policies[p] # None BY <2>1 DEF LivePolicies, Live
  <2>3. day \in Day BY DEF TInv, BasicTypes
  <2>4. due \in SUBSET Policy BY <2>2
  <2>5. \A p \in due : policies'[p] # None BY <1>3, <2>2
  <2>6. PICK m : m = NextRecord(due, day) OBVIOUS
  <2>7. worker' = [worker EXCEPT ![Rotator] = m] BY <2>1, <2>6 DEF NextRecord
  <2>8. m \in WorkerRecord /\ InHand(m) /\ m.due = due /\ m.policy = 0
    BY <2>3, <2>4, <2>6, NextWorker
  <2>9. 0 \notin Policy BY DEF Policy
  <2>10. Refers(m, policies') BY <2>5, <2>8, <2>9 DEF Refers
  <2>13. /\ worker' \in [Worker -> WorkerRecord]
         /\ \A v \in Worker : InHand(worker'[v]) /\ Refers(worker'[v], policies')
    BY <1>2, <1>3, <2>7, <2>8, <2>10, WorkerStep
  <2> QED BY <1>1, <1>3, <2>13 DEF TInv, BasicTypes, GoodTable
<1> QED BY <1>4, <1>5

LEMMA NoneDueTypes == ASSUME TInv, NoneDue PROVE TInv'
<1>1. Rotator \in Worker BY DEF Worker
<1>2. worker' = [worker EXCEPT ![Rotator] = Idle] BY DEF NoneDue, Step
<1>3. UNCHANGED <<tables, dev, day, issued, history>> BY DEF NoneDue
<1> QED BY <1>1, <1>2, <1>3, IdleWorker, WorkerStep
        DEF TInv, BasicTypes, GoodTable, GoodSettings, tables, history

(* What a goroutine has in hand when its run is over.                      *)
LEMMA EndedWorker ==
    ASSUME TInv, NEW w \in Worker, At(w) \in RunPc \cup {"next"} \/ w # Rotator
    PROVE  /\ Ended(w) \in WorkerRecord /\ InHand(Ended(w)) /\ Refers(Ended(w), policies)
           /\ Ended(w).row = None /\ Ended(w).password = None
           /\ Ended(w).pc = IF w = Rotator THEN "next" ELSE "idle"
           /\ Ended(w).day = IF w = Rotator THEN worker[w].day ELSE NoDay
<1>1. worker[w] \in WorkerRecord /\ InHand(worker[w]) /\ Refers(worker[w], policies) BY Worked
<1>2. CASE w # Rotator BY <1>2, IdleWorker DEF Ended, Idle
<1>3. CASE w = Rotator
  <2>1. worker[w].due \subseteq Policy /\ worker[w].day \in Day
    BY <1>1, <1>3 DEF WorkerRecord, InHand, At
  <2>2. PICK e : e = NextRecord(worker[w].due, worker[w].day) OBVIOUS
  <2>3. Ended(w) = e BY <1>3, <2>2 DEF Ended, NextRecord
  <2>4. \A p \in worker[w].due : policies[p] # None BY <1>1 DEF Refers
  <2>5. /\ e \in WorkerRecord /\ InHand(e) /\ e.due = worker[w].due /\ e.policy = 0
        /\ e.row = None /\ e.password = None /\ e.pc = "next" /\ e.day = worker[w].day
    BY <2>1, <2>2, NextWorker
  <2>6. 0 \notin Policy BY DEF Policy
  <2>7. Refers(e, policies) BY <2>4, <2>5, <2>6 DEF Refers
  <2> QED BY <1>3, <2>3, <2>5, <2>7
<1> QED BY <1>2, <1>3

LessDueRecord(m, p) == [m EXCEPT !.due = @ \ {p}]

LEMMA LessDue ==
    ASSUME NEW m \in WorkerRecord, NEW t, InHand(m), Refers(m, t), NEW p
    PROVE  /\ LessDueRecord(m, p) \in WorkerRecord /\ InHand(LessDueRecord(m, p))
           /\ Refers(LessDueRecord(m, p), t)
           /\ LessDueRecord(m, p).pc = m.pc /\ LessDueRecord(m, p).row = m.row
           /\ LessDueRecord(m, p).password = m.password /\ LessDueRecord(m, p).day = m.day
<1>1. LessDueRecord(m, p) \in WorkerRecord BY DEF LessDueRecord, WorkerRecord
<1> QED BY <1>1, SMTT(60) DEF LessDueRecord, WorkerRecord, InHand, Refers

RunRecord(e, p, d, row) ==
    [e EXCEPT !.policy = p, !.day = d, !.pc = "targets", !.due = e.due \ {p}, !.row = row]

LEMMA RunBegins ==
    ASSUME NEW e \in WorkerRecord, NEW p \in Policy, NEW d \in Day, NEW row \in PolicyRow
    PROVE  /\ RunRecord(e, p, d, row) \in WorkerRecord
           /\ RunRecord(e, p, d, row).pc = "targets" /\ RunRecord(e, p, d, row).row = row
           /\ RunRecord(e, p, d, row).policy = p /\ RunRecord(e, p, d, row).day = d
           /\ RunRecord(e, p, d, row).password = e.password
           /\ RunRecord(e, p, d, row).due = e.due \ {p}
           /\ RunRecord(e, p, d, row).sent = e.sent
<1>1. "targets" \in Pc BY DEF Pc, RunPc
<1> QED BY <1>1, ZenonT(120) DEF RunRecord, WorkerRecord

(* A policy that is read for a run.                                        *)
ReadRecord(w, p) ==
    [Begun(w, p) EXCEPT !.pc = "targets", !.due = @ \ {p}, !.row = policies[p]]

LEMMA ReadForRunWorker ==
    ASSUME TInv, NEW w \in Worker, NEW p \in Policy, policies[p] # None,
           At(w) = "next" \/ w # Rotator, policies[p].live,
           NEW m, m = ReadRecord(w, p)
    PROVE  /\ m \in WorkerRecord /\ InHand(m) /\ Refers(m, policies)
           /\ m.pc = "targets" /\ m.row = policies[p] /\ m.policy = p /\ m.password = None
           /\ m.day = (IF w = Rotator THEN worker[w].day ELSE day)
           /\ m.day = Begun(w, p).day
<1>1. PICK e : e = Ended(w) OBVIOUS
<1>2. /\ e \in WorkerRecord /\ InHand(e) /\ Refers(e, policies)
      /\ e.password = None /\ e.day = IF w = Rotator THEN worker[w].day ELSE NoDay
      /\ ~e.sent
  <2>1. Ended(w).pc = IF w = Rotator THEN "next" ELSE "idle" BY EndedWorker
  <2>2. InHand(Ended(w)) BY EndedWorker
  <2>3. ~Ended(w).sent BY <2>1, <2>2 DEF InHand, RotatingPc, Dials
  <2> QED BY <1>1, <2>3, EndedWorker
<1>3. PICK d : d = IF w = Rotator THEN worker[w].day ELSE day OBVIOUS
<1>4. d \in Day
  <2>1. day \in Day BY DEF TInv, BasicTypes
  <2>2. At(w) = "next" => worker[w].day \in Day BY Worked DEF InHand, At
  <2> QED BY <1>3, <2>1, <2>2
<1>5. Begun(w, p) = [e EXCEPT !.policy = p, !.day = d] BY <1>1, <1>2, <1>3 DEF Begun
<1>6. m = [e EXCEPT !.policy = p, !.day = d, !.pc = "targets", !.due = e.due \ {p},
                    !.row = policies[p]]
  <2>1. Begun(w, p) = [e EXCEPT !.policy = p, !.day = d] BY <1>5
  <2>2. Begun(w, p).due = e.due BY <1>2, <2>1 DEF WorkerRecord
  <2> QED BY <1>2, <2>1, <2>2 DEF ReadRecord, WorkerRecord
<1>7. PICK row : row = policies[p] OBVIOUS
<1>8. row \in PolicyRow /\ HasManual(row) /\ row.live BY <1>7 DEF TInv, GoodTable
<1>9. m = RunRecord(e, p, d, row) BY <1>6, <1>7 DEF RunRecord
<1>10. /\ m \in WorkerRecord
       /\ m.pc = "targets" /\ m.row = row /\ m.policy = p /\ m.password = e.password
       /\ m.day = d /\ m.due = e.due \ {p} /\ ~m.sent
  <2>1. e \in WorkerRecord /\ p \in Policy /\ d \in Day /\ row \in PolicyRow BY <1>2, <1>4, <1>8
  <2>2. /\ RunRecord(e, p, d, row) \in WorkerRecord
        /\ RunRecord(e, p, d, row).pc = "targets" /\ RunRecord(e, p, d, row).row = row
        /\ RunRecord(e, p, d, row).policy = p /\ RunRecord(e, p, d, row).day = d
        /\ RunRecord(e, p, d, row).password = e.password
        /\ RunRecord(e, p, d, row).due = e.due \ {p}
        /\ RunRecord(e, p, d, row).sent = e.sent
    BY <2>1, RunBegins, SMT
  <2> QED BY <1>2, <1>9, <2>2
<1>11. InHand(m) BY <1>4, <1>8, <1>10, NoneApart DEF InHand, RunPc, RotatingPc, Dials
<1>12. Refers(m, policies) BY <1>2, <1>10 DEF Refers
<1>13. Begun(w, p).day = d BY <1>2, <1>5 DEF WorkerRecord
<1> QED BY <1>2, <1>3, <1>7, <1>10, <1>11, <1>12, <1>13

(* A run of policy p begins, or p is passed over.                          *)
RunBegun(w, p, m) ==
    /\ policies[p] # None /\ policies[p].live
    /\ m.pc = "targets" /\ m.row = policies[p] /\ m.policy = p
    /\ m.day = IF w = Rotator THEN worker[w].day ELSE day
    /\ raced' = IF HeldByOther(w, p) \/ m.day # day THEN raced \cup {p} ELSE raced

PassedOver(w, m) ==
    /\ m.row = None /\ m.pc = (IF w = Rotator THEN "next" ELSE "idle")
    /\ m.day = (IF w = Rotator THEN worker[w].day ELSE NoDay)
    /\ raced' = raced

LEMMA GetPolicyStep ==
    ASSUME TInv, NEW w \in Worker, GetPolicy(w)
    PROVE  \E p \in Policy, m \in WorkerRecord :
             /\ worker' = [worker EXCEPT ![w] = m]
             /\ InHand(m) /\ Refers(m, policies) /\ m.password = None
             /\ RunBegun(w, p, m) \/ PassedOver(w, m)
<1>1. At(w) = "next" \/ w # Rotator BY NocPassAssumption DEF GetPolicy, Worker
<1>2. w = Rotator =>
         worker[w].due # {} /\ worker[w].due \in SUBSET Nat /\ worker[w].due \subseteq Policy
  BY Worked, NocPassAssumption DEF GetPolicy, WorkerRecord, Policy
<1>3. PICK p \in (IF w = Rotator THEN {Earliest(worker[w].due)} ELSE LivePolicies) :
          \/ ReadForRun(w, p, policies[p])
          \/ Step(w, [Ended(w) EXCEPT !.due = @ \ {p}]) /\ UNCHANGED raced
  BY DEF GetPolicy
<1>4. p \in Policy /\ policies[p] # None
  <2>1. CASE w = Rotator
    <3>1. p \in worker[w].due BY <1>2, <1>3, <2>1, EarliestOf
    <3> QED BY <1>2, <2>1, <3>1, Worked DEF Refers
  <2>2. CASE w # Rotator BY <1>3, <2>2 DEF LivePolicies, Live
  <2> QED BY <2>1, <2>2
<1>5. \/ /\ policies[p].live
         /\ Step(w, [Begun(w, p) EXCEPT !.pc = "targets", !.due = @ \ {p}, !.row = policies[p]])
         /\ raced' = IF HeldByOther(w, p) \/ Begun(w, p).day # day THEN raced \cup {p} ELSE raced
      \/ Step(w, [Ended(w) EXCEPT !.due = @ \ {p}]) /\ raced' = raced
  BY <1>3 DEF ReadForRun
<1>6. CASE /\ policies[p].live
           /\ Step(w, [Begun(w, p) EXCEPT !.pc = "targets", !.due = @ \ {p}, !.row = policies[p]])
           /\ raced' = IF HeldByOther(w, p) \/ Begun(w, p).day # day THEN raced \cup {p} ELSE raced
  <2>1. PICK m : m = ReadRecord(w, p) OBVIOUS
  <2>2. /\ m \in WorkerRecord /\ InHand(m) /\ Refers(m, policies)
        /\ m.pc = "targets" /\ m.row = policies[p] /\ m.policy = p /\ m.password = None
        /\ m.day = (IF w = Rotator THEN worker[w].day ELSE day)
        /\ m.day = Begun(w, p).day
    <3>1. policies[p] # None /\ policies[p].live BY <1>4, <1>6
    <3> QED BY <1>1, <1>4, <2>1, <3>1, ReadForRunWorker
  <2>3. worker' = [worker EXCEPT ![w] = m] BY <1>6, <2>1 DEF Step, ReadRecord
  <2>4. RunBegun(w, p, m) BY <1>4, <1>6, <2>2 DEF RunBegun
  <2> QED BY <1>4, <2>2, <2>3, <2>4
<1>7. CASE Step(w, [Ended(w) EXCEPT !.due = @ \ {p}]) /\ raced' = raced
  <2>1. PICK e : e = Ended(w) OBVIOUS
  <2>2. /\ e \in WorkerRecord /\ InHand(e) /\ Refers(e, policies)
        /\ e.row = None /\ e.password = None
        /\ e.pc = (IF w = Rotator THEN "next" ELSE "idle")
        /\ e.day = (IF w = Rotator THEN worker[w].day ELSE NoDay)
    BY <1>1, <2>1, EndedWorker
  <2>3. PICK m : m = LessDueRecord(e, p) OBVIOUS
  <2>4. m \in WorkerRecord /\ InHand(m) /\ Refers(m, policies) BY <2>2, <2>3, LessDue
  <2>5. m.pc = e.pc /\ m.row = e.row /\ m.password = e.password /\ m.day = e.day
    BY <2>2, <2>3, LessDue
  <2>6. worker' = [worker EXCEPT ![w] = m] BY <1>7, <2>1, <2>3 DEF Step, LessDueRecord
  <2>7. PassedOver(w, m) BY <1>7, <2>2, <2>5 DEF PassedOver
  <2> QED BY <1>4, <2>2, <2>4, <2>5, <2>6, <2>7
<1> QED BY <1>5, <1>6, <1>7

LEMMA GetPolicyTypes == ASSUME TInv, NEW w \in Worker, GetPolicy(w) PROVE TInv'
<1>1. PICK p \in Policy, m \in WorkerRecord :
          /\ worker' = [worker EXCEPT ![w] = m] /\ InHand(m) /\ Refers(m, policies)
          /\ RunBegun(w, p, m) \/ PassedOver(w, m)
  BY GetPolicyStep
<1>2. UNCHANGED <<tables, dev, day, issued, settings, doubted>> BY DEF GetPolicy
<1>3. raced' \subseteq Policy BY <1>1 DEF RunBegun, PassedOver, TInv, BasicTypes
<1> QED BY <1>1, <1>2, <1>3, WorkerStep DEF TInv, BasicTypes, GoodTable, GoodSettings, tables

(* Rows that differ at most in when and with what outcome they ran.        *)
SameButOutcome(s, row) ==
    Settings(s) = Settings(row) /\ s.active = row.active /\ s.date = row.date

LEMMA ConcludedWorker ==
    ASSUME TInv, NEW w \in Worker, At(w) \in RunPc \ RotatingPc,
           NEW status \in {"ok", "error"}, NEW m,
           m = Concluded(w, status)
    PROVE  /\ m \in WorkerRecord /\ InHand(m) /\ Refers(m, policies)
           /\ m.pc = "save" /\ m.policy = worker[w].policy /\ m.day = worker[w].day
           /\ m.password = worker[w].password
           /\ SameButOutcome(m.row, worker[w].row)
<1>1. PICK me : me = worker[w] OBVIOUS
<1>2. /\ me \in WorkerRecord /\ InHand(me) /\ Refers(me, policies)
      /\ me.pc \in RunPc \ RotatingPc
  BY <1>1, Worked DEF At
<1>3. /\ me.row \in PolicyRow /\ HasManual(me.row) /\ me.row.live
      /\ me.policy \in Policy /\ me.day \in Day
  BY <1>2 DEF InHand, WorkerRecord
<1>4. PICK row : row = [me.row EXCEPT !.ran = me.day, !.status = status] OBVIOUS
<1>5. row \in PolicyRow BY <1>3, <1>4 DEF PolicyRow
<1>6. HasManual(row) /\ row.live /\ SameButOutcome(row, me.row)
  BY <1>3, <1>4 DEF PolicyRow, HasManual, SameButOutcome, Settings
<1>7. m = [me EXCEPT !.pc = "save", !.row = row]
  BY <1>1, <1>2, <1>4 DEF Concluded, WorkerRecord
<1>8. "save" \in Pc BY DEF Pc, RunPc
<1>9. m \in WorkerRecord BY <1>2, <1>5, <1>7, <1>8, ZenonT(120) DEF WorkerRecord
<1>10. /\ m.pc = "save" /\ m.policy = me.policy /\ m.day = me.day /\ m.password = me.password
       /\ m.row = row /\ m.due = me.due /\ ~m.sent
  BY <1>2, <1>7 DEF WorkerRecord, InHand
<1>11. InHand(m) BY <1>3, <1>5, <1>6, <1>10, NoneApart DEF InHand, RunPc, RotatingPc, Dials
<1>12. Refers(m, policies) BY <1>2, <1>10 DEF Refers
<1> QED BY <1>1, <1>6, <1>9, <1>10, <1>11, <1>12

(* The run is over: whatever w had in hand is gone.                        *)
RunOver(w, m) ==
    /\ m.row = None /\ m.password = None /\ m.pc = (IF w = Rotator THEN "next" ELSE "idle")
    /\ m.day = (IF w = Rotator THEN worker[w].day ELSE NoDay)

SameErrand(m, me) == m.policy = me.policy /\ m.day = me.day /\ m.password = me.password

LEMMA ResolveTargetsStep ==
    ASSUME TInv, NEW w \in Worker, ResolveTargets(w)
    PROVE  \E m \in WorkerRecord :
             /\ worker' = [worker EXCEPT ![w] = m]
             /\ InHand(m) /\ Refers(m, policies)
             /\ \/ RunOver(w, m)
                \/ SameErrand(m, worker[w]) /\ m.pc = "save" /\ SameButOutcome(m.row, worker[w].row)
                \/ SameErrand(m, worker[w]) /\ m.pc = "passwords" /\ m.row = worker[w].row
<1>1. At(w) = "targets" BY DEF ResolveTargets
<1>2. At(w) \in RunPc \ RotatingPc BY <1>1 DEF RunPc, RotatingPc, Dials
<1>3. PICK S \in SUBSET Host, status \in {"ok", "error"} :
         \/ Step(w, Concluded(w, status))
         \/ Step(w, [worker[w] EXCEPT !.pc = "passwords", !.hosts = S])
         \/ Step(w, Ended(w))
  <2>1. PICK matched, owned :
           /\ owned \subseteq Host
           /\ \/ Step(w, IF matched # {} /\ owned = {} THEN Concluded(w, "ok")
                         ELSE IF owned \subseteq excluded THEN Concluded(w, "error")
                         ELSE [worker[w] EXCEPT !.pc = "passwords", !.hosts = owned \ excluded])
              \/ Step(w, Concluded(w, "error"))
              \/ Step(w, Ended(w))
    <3>1. PICK p, row : p = worker[w].policy /\ row = worker[w].row OBVIOUS
    <3>2. PICK matched : matched = {h \in Host : TargetMatches(row.target, h)} OBVIOUS
    <3>3. PICK owned : owned = {h \in matched : PolicyOwnsRow(p, row, h)} OBVIOUS
    <3>4. owned \subseteq Host BY <3>2, <3>3
    <3> QED BY <3>1, <3>2, <3>3, <3>4 DEF ResolveTargets
  <2>2. owned \ excluded \in SUBSET Host /\ Host \in SUBSET Host BY <2>1
  <2>3. "ok" \in {"ok", "error"} /\ "error" \in {"ok", "error"} OBVIOUS
  <2>4. CASE Step(w, Concluded(w, "error")) \/ Step(w, Ended(w)) BY <2>2, <2>3, <2>4
  <2>5. CASE Step(w, Concluded(w, "ok")) BY <2>2, <2>3, <2>5
  <2>6. CASE Step(w, [worker[w] EXCEPT !.pc = "passwords", !.hosts = owned \ excluded])
    BY <2>2, <2>3, <2>6
  <2> QED BY <2>1, <2>4, <2>5, <2>6
<1>4. CASE Step(w, Concluded(w, status))
  <2>1. PICK m : m = Concluded(w, status) OBVIOUS
  <2> QED BY <1>2, <1>4, <2>1, ConcludedWorker DEF Step, SameErrand
<1>5. CASE Step(w, Ended(w))
  <2>1. PICK m : m = Ended(w) OBVIOUS
  <2> QED BY <1>2, <1>5, <2>1, EndedWorker DEF Step, RunOver
<1>6. CASE Step(w, [worker[w] EXCEPT !.pc = "passwords", !.hosts = S])
  <2>1. PICK me : me = worker[w] OBVIOUS
  <2>2. me \in WorkerRecord /\ InHand(me) /\ Refers(me, policies) /\ me.pc = "targets"
    BY <1>1, <2>1, Worked DEF At
  <2>3. PICK m : m = [me EXCEPT !.pc = "passwords", !.hosts = S] OBVIOUS
  <2>4. "passwords" \in Pc BY DEF Pc, RunPc
  <2>5. m \in WorkerRecord BY <2>2, <2>3, <2>4, ZenonT(60) DEF WorkerRecord
  <2>6. /\ SameErrand(m, me) /\ m.pc = "passwords" /\ m.row = me.row /\ m.due = me.due
        /\ m.policy = me.policy /\ m.day = me.day
    BY <2>2, <2>3 DEF WorkerRecord, SameErrand
  <2>7. ~m.sent BY <2>2, <2>3 DEF WorkerRecord, InHand, RotatingPc, Dials
  <2>8. InHand(m) /\ Refers(m, policies)
    BY <2>2, <2>6, <2>7 DEF InHand, Refers, RunPc, RotatingPc, Dials
  <2>9. worker' = [worker EXCEPT ![w] = m] BY <1>6, <2>1, <2>3 DEF Step
  <2> QED BY <2>1, <2>5, <2>6, <2>8, <2>9
<1> QED BY <1>3, <1>4, <1>5, <1>6

(* What refers to a row still does when no row vanishes.                   *)
LEMMA StillRefers ==
    ASSUME TInv, NEW m \in WorkerRecord, Refers(m, policies),
           \A p \in Policy : policies[p] # None => policies'[p] # None
    PROVE  Refers(m, policies')
BY DEF Refers, WorkerRecord

LEMMA ResolveTargetsTypes == ASSUME TInv, NEW w \in Worker, ResolveTargets(w) PROVE TInv'
<1>1. PICK m \in WorkerRecord :
          worker' = [worker EXCEPT ![w] = m] /\ InHand(m) /\ Refers(m, policies)
  BY ResolveTargetsStep
<1>2. UNCHANGED <<excluded, keeps, saved, creds, states, dev, day, issued, raced, doubted>>
  BY DEF ResolveTargets
<1>3. /\ GoodTable(policies') /\ GoodSettings(settings', policies')
      /\ \A p \in Policy : policies[p] # None => policies'[p] # None
  <2>1. CASE policies' = Seeded /\ NoteSeed BY <2>1, SeedStep
  <2>2. CASE UNCHANGED <<policies, settings>> BY <2>2 DEF TInv
  <2> QED BY <2>1, <2>2 DEF ResolveTargets
<1>4. Refers(m, policies') BY <1>1, <1>3, StillRefers
<1> QED BY <1>1, <1>2, <1>3, <1>4, WorkerStep DEF TInv, BasicTypes, GoodTable

-----------------------------------------------------------------------------
(* The password of the day, x, comes from a manual row or is new.          *)
Renewed(w, x) ==
    \/ x \in ManualPassword /\ issued' = issued
    \/ /\ x = Len(issued) + 1 /\ x \in Generated
       /\ issued' = Append(issued, [policy |-> worker[w].policy, day |-> worker[w].day])

(* The row of the run with the password x of the day of the run.           *)
RenewedRow(s, w, x) ==
    /\ Settings(s) = Settings(worker[w].row) /\ s.active = x /\ s.date = worker[w].day

(* What EnsurePolicyPasswords leaves in the hands of w, m, and the table.  *)
Kept(w, m) ==
    /\ UNCHANGED <<policies, issued>>
    /\ m.pc = "host" /\ m.row = worker[w].row
    /\ \/ m.password \in ManualPassword
       \/ m.password = worker[w].row.active /\ worker[w].row.date = worker[w].day

RenewedAndSaved(w, m, x) ==
    /\ Renewed(w, x)
    /\ worker[w].row.active = None \/ worker[w].row.date # worker[w].day
    /\ m.pc = "host" /\ RenewedRow(m.row, w, x) /\ m.password = x
    /\ policies' = [policies EXCEPT ![worker[w].policy] = m.row]

RenewedUnsaved(w, m, x) ==
    /\ Renewed(w, x) /\ UNCHANGED policies
    /\ worker[w].row.active = None \/ worker[w].row.date # worker[w].day
    /\ m.pc = "save" /\ RenewedRow(m.row, w, x) /\ m.password = worker[w].password

LEMMA NewPasswordOf ==
    ASSUME TInv, NEW w \in Worker, At(w) \in RunPc, NEW x, x = NewPassword(w),
           worker[w].row.mode = "random" => Len(issued) < MaxPasswords,
           issued' = IF worker[w].row.mode = "random" THEN Append(issued, Issue(w)) ELSE issued
    PROVE  Renewed(w, x) /\ x \in Password
<1>1. PICK row : row = worker[w].row OBVIOUS
<1>2. row \in PolicyRow /\ HasManual(row) BY <1>1, Worked DEF InHand, WorkerRecord, At
<1>3. CASE row.mode = "manual"
  <2>1. x = row.manual /\ row.manual # None BY <1>1, <1>2, <1>3 DEF NewPassword, HasManual
  <2>2. x \in ManualPassword BY <1>2, <2>1 DEF PolicyRow
  <2>3. issued' = issued BY <1>1, <1>3
  <2> QED BY <2>2, <2>3 DEF Renewed, Password
<1>4. CASE row.mode = "random"
  <2>1. x = Len(issued) + 1 BY <1>1, <1>4 DEF NewPassword
  <2>2. Len(issued) \in Nat BY DEF TInv, BasicTypes
  <2>3. Len(issued) < MaxPasswords BY <1>1, <1>4
  <2>4. x \in Generated BY <2>1, <2>2, <2>3, NocPassAssumption DEF Generated
  <2>5. issued' = Append(issued, [policy |-> worker[w].policy, day |-> worker[w].day])
    BY <1>1, <1>4 DEF Issue
  <2> QED BY <2>1, <2>4, <2>5 DEF Renewed, Password
<1> QED BY <1>2, <1>3, <1>4 DEF PolicyRow

LEMMA EnsurePolicyPasswordsStep ==
    ASSUME TInv, NEW w \in Worker, EnsurePolicyPasswords(w)
    PROVE  \E m \in WorkerRecord, x \in Password :
             /\ worker' = [worker EXCEPT ![w] = m]
             /\ InHand(m) /\ Refers(m, policies)
             /\ m.policy = worker[w].policy /\ m.day = worker[w].day
             /\ Kept(w, m) \/ RenewedAndSaved(w, m, x) \/ RenewedUnsaved(w, m, x)
<1>1. PICK me : me = worker[w] OBVIOUS
<1>2. me.pc = "passwords" BY <1>1 DEF EnsurePolicyPasswords, At
<1>3. me \in WorkerRecord /\ InHand(me) /\ Refers(me, policies) BY <1>1, Worked
<1>4. PICK row \in PolicyRow : row = me.row BY <1>2, <1>3 DEF InHand, WorkerRecord, RunPc
<1>5. HasManual(row) /\ row.live /\ me.policy \in Policy /\ me.day \in Day
  BY <1>2, <1>3, <1>4 DEF InHand, RunPc
<1>6. At(w) \in RunPc \ RotatingPc /\ ~me.sent
  BY <1>1, <1>2, <1>3 DEF At, RunPc, RotatingPc, Dials, InHand
<1>7. "host" \in Pc /\ "save" \in Pc BY DEF Pc, RunPc
<1>8. CASE ~Renews(w) /\ UNCHANGED <<policies, issued>>
           /\ Step(w, [worker[w] EXCEPT !.pc = "host",
                         !.password = IF row.mode = "manual" THEN row.manual ELSE row.active])
  <2>1. PICK x : x = IF row.mode = "manual" THEN row.manual ELSE row.active OBVIOUS
  <2>2. row.active # None /\ row.date = me.day BY <1>1, <1>4, <1>8 DEF Renews
  <2>3. x # None /\ (x \in ManualPassword \/ x = row.active)
    BY <1>5, <2>1, <2>2 DEF HasManual, PolicyRow
  <2>4. x \in Password BY <2>3 DEF PolicyRow, Password
  <2>5. PICK m : m = [me EXCEPT !.pc = "host", !.password = x] OBVIOUS
  <2>6. m \in WorkerRecord BY <1>3, <1>7, <2>4, <2>5, ZenonT(60) DEF WorkerRecord
  <2>7. /\ m.pc = "host" /\ m.password = x /\ m.row = row /\ m.policy = me.policy
        /\ m.day = me.day /\ m.due = me.due /\ ~m.sent
    BY <1>3, <1>4, <1>6, <2>5 DEF WorkerRecord
  <2>8. InHand(m)
    BY <1>4, <1>5, <2>3, <2>7, NoneApart DEF InHand, RunPc, RotatingPc, Dials
  <2>9. Refers(m, policies) BY <1>3, <2>7 DEF Refers
  <2>10. worker' = [worker EXCEPT ![w] = m] BY <1>1, <1>8, <2>1, <2>5 DEF Step
  <2>11. Kept(w, m) BY <1>1, <1>4, <1>8, <2>2, <2>3, <2>7 DEF Kept
  <2> QED BY <1>1, <2>4, <2>6, <2>7, <2>8, <2>9, <2>10, <2>11
<1>9. ASSUME NEW s, s = [row EXCEPT !.active = NewPassword(w), !.date = worker[w].day],
             Renews(w), row.mode = "random" => Len(issued) < MaxPasswords,
             issued' = IF row.mode = "random" THEN Append(issued, Issue(w)) ELSE issued,
             \/ /\ Save(worker[w].policy, s)
                /\ Step(w, [worker[w] EXCEPT !.pc = "host", !.row = s, !.password = s.active])
             \/ /\ Step(w, [Concluded(w, "error") EXCEPT !.row.active = s.active,
                                                         !.row.date = s.date])
                /\ UNCHANGED policies
      PROVE  \E m \in WorkerRecord, x \in Password :
             /\ worker' = [worker EXCEPT ![w] = m]
             /\ InHand(m) /\ Refers(m, policies)
             /\ m.policy = worker[w].policy /\ m.day = worker[w].day
             /\ RenewedAndSaved(w, m, x) \/ RenewedUnsaved(w, m, x)
  <2>1. PICK x : x = NewPassword(w) OBVIOUS
  <2>2. Renewed(w, x) /\ x \in Password
    BY <1>1, <1>4, <1>6, <1>9, <2>1, NewPasswordOf
  <2>3. x # None BY <2>2, NoneApart
  <2>4. s = [row EXCEPT !.active = x, !.date = me.day] BY <1>1, <1>9, <2>1
  <2>5. s \in PolicyRow BY <1>5, <2>2, <2>4 DEF PolicyRow
  <2>6. /\ s.active = x /\ s.date = me.day /\ s.live /\ HasManual(s)
        /\ Settings(s) = Settings(row)
    BY <1>5, <2>4 DEF PolicyRow, HasManual, Settings
  <2>7. CASE /\ Save(worker[w].policy, s)
             /\ Step(w, [worker[w] EXCEPT !.pc = "host", !.row = s, !.password = s.active])
    <3>1. PICK m : m = [me EXCEPT !.pc = "host", !.row = s, !.password = x] OBVIOUS
    <3>2. m \in WorkerRecord BY <1>3, <1>7, <2>2, <2>5, <3>1, ZenonT(60) DEF WorkerRecord
    <3>3. /\ m.pc = "host" /\ m.password = x /\ m.row = s /\ m.policy = me.policy
          /\ m.day = me.day /\ m.due = me.due /\ ~m.sent
      BY <1>3, <1>6, <3>1 DEF WorkerRecord
    <3>4. InHand(m)
      BY <1>5, <2>3, <2>5, <2>6, <3>3, NoneApart DEF InHand, RunPc, RotatingPc, Dials
    <3>5. Refers(m, policies) BY <1>3, <3>3 DEF Refers
    <3>6. worker' = [worker EXCEPT ![w] = m] BY <1>1, <2>6, <2>7, <3>1 DEF Step
    <3>7. [s EXCEPT !.live = TRUE] = s BY <2>5, <2>6 DEF PolicyRow
    <3>8. policies' = [policies EXCEPT ![me.policy] = s] BY <1>1, <2>7, <3>7 DEF Save
    <3>9. worker[w].row.active = None \/ worker[w].row.date # worker[w].day BY <1>9 DEF Renews
    <3>10. RenewedAndSaved(w, m, x)
      BY <1>1, <1>4, <2>2, <2>6, <3>3, <3>8, <3>9 DEF RenewedAndSaved, RenewedRow
    <3> QED BY <1>1, <2>2, <3>2, <3>3, <3>4, <3>5, <3>6, <3>10
  <2>8. CASE /\ Step(w, [Concluded(w, "error") EXCEPT !.row.active = s.active, !.row.date = s.date])
             /\ UNCHANGED policies
    <3>1. PICK c : c = Concluded(w, "error") OBVIOUS
    <3>2. /\ c \in WorkerRecord /\ InHand(c) /\ Refers(c, policies)
          /\ c.pc = "save" /\ c.policy = me.policy /\ c.day = me.day
          /\ c.password = me.password /\ SameButOutcome(c.row, me.row)
      BY <1>1, <1>6, <3>1, ConcludedWorker
    <3>3. c.row \in PolicyRow /\ HasManual(c.row) /\ c.row.live
      BY <3>2 DEF InHand, WorkerRecord, RunPc
    <3>4. PICK t : t = [c.row EXCEPT !.active = x, !.date = me.day] OBVIOUS
    <3>5. t \in PolicyRow BY <1>5, <2>2, <3>3, <3>4 DEF PolicyRow
    <3>6. /\ t.active = x /\ t.date = me.day /\ t.live /\ HasManual(t)
          /\ Settings(t) = Settings(c.row)
      BY <3>3, <3>4 DEF PolicyRow, HasManual, Settings
    <3>7. PICK m : m = [c EXCEPT !.row = t] OBVIOUS
    <3>8. m \in WorkerRecord BY <3>2, <3>5, <3>7 DEF WorkerRecord
    <3>9. /\ m.pc = "save" /\ m.password = me.password /\ m.row = t /\ m.policy = me.policy
          /\ m.day = me.day /\ m.due = c.due /\ ~m.sent
      BY <3>2, <3>7 DEF WorkerRecord, InHand, RotatingPc, Dials
    <3>10. InHand(m)
      BY <1>5, <3>5, <3>6, <3>9, NoneApart DEF InHand, RunPc, RotatingPc, Dials
    <3>11. Refers(m, policies) BY <3>2, <3>9 DEF Refers
    <3>12. m = [c EXCEPT !.row.active = s.active, !.row.date = s.date]
      BY <2>6, <3>2, <3>4, <3>7 DEF WorkerRecord
    <3>13. worker' = [worker EXCEPT ![w] = m] BY <2>8, <3>1, <3>12 DEF Step
    <3>14. worker[w].row.active = None \/ worker[w].row.date # worker[w].day BY <1>9 DEF Renews
    <3>15. RenewedUnsaved(w, m, x)
      BY <1>1, <2>2, <2>8, <3>2, <3>6, <3>9, <3>14 DEF RenewedUnsaved, RenewedRow, SameButOutcome
    <3> QED BY <1>1, <2>2, <3>8, <3>9, <3>10, <3>11, <3>13, <3>15
  <2> QED BY <1>9, <2>7, <2>8
<1>10. \/ /\ ~Renews(w) /\ UNCHANGED <<policies, issued>>
          /\ Step(w, [worker[w] EXCEPT !.pc = "host",
                         !.password = IF row.mode = "manual" THEN row.manual ELSE row.active])
       \/ /\ Renews(w) /\ (row.mode = "random" => Len(issued) < MaxPasswords)
          /\ issued' = IF row.mode = "random" THEN Append(issued, Issue(w)) ELSE issued
          /\ \E s : /\ s = [row EXCEPT !.active = NewPassword(w), !.date = worker[w].day]
                    /\ \/ /\ Save(worker[w].policy, s)
                          /\ Step(w, [worker[w] EXCEPT !.pc = "host", !.row = s, !.password = s.active])
                       \/ /\ Step(w, [Concluded(w, "error") EXCEPT !.row.active = s.active,
                                                                   !.row.date = s.date])
                          /\ UNCHANGED policies
  BY <1>1, <1>4 DEF EnsurePolicyPasswords
<1> QED BY <1>8, <1>9, <1>10

LEMMA RenewedIssues ==
    ASSUME TInv, NEW w \in Worker, At(w) \in RunPc, NEW x, Renewed(w, x)
    PROVE  issued' \in Seq([policy: Policy, day: Day])
<1>1. issued \in Seq([policy: Policy, day: Day]) BY DEF TInv, BasicTypes
<1>2. worker[w].policy \in Policy /\ worker[w].day \in Day
  BY Worked DEF InHand, At
<1>3. PICK S : S = [policy: Policy, day: Day] OBVIOUS
<1>4. PICK c \in S : c = [policy |-> worker[w].policy, day |-> worker[w].day] BY <1>2, <1>3
<1>5. issued' = issued \/ issued' = Append(issued, c) BY <1>4 DEF Renewed
<1>6. issued \in Seq(S) BY <1>1, <1>3
<1>7. PICK q \in Seq(S) : q = Append(issued, c) BY <1>6, AppendProperties
<1>8. issued' \in Seq(S) BY <1>5, <1>6, <1>7
<1> QED BY <1>3, <1>8

LEMMA EnsurePolicyPasswordsTypes ==
    ASSUME TInv, NEW w \in Worker, EnsurePolicyPasswords(w) PROVE TInv'
<1>1. PICK m \in WorkerRecord, x \in Password :
             /\ worker' = [worker EXCEPT ![w] = m]
             /\ InHand(m) /\ Refers(m, policies)
             /\ m.policy = worker[w].policy
             /\ Kept(w, m) \/ RenewedAndSaved(w, m, x) \/ RenewedUnsaved(w, m, x)
  BY EnsurePolicyPasswordsStep
<1>2. UNCHANGED <<excluded, keeps, saved, creds, states, dev, day, settings, raced, doubted>>
  BY DEF EnsurePolicyPasswords
<1>3. At(w) \in RunPc BY DEF EnsurePolicyPasswords, RunPc
<1>4. issued' \in Seq([policy: Policy, day: Day])
  <2>1. Renewed(w, x) \/ issued' = issued BY <1>1 DEF Kept, RenewedAndSaved, RenewedUnsaved
  <2>2. issued' = issued => issued' \in Seq([policy: Policy, day: Day]) BY DEF TInv, BasicTypes
  <2>3. Renewed(w, x) => issued' \in Seq([policy: Policy, day: Day]) BY <1>3, RenewedIssues
  <2> QED BY <2>1, <2>2, <2>3
<1>5. PICK p \in Policy : p = worker[w].policy /\ policies[p] # None
  BY <1>3, Worked DEF InHand, Refers, At
<1>6. UNCHANGED policies \/ (m.row \in PolicyRow /\ HasManual(m.row)
                             /\ policies' = [policies EXCEPT ![p] = m.row])
  BY <1>1, <1>5 DEF Kept, RenewedAndSaved, RenewedUnsaved, InHand, RunPc, WorkerRecord
<1>7. GoodTable(policies') BY <1>6 DEF TInv, GoodTable
<1>8. \A q \in Policy : policies'[q] # None => policies[q] # None
  BY <1>5, <1>6 DEF TInv, GoodTable
<1>9. \A q \in Policy : policies[q] # None => policies'[q] # None
  BY <1>6, NoneApart DEF TInv, GoodTable
<1>10. GoodSettings(settings', policies') BY <1>2, <1>8 DEF TInv, GoodSettings
<1>11. Refers(m, policies') BY <1>1, <1>9, StillRefers
<1> QED BY <1>1, <1>2, <1>4, <1>7, <1>9, <1>10, <1>11, WorkerStep DEF TInv, BasicTypes, GoodTable

LEMMA SaveOutcomeStep ==
    ASSUME TInv, NEW w \in Worker, SaveOutcome(w)
    PROVE  \E m \in WorkerRecord, s \in PolicyRow :
             /\ worker' = [worker EXCEPT ![w] = m]
             /\ InHand(m) /\ Refers(m, policies) /\ RunOver(w, m)
             /\ HasManual(s) /\ s.live /\ SameButOutcome(s, worker[w].row)
             /\ policies' = policies \/ policies' = [policies EXCEPT ![worker[w].policy] = s]
<1>1. At(w) \in {"save", "host"} BY DEF SaveOutcome
<1>2. At(w) \in RunPc \ RotatingPc BY <1>1 DEF RunPc, RotatingPc, Dials
<1>3. PICK m : m = Ended(w) OBVIOUS
<1>4. m \in WorkerRecord /\ InHand(m) /\ Refers(m, policies) /\ RunOver(w, m)
  BY <1>2, <1>3, EndedWorker DEF RunOver
<1>5. worker' = [worker EXCEPT ![w] = m] BY <1>3 DEF SaveOutcome, Step
<1>6. PICK s : s = Outcome(w) OBVIOUS
<1>7. PICK status \in {"ok", "error"} : status = IF worker[w].bad THEN "error" ELSE "ok" OBVIOUS
<1>8. s \in PolicyRow /\ HasManual(s) /\ s.live /\ SameButOutcome(s, worker[w].row)
  <2>1. CASE At(w) = "save"
    <3>1. s = worker[w].row BY <1>6, <2>1 DEF Outcome
    <3>2. worker[w] \in WorkerRecord /\ InHand(worker[w]) /\ worker[w].pc \in RunPc
      BY <1>2, Worked DEF At
    <3>3. s \in PolicyRow /\ HasManual(s) /\ s.live
      BY <3>1, <3>2 DEF InHand, WorkerRecord
    <3> QED BY <3>1, <3>3 DEF SameButOutcome
  <2>2. CASE At(w) # "save"
    <3>1. PICK c : c = Concluded(w, status) OBVIOUS
    <3>2. s = c.row BY <1>6, <1>7, <2>2, <3>1 DEF Outcome
    <3>3. c \in WorkerRecord /\ InHand(c) /\ c.pc = "save" /\ SameButOutcome(c.row, worker[w].row)
      BY <1>2, <3>1, ConcludedWorker
    <3> QED BY <3>2, <3>3 DEF InHand, WorkerRecord, RunPc
  <2> QED BY <2>1, <2>2
<1>9. [s EXCEPT !.live = TRUE] = s BY <1>8 DEF PolicyRow
<1>10. policies' = policies \/ policies' = [policies EXCEPT ![worker[w].policy] = s]
  BY <1>6, <1>9 DEF SaveOutcome, Save
<1> QED BY <1>4, <1>5, <1>8, <1>10

LEMMA SaveOutcomeTypes == ASSUME TInv, NEW w \in Worker, SaveOutcome(w) PROVE TInv'
<1>1. PICK m \in WorkerRecord, s \in PolicyRow :
             /\ worker' = [worker EXCEPT ![w] = m]
             /\ InHand(m) /\ Refers(m, policies) /\ RunOver(w, m)
             /\ HasManual(s) /\ s.live /\ SameButOutcome(s, worker[w].row)
             /\ policies' = policies \/ policies' = [policies EXCEPT ![worker[w].policy] = s]
  BY SaveOutcomeStep
<1>2. UNCHANGED <<excluded, keeps, saved, creds, states, dev, day, issued, history>>
  BY DEF SaveOutcome
<1>3. At(w) \in RunPc BY DEF SaveOutcome, RunPc
<1>4. PICK p \in Policy : p = worker[w].policy /\ policies[p] # None
  BY <1>3, Worked DEF InHand, Refers, At
<1>5. policies' = policies \/ policies' = [policies EXCEPT ![p] = s] BY <1>1, <1>4
<1>6. GoodTable(policies') BY <1>1, <1>5 DEF TInv, GoodTable
<1>7. \A q \in Policy : policies'[q] # None => policies[q] # None
  BY <1>4, <1>5 DEF TInv, GoodTable
<1>8. \A q \in Policy : policies[q] # None => policies'[q] # None
  BY <1>5, NoneApart DEF TInv, GoodTable
<1>9. GoodSettings(settings', policies') BY <1>2, <1>7 DEF TInv, GoodSettings, history
<1>10. Refers(m, policies') BY <1>1, <1>8, StillRefers
<1> QED BY <1>1, <1>2, <1>6, <1>8, <1>9, <1>10, WorkerStep DEF TInv, BasicTypes, GoodTable, history

-----------------------------------------------------------------------------
(* The steps of a rotation leave the run itself alone.                     *)
SameRun(m, me) ==
    /\ m.policy = me.policy /\ m.row = me.row /\ m.day = me.day
    /\ m.password = me.password /\ m.due = me.due

RunUntouched == UNCHANGED <<policies, excluded, keeps, saved, day, issued, settings, raced>>

LEMMA Rotates ==
    ASSUME NEW me \in WorkerRecord, NEW t, InHand(me), Refers(me, t), NEW m \in WorkerRecord,
           me.pc \in RotatingPc \cup {"host"}, m.pc \in RotatingPc \cup {"host"}, SameRun(m, me),
           m.pc \in RotatingPc => m.host \in Host,
           m.pc \in {"discover", "send"} => m.admin # None,
           m.sent => m.pc \in RotatingPc
    PROVE  InHand(m) /\ Refers(m, t)
BY DEF InHand, Refers, SameRun, RunPc, RotatingPc, Dials

LEMMA RotationTypes ==
    ASSUME TInv, NEW w \in Worker, NEW m \in WorkerRecord, worker' = [worker EXCEPT ![w] = m],
           InHand(m), Refers(m, policies), RunUntouched, doubted' \subseteq Host,
           creds' \in [Host -> [User -> Credential \cup {None}]],
           dev' \in [Host -> [User -> Password \cup {None}]]
    PROVE  TInv'
BY WorkerStep DEF TInv, BasicTypes, GoodTable, GoodSettings, RunUntouched

LEMMA NextHostWorker ==
    ASSUME TInv, NEW w \in Worker, At(w) \in RotatingPc, NEW b \in BOOLEAN,
           NEW m, m = NextHost(w, b)
    PROVE  /\ m \in WorkerRecord /\ InHand(m) /\ Refers(m, policies)
           /\ SameRun(m, worker[w]) /\ m.pc = "host" /\ ~m.sent
<1>1. PICK me : me = worker[w] OBVIOUS
<1>2. me \in WorkerRecord /\ InHand(me) /\ Refers(me, policies) /\ me.pc \in RotatingPc
  BY <1>1, Worked DEF At
<1>3. PICK c \in BOOLEAN : c = (me.bad \/ b) OBVIOUS
<1>4. m = [Idle EXCEPT !.pc = "host", !.due = me.due, !.policy = me.policy, !.row = me.row,
                       !.day = me.day, !.hosts = me.hosts, !.password = me.password, !.bad = c]
  BY <1>1, <1>3 DEF NextHost
<1>5. "host" \in Pc BY DEF Pc, RunPc
<1>6. m \in WorkerRecord BY <1>2, <1>4, <1>5, IdleWorker, ZenonT(120) DEF WorkerRecord
<1>7. SameRun(m, me) /\ m.pc = "host" /\ ~m.sent BY <1>4 DEF Idle, SameRun
<1>8. "host" \notin RotatingPc BY DEF RotatingPc, Dials
<1> QED BY <1>1, <1>2, <1>6, <1>7, <1>8, Rotates

(* The host in hand gets its next state.                                   *)
LEMMA GiveUpStep ==
    ASSUME TInv, NEW w \in Worker, At(w) \in RotatingPc, GiveUp(w)
    PROVE  \E m \in WorkerRecord :
             /\ worker' = [worker EXCEPT ![w] = m]
             /\ InHand(m) /\ Refers(m, policies)
             /\ SameRun(m, worker[w]) /\ m.pc = "host" /\ ~m.sent
             /\ doubted' \subseteq Host /\ doubted \subseteq doubted'
<1>1. PICK m : m = NextHost(w, TRUE) OBVIOUS
<1>2. /\ m \in WorkerRecord /\ InHand(m) /\ Refers(m, policies)
      /\ SameRun(m, worker[w]) /\ m.pc = "host" /\ ~m.sent
  BY <1>1, NextHostWorker
<1>3. worker' = [worker EXCEPT ![w] = m] BY <1>1 DEF GiveUp, Step
<1>4. worker[w].host \in Host BY Worked DEF InHand, At
<1>5. doubted' = doubted \/ doubted' = doubted \cup {worker[w].host} BY DEF GiveUp
<1>6. doubted' \subseteq Host /\ doubted \subseteq doubted' BY <1>4, <1>5 DEF TInv, BasicTypes
<1> QED BY <1>2, <1>3, <1>6

(* A goroutine that goes on with its host.                                 *)
SameHost(m, me) ==
    SameRun(m, me) /\ m.host = me.host /\ m.initial = me.initial /\ m.alone = me.alone

LEMMA RotatingWorker ==
    ASSUME TInv, NEW w \in Worker, At(w) \in RotatingPc
    PROVE  /\ worker[w] \in WorkerRecord /\ InHand(worker[w]) /\ Refers(worker[w], policies)
           /\ worker[w].host \in Host /\ worker[w].pc \in RotatingPc
           /\ worker[w].password \in Password
BY Worked DEF InHand, At, WorkerRecord

LEMMA ManagedAreUsers == ASSUME TInv, NEW h PROVE ManagedUsers(h) \subseteq User
<1>1. \A i \in saved : i.user \in User BY NocPassAssumption DEF TInv, BasicTypes
<1> QED BY <1>1 DEF ManagedUsers

Discovers(w, m) ==
    /\ SameHost(m, worker[w]) /\ m.pc = "discover" /\ m.admin \in Setup
    /\ m.sent = worker[w].sent /\ m.began = worker[w].began
    /\ m.keep = keeps /\ m.managed = ManagedUsers(worker[w].host)

LEMMA ListProtectedKeepUsersStep ==
    ASSUME TInv, NEW w \in Worker, ListProtectedKeepUsers(w), ~GiveUp(w)
    PROVE  \E m \in WorkerRecord :
             /\ worker' = [worker EXCEPT ![w] = m] /\ InHand(m) /\ Refers(m, policies)
             /\ Discovers(w, m) /\ UNCHANGED <<states, doubted>>
<1>1. PICK me : me = worker[w] OBVIOUS
<1>2. At(w) = "admin" /\ me.pc = "admin" BY <1>1 DEF ListProtectedKeepUsers, At
<1>3. me \in WorkerRecord /\ InHand(me) /\ Refers(me, policies)
  BY <1>1, Worked
<1>4. PICK M \in SUBSET User : M = ManagedUsers(me.host) BY ManagedAreUsers
<1>5. PICK K \in SUBSET User : K = keeps
  BY NocPassAssumption DEF TInv, BasicTypes
<1>6. PICK a \in me.admins :
         Step(w, [worker[w] EXCEPT !.pc = "discover", !.admin = a, !.admins = @ \ {a},
                                   !.keep = keeps, !.managed = ManagedUsers(worker[w].host)])
  BY <1>1 DEF ListProtectedKeepUsers
<1>7. a \in Setup /\ me.admins \ {a} \in SUBSET Setup BY <1>3, <1>6 DEF WorkerRecord
<1>8. PICK m : m = [me EXCEPT !.pc = "discover", !.admin = a, !.admins = me.admins \ {a},
                              !.keep = K, !.managed = M]
  OBVIOUS
<1>9. worker' = [worker EXCEPT ![w] = m] BY <1>1, <1>4, <1>5, <1>6, <1>8 DEF Step
<1>10. "discover" \in Pc BY DEF Pc, RunPc, RotatingPc, Dials
<1>11. m \in WorkerRecord BY <1>3, <1>7, <1>8, <1>10, ZenonT(60) DEF WorkerRecord
<1>12. /\ SameHost(m, me) /\ m.pc = "discover" /\ m.admin = a /\ m.sent = me.sent
       /\ m.began = me.began /\ m.keep = K /\ m.managed = M /\ m.host = me.host
  BY <1>3, <1>8 DEF WorkerRecord, SameHost, SameRun
<1>13. a # None
  <2>1. Setup \subseteq User BY NocPassAssumption
  <2> QED BY <1>7, <2>1, NoneApart
<1>14. "discover" \in RotatingPc /\ "admin" \in RotatingPc BY DEF RotatingPc, Dials
<1>15. me.host \in Host BY <1>2, <1>3, <1>14 DEF InHand
<1>16. InHand(m) /\ Refers(m, policies)
  BY <1>2, <1>3, <1>11, <1>12, <1>13, <1>14, <1>15, Rotates DEF SameHost
<1>17. UNCHANGED <<states, doubted>> BY DEF ListProtectedKeepUsers
<1> QED BY <1>1, <1>4, <1>5, <1>7, <1>9, <1>11, <1>12, <1>16, <1>17 DEF Discovers

LEMMA ListProtectedKeepUsersTypes ==
    ASSUME TInv, NEW w \in Worker, ListProtectedKeepUsers(w) PROVE TInv'
<1>1. RunUntouched /\ UNCHANGED <<creds, dev>>
  BY DEF ListProtectedKeepUsers, RunUntouched
<1>2. At(w) \in RotatingPc BY DEF ListProtectedKeepUsers, RotatingPc, Dials
<1>3. \E m \in WorkerRecord :
          /\ worker' = [worker EXCEPT ![w] = m] /\ InHand(m) /\ Refers(m, policies)
          /\ doubted' \subseteq Host
  <2>1. CASE GiveUp(w) BY <1>2, <2>1, GiveUpStep
  <2>2. CASE ~GiveUp(w)
    <3>1. doubted \subseteq Host BY DEF TInv, BasicTypes
    <3> QED BY <2>2, <3>1, ListProtectedKeepUsersStep
  <2> QED BY <2>1, <2>2
<1> QED BY <1>1, <1>3, RotationTypes DEF TInv, BasicTypes

-----------------------------------------------------------------------------
Sends(w, m) ==
    /\ SameHost(m, worker[w]) /\ m.pc = "send" /\ m.admin = worker[w].admin
    /\ m.sent = worker[w].sent /\ m.began = worker[w].began
    /\ m.keep = worker[w].keep /\ m.managed = worker[w].managed

(* The next credential is tried.                                           *)
TriesNext(w, m) ==
    SameHost(m, worker[w]) /\ m.pc = "admin" /\ m.began = worker[w].began

LEMMA SendsWorker ==
    ASSUME TInv, NEW w \in Worker, At(w) = "discover", NEW F \in SUBSET User, NEW m,
           m = [worker[w] EXCEPT !.pc = "send", !.found = F]
    PROVE  m \in WorkerRecord /\ InHand(m) /\ Refers(m, policies) /\ Sends(w, m)
<1>1. PICK me : me = worker[w] OBVIOUS
<1>2. At(w) \in RotatingPc BY DEF RotatingPc, Dials
<1>3. /\ me \in WorkerRecord /\ InHand(me) /\ Refers(me, policies) /\ me.host \in Host
      /\ me.pc = "discover"
  BY <1>1, <1>2, RotatingWorker DEF At
<1>4. "send" \in Pc BY DEF Pc, RunPc, RotatingPc, Dials
<1>5. m \in WorkerRecord BY <1>1, <1>3, <1>4, ZenonT(60) DEF WorkerRecord
<1>6. /\ SameHost(m, me) /\ m.pc = "send" /\ m.admin = me.admin /\ m.sent = me.sent
      /\ m.began = me.began /\ m.keep = me.keep /\ m.managed = me.managed
  BY <1>1, <1>3 DEF WorkerRecord, SameHost, SameRun
<1>7. me.admin # None BY <1>3 DEF InHand
<1>8. "send" \in RotatingPc /\ "discover" \in RotatingPc BY DEF RotatingPc, Dials
<1>9. InHand(m) /\ Refers(m, policies)
  BY <1>3, <1>5, <1>6, <1>7, <1>8, Rotates DEF SameHost
<1> QED BY <1>1, <1>5, <1>6, <1>9 DEF Sends

LEMMA TriesNextWorker ==
    ASSUME TInv, NEW w \in Worker, At(w) \in RotatingPc, NEW b \in BOOLEAN, NEW m,
           m = [worker[w] EXCEPT !.pc = "admin", !.sent = b]
    PROVE  /\ m \in WorkerRecord /\ InHand(m) /\ Refers(m, policies)
           /\ TriesNext(w, m) /\ m.sent = b
<1>1. PICK me : me = worker[w] OBVIOUS
<1>2. /\ me \in WorkerRecord /\ InHand(me) /\ Refers(me, policies) /\ me.host \in Host
      /\ me.pc \in RotatingPc
  BY <1>1, RotatingWorker
<1>3. "admin" \in Pc /\ "admin" \in RotatingPc BY DEF Pc, RunPc, RotatingPc, Dials
<1>4. m \in WorkerRecord BY <1>1, <1>2, <1>3, ZenonT(60) DEF WorkerRecord
<1>5. /\ SameHost(m, me) /\ m.pc = "admin" /\ m.sent = b /\ m.began = me.began
  BY <1>1, <1>2 DEF WorkerRecord, SameHost, SameRun
<1>6. InHand(m) /\ Refers(m, policies) BY <1>2, <1>3, <1>4, <1>5, Rotates DEF SameHost
<1> QED BY <1>1, <1>4, <1>5, <1>6 DEF TriesNext

LEMMA TriedWorker ==
    ASSUME TInv, NEW w \in Worker, At(w) \in RotatingPc, NEW m,
           m = [worker[w] EXCEPT !.pc = "admin"]
    PROVE  /\ m \in WorkerRecord /\ InHand(m) /\ Refers(m, policies)
           /\ TriesNext(w, m) /\ m.sent = worker[w].sent
<1>1. worker[w] \in WorkerRecord BY RotatingWorker
<1>2. worker[w].sent \in BOOLEAN BY <1>1 DEF WorkerRecord
<1>3. m = [worker[w] EXCEPT !.pc = "admin", !.sent = worker[w].sent]
  BY <1>1 DEF WorkerRecord
<1> QED BY <1>2, <1>3, TriesNextWorker

LEMMA DiscoverExistingUsersStep ==
    ASSUME TInv, NEW w \in Worker, DiscoverExistingUsers(w)
    PROVE  \E m \in WorkerRecord :
             /\ worker' = [worker EXCEPT ![w] = m] /\ InHand(m) /\ Refers(m, policies)
             /\ Sends(w, m) \/ (TriesNext(w, m) /\ m.sent = worker[w].sent)
<1>1. At(w) = "discover" /\ At(w) \in RotatingPc
  BY DEF DiscoverExistingUsers, RotatingPc, Dials
<1>2. PICK F \in SUBSET User : \/ Step(w, [worker[w] EXCEPT !.pc = "send", !.found = F])
                               \/ Step(w, [worker[w] EXCEPT !.pc = "admin"])
  <2>1. Present(worker[w].host) \in SUBSET User /\ {} \in SUBSET User BY DEF Present
  <2> QED BY <2>1 DEF DiscoverExistingUsers
<1>3. CASE Step(w, [worker[w] EXCEPT !.pc = "send", !.found = F])
  <2>1. PICK m : m = [worker[w] EXCEPT !.pc = "send", !.found = F] OBVIOUS
  <2>2. m \in WorkerRecord /\ InHand(m) /\ Refers(m, policies) /\ Sends(w, m)
    BY <1>1, <2>1, SendsWorker
  <2> QED BY <1>3, <2>1, <2>2 DEF Step
<1>4. CASE Step(w, [worker[w] EXCEPT !.pc = "admin"])
  <2>1. PICK m : m = [worker[w] EXCEPT !.pc = "admin"] OBVIOUS
  <2>2. /\ m \in WorkerRecord /\ InHand(m) /\ Refers(m, policies)
        /\ TriesNext(w, m) /\ m.sent = worker[w].sent
    BY <1>1, <2>1, TriedWorker
  <2> QED BY <1>4, <2>1, <2>2 DEF Step
<1> QED BY <1>2, <1>3, <1>4

LEMMA DiscoverExistingUsersTypes ==
    ASSUME TInv, NEW w \in Worker, DiscoverExistingUsers(w) PROVE TInv'
<1>1. PICK m \in WorkerRecord :
          worker' = [worker EXCEPT ![w] = m] /\ InHand(m) /\ Refers(m, policies)
  BY DiscoverExistingUsersStep
<1>2. UNCHANGED <<tables, dev, day, issued, history>> BY DEF DiscoverExistingUsers
<1> QED BY <1>1, <1>2, RotationTypes DEF RunUntouched, tables, history, TInv, BasicTypes

LEMMA AfterCommandsOf ==
    ASSUME TInv, NEW w \in Worker, At(w) \in RotatingPc, NEW R, NEW G, NEW d,
           d = AfterCommands(w, R, G)
    PROVE  /\ d \in [Host -> [User -> Password \cup {None}]]
           /\ \A g \in Host : g # worker[w].host => d[g] = dev[g]
           /\ \A u \in User : d[worker[w].host][u] =
                 IF u \in G THEN worker[w].password
                 ELSE IF u \in R THEN None ELSE dev[worker[w].host][u]
<1>1. dev \in [Host -> [User -> Password \cup {None}]] BY DEF TInv, BasicTypes
<1>2. PICK h \in Host : h = worker[w].host BY RotatingWorker
<1>3. PICK x \in Password : x = worker[w].password BY RotatingWorker
<1>4. PICK line : line = [u \in User |-> IF u \in G THEN x ELSE IF u \in R THEN None ELSE dev[h][u]]
  OBVIOUS
<1>5. line \in [User -> Password \cup {None}]
  <2>1. dev[h] \in [User -> Password \cup {None}] BY <1>1
  <2> QED BY <1>4, <2>1
<1>6. d = [dev EXCEPT ![h] = line] BY <1>2, <1>3, <1>4 DEF AfterCommands
<1>7. d \in [Host -> [User -> Password \cup {None}]] BY <1>1, <1>5, <1>6
<1>8. d[h] = line /\ \A g \in Host : g # h => d[g] = dev[g] BY <1>1, <1>6
<1>9. \A u \in User : d[h][u] = IF u \in G THEN x ELSE IF u \in R THEN None ELSE dev[h][u]
  BY <1>4, <1>8
<1> QED BY <1>2, <1>3, <1>7, <1>8, <1>9

(* The commands ran; a session broke; no login.                            *)
Commanded(w, m) ==
    /\ LogsIn(w) /\ dev' = AfterCommands(w, Removed(w), Given(w))
    /\ SameHost(m, worker[w]) /\ m.pc = "credentials" /\ m.sent /\ m.began = {}
    /\ m.managed = worker[w].managed

Broken(w, m) ==
    /\ LogsIn(w)
    /\ \E G \in {Given(w), Given(w) \cap {Fiberx}, {}} : dev' = AfterCommands(w, Removed(w), G)
    /\ TriesNext(w, m) /\ m.sent

Refused(w, m) == dev' = dev /\ TriesNext(w, m) /\ m.sent = worker[w].sent

LEMMA CommandedWorker ==
    ASSUME TInv, NEW w \in Worker, At(w) \in RotatingPc, NEW m,
           m = [worker[w] EXCEPT !.pc = "credentials", !.sent = TRUE, !.admins = {},
                                 !.admin = None, !.keep = {}, !.found = {}, !.began = {}]
    PROVE  /\ m \in WorkerRecord /\ InHand(m) /\ Refers(m, policies)
           /\ SameHost(m, worker[w]) /\ m.pc = "credentials" /\ m.sent /\ m.began = {}
           /\ m.managed = worker[w].managed
<1>1. PICK me : me = worker[w] OBVIOUS
<1>2. /\ me \in WorkerRecord /\ InHand(me) /\ Refers(me, policies) /\ me.host \in Host
      /\ me.pc \in RotatingPc
  BY <1>1, RotatingWorker
<1>3. "credentials" \in Pc /\ "credentials" \in RotatingPc BY DEF Pc, RunPc, RotatingPc
<1>4. m \in WorkerRecord BY <1>1, <1>2, <1>3, ZenonT(120) DEF WorkerRecord
<1>5. /\ SameHost(m, me) /\ m.pc = "credentials" /\ m.sent /\ m.began = {}
      /\ m.managed = me.managed
  BY <1>1, <1>2 DEF WorkerRecord, SameHost, SameRun
<1>6. InHand(m) /\ Refers(m, policies) BY <1>2, <1>3, <1>4, <1>5, Rotates, ZenonT(60) DEF SameHost
<1> QED BY <1>1, <1>4, <1>5, <1>6

LEMMA SendCommandsStep ==
    ASSUME TInv, NEW w \in Worker, SendCommands(w)
    PROVE  /\ dev' \in [Host -> [User -> Password \cup {None}]]
           /\ \E m \in WorkerRecord :
                /\ worker' = [worker EXCEPT ![w] = m] /\ InHand(m) /\ Refers(m, policies)
                /\ Commanded(w, m) \/ Broken(w, m) \/ Refused(w, m)
<1>1. At(w) \in RotatingPc BY DEF SendCommands, RotatingPc, Dials
<1>2. CASE /\ LogsIn(w) /\ dev' = AfterCommands(w, Removed(w), Given(w))
           /\ Step(w, [worker[w] EXCEPT !.pc = "credentials", !.sent = TRUE, !.admins = {},
                                        !.admin = None, !.keep = {}, !.found = {}, !.began = {}])
  <2>1. PICK m : m = [worker[w] EXCEPT !.pc = "credentials", !.sent = TRUE, !.admins = {},
                                 !.admin = None, !.keep = {}, !.found = {}, !.began = {}]
    OBVIOUS
  <2>2. m \in WorkerRecord /\ InHand(m) /\ Refers(m, policies) /\ Commanded(w, m)
    BY <1>1, <1>2, <2>1, CommandedWorker, ZenonT(60) DEF Commanded
  <2>3. worker' = [worker EXCEPT ![w] = m] BY <1>2, <2>1 DEF Step
  <2>4. dev' \in [Host -> [User -> Password \cup {None}]] BY <1>1, <1>2, AfterCommandsOf
  <2> QED BY <2>2, <2>3, <2>4
<1>3. CASE /\ LogsIn(w)
           /\ \E G \in {Given(w), Given(w) \cap {Fiberx}, {}} :
                 dev' = AfterCommands(w, Removed(w), G)
           /\ Step(w, [worker[w] EXCEPT !.pc = "admin", !.sent = TRUE])
  <2>1. PICK m : m = [worker[w] EXCEPT !.pc = "admin", !.sent = TRUE] OBVIOUS
  <2>2. m \in WorkerRecord /\ InHand(m) /\ Refers(m, policies) /\ TriesNext(w, m) /\ m.sent
    BY <1>1, <2>1, TriesNextWorker
  <2>3. worker' = [worker EXCEPT ![w] = m] BY <1>3, <2>1 DEF Step
  <2>4. dev' \in [Host -> [User -> Password \cup {None}]] BY <1>1, <1>3, AfterCommandsOf
  <2>5. Broken(w, m) BY <1>3, <2>2 DEF Broken
  <2> QED BY <2>2, <2>3, <2>4, <2>5
<1>4. CASE Step(w, [worker[w] EXCEPT !.pc = "admin"]) /\ dev' = dev
  <2>1. PICK m : m = [worker[w] EXCEPT !.pc = "admin"] OBVIOUS
  <2>2. /\ m \in WorkerRecord /\ InHand(m) /\ Refers(m, policies)
        /\ TriesNext(w, m) /\ m.sent = worker[w].sent
    BY <1>1, <2>1, TriedWorker
  <2>3. worker' = [worker EXCEPT ![w] = m] BY <1>4, <2>1 DEF Step
  <2>4. dev' \in [Host -> [User -> Password \cup {None}]] BY <1>4 DEF TInv, BasicTypes
  <2>5. Refused(w, m) BY <1>4, <2>2 DEF Refused
  <2> QED BY <2>2, <2>3, <2>4, <2>5
<1> QED BY <1>2, <1>3, <1>4 DEF SendCommands

LEMMA SendCommandsTypes == ASSUME TInv, NEW w \in Worker, SendCommands(w) PROVE TInv'
<1>1. dev' \in [Host -> [User -> Password \cup {None}]] BY SendCommandsStep
<1>2. PICK m \in WorkerRecord :
          worker' = [worker EXCEPT ![w] = m] /\ InHand(m) /\ Refers(m, policies)
  BY SendCommandsStep
<1>3. UNCHANGED <<tables, day, issued, history>> BY DEF SendCommands
<1> QED BY <1>1, <1>2, <1>3, RotationTypes DEF RunUntouched, tables, history, TInv, BasicTypes

-----------------------------------------------------------------------------
LEMMA ConfirmedOf ==
    ASSUME TInv, NEW w \in Worker, At(w) \in RotatingPc, NEW U, NEW c, c = Confirmed(w, U)
    PROVE  /\ c \in [Host -> [User -> Credential \cup {None}]]
           /\ \A g \in Host : g # worker[w].host => c[g] = creds[g]
           /\ \A u \in User : c[worker[w].host][u] =
                 IF u \in U THEN [password |-> worker[w].password, ok |-> TRUE]
                 ELSE creds[worker[w].host][u]
<1>1. creds \in [Host -> [User -> Credential \cup {None}]] BY DEF TInv, BasicTypes
<1>2. PICK h \in Host : h = worker[w].host BY RotatingWorker
<1>3. PICK x \in Credential : x = [password |-> worker[w].password, ok |-> TRUE]
  BY RotatingWorker DEF Credential
<1>4. PICK line : line = [u \in User |-> IF u \in U THEN x ELSE creds[h][u]] OBVIOUS
<1>5. line \in [User -> Credential \cup {None}]
  <2>1. creds[h] \in [User -> Credential \cup {None}] BY <1>1
  <2> QED BY <1>4, <2>1
<1>6. c = [creds EXCEPT ![h] = line] BY <1>2, <1>3, <1>4 DEF Confirmed
<1>7. c \in [Host -> [User -> Credential \cup {None}]] BY <1>1, <1>5, <1>6
<1>8. c[h] = line /\ \A g \in Host : g # h => c[g] = creds[g] BY <1>1, <1>6
<1>9. \A u \in User : c[h][u] = IF u \in U THEN x ELSE creds[h][u] BY <1>4, <1>8
<1> QED BY <1>2, <1>3, <1>7, <1>8, <1>9

(* The host is done with, or goes from one place of its rotation to pc.    *)
GoesOn(w, m) == SameRun(m, worker[w]) /\ m.pc = "host" /\ ~m.sent

Placed(w, pc, b) == [worker[w] EXCEPT !.pc = pc, !.sent = b]

LEMMA PlaceWorker ==
    ASSUME TInv, NEW w \in Worker, At(w) \in RotatingPc, NEW b \in BOOLEAN,
           NEW pc \in {"state", "managed"}, NEW m, m = Placed(w, pc, b)
    PROVE  /\ m \in WorkerRecord /\ InHand(m) /\ Refers(m, policies)
           /\ SameHost(m, worker[w]) /\ m.pc = pc /\ m.sent = b /\ m.managed = worker[w].managed
<1>1. PICK me : me = worker[w] OBVIOUS
<1>2. /\ me \in WorkerRecord /\ InHand(me) /\ Refers(me, policies) /\ me.host \in Host
      /\ me.pc \in RotatingPc
  BY <1>1, RotatingWorker
<1>3. pc \in Pc /\ pc \in RotatingPc /\ pc \notin {"discover", "send"}
  BY DEF Pc, RunPc, RotatingPc
<1>4. m \in WorkerRecord BY <1>1, <1>2, <1>3, ZenonT(60) DEF WorkerRecord, Placed
<1>5. SameHost(m, me) /\ m.pc = pc /\ m.sent = b /\ m.managed = me.managed
  BY <1>1, <1>2 DEF WorkerRecord, SameHost, SameRun, Placed
<1>6. InHand(m) /\ Refers(m, policies) BY <1>2, <1>3, <1>4, <1>5, Rotates DEF SameHost
<1> QED BY <1>1, <1>4, <1>5, <1>6

LEMMA SaveConfirmedCredentialsStep ==
    ASSUME TInv, NEW w \in Worker, SaveConfirmedCredentials(w)
    PROVE  \E m \in WorkerRecord :
             /\ worker' = [worker EXCEPT ![w] = m] /\ InHand(m) /\ Refers(m, policies)
             /\ \/ /\ SameHost(m, worker[w]) /\ m.pc = "state" /\ m.sent = worker[w].sent
                   /\ m.managed = worker[w].managed
                   /\ creds' = Confirmed(w, Rotated) /\ UNCHANGED <<states, doubted>>
                \/ /\ GoesOn(w, m) /\ GiveUp(w)
                   /\ creds' \in {creds, Confirmed(w, {Fiberx})}
             /\ creds' \in [Host -> [User -> Credential \cup {None}]]
             /\ doubted' \subseteq Host
<1>1. At(w) \in RotatingPc BY DEF SaveConfirmedCredentials, RotatingPc
<1>2. creds' \in {creds, Confirmed(w, Rotated), Confirmed(w, {Fiberx})}
  BY DEF SaveConfirmedCredentials
<1>3. creds' \in [Host -> [User -> Credential \cup {None}]]
  BY <1>1, <1>2, ConfirmedOf, ZenonT(120) DEF TInv, BasicTypes
<1>4. CASE /\ creds' = Confirmed(w, Rotated) /\ UNCHANGED <<states, doubted>>
           /\ Step(w, [worker[w] EXCEPT !.pc = "state"])
  <2>1. worker[w] \in WorkerRecord BY <1>1, RotatingWorker
  <2>2. PICK b \in BOOLEAN : b = worker[w].sent BY <2>1 DEF WorkerRecord
  <2>3. PICK m : m = Placed(w, "state", b) OBVIOUS
  <2>4. m = [worker[w] EXCEPT !.pc = "state"] BY <2>1, <2>2, <2>3 DEF WorkerRecord, Placed
  <2>5. /\ m \in WorkerRecord /\ InHand(m) /\ Refers(m, policies)
        /\ SameHost(m, worker[w]) /\ m.pc = "state" /\ m.sent = worker[w].sent
        /\ m.managed = worker[w].managed
    <3>1. /\ m \in WorkerRecord /\ InHand(m) /\ Refers(m, policies)
          /\ SameHost(m, worker[w]) /\ m.pc = "state" /\ m.sent = b
          /\ m.managed = worker[w].managed
      BY <1>1, <2>3, PlaceWorker
    <3> QED BY <2>2, <3>1
  <2>6. worker' = [worker EXCEPT ![w] = m] BY <1>4, <2>4 DEF Step
  <2>7. doubted' \subseteq Host BY <1>4 DEF TInv, BasicTypes
  <2> QED BY <1>3, <1>4, <2>5, <2>6, <2>7
<1>5. CASE GiveUp(w) /\ creds' \in {creds, Confirmed(w, {Fiberx})}
  <2>1. PICK m \in WorkerRecord :
             /\ worker' = [worker EXCEPT ![w] = m]
             /\ InHand(m) /\ Refers(m, policies)
             /\ SameRun(m, worker[w]) /\ m.pc = "host" /\ ~m.sent
             /\ doubted' \subseteq Host
    BY <1>1, <1>5, GiveUpStep
  <2> QED BY <1>3, <1>5, <2>1 DEF GoesOn
<1> QED BY <1>4, <1>5 DEF SaveConfirmedCredentials

LEMMA SaveConfirmedCredentialsTypes ==
    ASSUME TInv, NEW w \in Worker, SaveConfirmedCredentials(w) PROVE TInv'
<1>1. PICK m \in WorkerRecord :
             /\ worker' = [worker EXCEPT ![w] = m] /\ InHand(m) /\ Refers(m, policies)
             /\ creds' \in [Host -> [User -> Credential \cup {None}]]
             /\ doubted' \subseteq Host
  BY SaveConfirmedCredentialsStep
<1>2. RunUntouched /\ UNCHANGED dev BY DEF SaveConfirmedCredentials, RunUntouched
<1> QED BY <1>1, <1>2, RotationTypes DEF TInv, BasicTypes

(* The rotation is recorded and the host is not in doubt; or it is not.    *)
Recorded(w, m) ==
    /\ SameHost(m, worker[w]) /\ m.pc = "managed" /\ ~m.sent /\ m.managed = worker[w].managed
    /\ states' = [states EXCEPT ![worker[w].host] = [password |-> worker[w].password, ok |-> TRUE]]
    /\ doubted' = IF worker[w].alone THEN doubted \ {worker[w].host} ELSE doubted

Unrecorded(w, m) ==
    GoesOn(w, m) /\ UNCHANGED <<states, doubted>>

LEMMA UpdateAfterApplyStep ==
    ASSUME TInv, NEW w \in Worker, UpdateAfterApply(w)
    PROVE  \E m \in WorkerRecord :
             /\ worker' = [worker EXCEPT ![w] = m] /\ InHand(m) /\ Refers(m, policies)
             /\ Recorded(w, m) \/ Unrecorded(w, m)
<1>1. At(w) \in RotatingPc BY DEF UpdateAfterApply, RotatingPc
<1>2. CASE /\ Step(w, [worker[w] EXCEPT !.pc = "managed", !.sent = FALSE])
           /\ states' = [states EXCEPT ![worker[w].host] =
                            [password |-> worker[w].password, ok |-> TRUE]]
           /\ doubted' = IF worker[w].alone THEN doubted \ {worker[w].host} ELSE doubted
  <2>1. PICK m : m = Placed(w, "managed", FALSE) OBVIOUS
  <2>2. /\ m \in WorkerRecord /\ InHand(m) /\ Refers(m, policies)
        /\ SameHost(m, worker[w]) /\ m.pc = "managed" /\ m.sent = FALSE
        /\ m.managed = worker[w].managed
    BY <1>1, <2>1, PlaceWorker, ZenonT(60)
  <2>3. worker' = [worker EXCEPT ![w] = m] BY <1>2, <2>1 DEF Step, Placed
  <2>4. Recorded(w, m) BY <1>2, <2>2 DEF Recorded
  <2> QED BY <2>2, <2>3, <2>4
<1>3. CASE Step(w, NextHost(w, TRUE)) /\ UNCHANGED <<states, doubted>>
  <2>1. PICK m : m = NextHost(w, TRUE) OBVIOUS
  <2>2. /\ m \in WorkerRecord /\ InHand(m) /\ Refers(m, policies)
        /\ SameRun(m, worker[w]) /\ m.pc = "host" /\ ~m.sent
    BY <1>1, <2>1, NextHostWorker
  <2>3. worker' = [worker EXCEPT ![w] = m] BY <1>3, <2>1 DEF Step
  <2>4. Unrecorded(w, m) BY <1>3, <2>2 DEF Unrecorded, GoesOn
  <2> QED BY <2>2, <2>3, <2>4
<1> QED BY <1>2, <1>3 DEF UpdateAfterApply

LEMMA UpdateAfterApplyTypes ==
    ASSUME TInv, NEW w \in Worker, UpdateAfterApply(w) PROVE TInv'
<1>1. PICK m \in WorkerRecord :
             /\ worker' = [worker EXCEPT ![w] = m] /\ InHand(m) /\ Refers(m, policies)
             /\ Recorded(w, m) \/ Unrecorded(w, m)
  BY UpdateAfterApplyStep
<1>2. RunUntouched /\ UNCHANGED <<dev, creds>> BY DEF UpdateAfterApply, RunUntouched
<1>3. doubted' \subseteq Host BY <1>1 DEF Recorded, Unrecorded, TInv, BasicTypes
<1> QED BY <1>1, <1>2, <1>3, RotationTypes DEF TInv, BasicTypes

(* A saved user of the host has been given to it, or the host is done with.*)
Manages(w, m) ==
    /\ SameHost(m, worker[w]) /\ m.pc = "managed" /\ m.sent = worker[w].sent
    /\ m.managed \subseteq worker[w].managed

LEMMA ManagesWorker ==
    ASSUME TInv, NEW w \in Worker, At(w) = "managed", NEW u, NEW m,
           m = [worker[w] EXCEPT !.managed = @ \ {u}]
    PROVE  m \in WorkerRecord /\ InHand(m) /\ Refers(m, policies) /\ Manages(w, m)
<1>1. PICK me : me = worker[w] OBVIOUS
<1>2. "managed" \in RotatingPc /\ At(w) \in RotatingPc BY DEF RotatingPc
<1>3. /\ me \in WorkerRecord /\ InHand(me) /\ Refers(me, policies) /\ me.host \in Host
      /\ me.pc = "managed"
  BY <1>1, <1>2, RotatingWorker DEF At
<1>4. me.managed \ {u} \in SUBSET User BY <1>3 DEF WorkerRecord
<1>5. m \in WorkerRecord BY <1>1, <1>3, <1>4 DEF WorkerRecord
<1>6. /\ SameHost(m, me) /\ m.pc = "managed" /\ m.sent = me.sent
      /\ m.managed \subseteq me.managed
  BY <1>1, <1>3 DEF WorkerRecord, SameHost, SameRun
<1>7. InHand(m) /\ Refers(m, policies) BY <1>2, <1>3, <1>5, <1>6, Rotates DEF SameHost
<1> QED BY <1>1, <1>5, <1>6, <1>7 DEF Manages

LEMMA ApplySavedUsersStep ==
    ASSUME TInv, NEW w \in Worker, ApplySavedUsers(w)
    PROVE  /\ \E m \in WorkerRecord :
                /\ worker' = [worker EXCEPT ![w] = m] /\ InHand(m) /\ Refers(m, policies)
                /\ GoesOn(w, m) \/ Manages(w, m)
           /\ \/ UNCHANGED <<dev, creds>>
              \/ \E u \in worker[w].managed : \E ok \in BOOLEAN :
                    /\ u \in User /\ GiveUser(worker[w].host, u, ok)
                    /\ u \in Setup \cup Rotated => worker[w].host \in mixed'
<1>1. At(w) = "managed" /\ At(w) \in RotatingPc BY DEF ApplySavedUsers, RotatingPc
<1>2. worker[w].managed \subseteq User BY <1>1, RotatingWorker DEF WorkerRecord
<1>3. \/ UNCHANGED <<dev, creds>>
      \/ \E u \in worker[w].managed : \E ok \in BOOLEAN :
            /\ GiveUser(worker[w].host, u, ok)
            /\ u \in Setup \cup Rotated => worker[w].host \in mixed'
  BY DEF ApplySavedUsers, NoteMixed
<1>4. \/ \E b \in BOOLEAN : Step(w, NextHost(w, b))
      \/ \E u : Step(w, [worker[w] EXCEPT !.managed = @ \ {u}])
  BY DEF ApplySavedUsers
<1>5. ASSUME NEW b \in BOOLEAN, Step(w, NextHost(w, b))
      PROVE  \E m \in WorkerRecord :
                /\ worker' = [worker EXCEPT ![w] = m] /\ InHand(m) /\ Refers(m, policies)
                /\ GoesOn(w, m)
  <2>1. PICK m : m = NextHost(w, b) OBVIOUS
  <2>2. m \in WorkerRecord /\ InHand(m) /\ Refers(m, policies) /\ GoesOn(w, m)
    BY <1>1, <2>1, NextHostWorker DEF GoesOn
  <2> QED BY <1>5, <2>1, <2>2 DEF Step
<1>6. ASSUME NEW u, Step(w, [worker[w] EXCEPT !.managed = @ \ {u}])
      PROVE  \E m \in WorkerRecord :
                /\ worker' = [worker EXCEPT ![w] = m] /\ InHand(m) /\ Refers(m, policies)
                /\ Manages(w, m)
  <2>1. PICK m : m = [worker[w] EXCEPT !.managed = @ \ {u}] OBVIOUS
  <2>2. m \in WorkerRecord /\ InHand(m) /\ Refers(m, policies) /\ Manages(w, m)
    BY <1>1, <2>1, ManagesWorker
  <2> QED BY <1>6, <2>1, <2>2 DEF Step
<1>7. \E m \in WorkerRecord :
          /\ worker' = [worker EXCEPT ![w] = m] /\ InHand(m) /\ Refers(m, policies)
          /\ GoesOn(w, m) \/ Manages(w, m)
  BY <1>4, <1>5, <1>6
<1> QED BY <1>2, <1>3, <1>7

LEMMA ApplySavedUsersTypes ==
    ASSUME TInv, NEW w \in Worker, ApplySavedUsers(w) PROVE TInv'
<1>1. PICK m \in WorkerRecord :
          worker' = [worker EXCEPT ![w] = m] /\ InHand(m) /\ Refers(m, policies)
  BY ApplySavedUsersStep
<1>2. RunUntouched /\ UNCHANGED <<states, doubted>>
  BY DEF ApplySavedUsers, RunUntouched, history
<1>3. worker[w].host \in Host
  BY RotatingWorker DEF ApplySavedUsers, RotatingPc
<1>4. /\ dev' \in [Host -> [User -> Password \cup {None}]]
      /\ creds' \in [Host -> [User -> Credential \cup {None}]]
  <2>1. CASE UNCHANGED <<dev, creds>> BY <2>1 DEF TInv, BasicTypes
  <2>2. CASE \E u \in User : \E ok \in BOOLEAN : GiveUser(worker[w].host, u, ok)
    BY <1>3, <2>2, GiveUserTypes
  <2>3. \/ UNCHANGED <<dev, creds>>
        \/ \E u \in worker[w].managed : \E ok \in BOOLEAN :
              u \in User /\ GiveUser(worker[w].host, u, ok)
    BY ApplySavedUsersStep
  <2> QED BY <2>1, <2>2, <2>3
<1> QED BY <1>1, <1>2, <1>4, RotationTypes DEF TInv, BasicTypes

(* The credentials of FIBERX and SUPPORT on h, those there are, are marked *)
(* failed.                                                                 *)
Marked(h) ==
    [creds EXCEPT ![h] = [u \in User |->
        IF u \in Rotated /\ @[u] # None THEN [@[u] EXCEPT !.ok = FALSE] ELSE @[u]]]

LEMMA MarkedOf ==
    ASSUME TInv, NEW h \in Host, NEW c, c = Marked(h)
    PROVE  /\ c \in [Host -> [User -> Credential \cup {None}]]
           /\ \A g \in Host : \A u \in User :
                 /\ c[g][u] = None <=> creds[g][u] = None
                 /\ creds[g][u] # None => c[g][u].password = creds[g][u].password
<1>1. creds \in [Host -> [User -> Credential \cup {None}]] BY DEF TInv, BasicTypes
<1>2. PICK line : line = [u \in User |-> IF u \in Rotated /\ creds[h][u] # None
                                         THEN [creds[h][u] EXCEPT !.ok = FALSE] ELSE creds[h][u]]
  OBVIOUS
<1>3. ASSUME NEW u \in User
      PROVE  /\ line[u] \in Credential \cup {None}
             /\ line[u] = None <=> creds[h][u] = None
             /\ creds[h][u] # None => line[u].password = creds[h][u].password
  <2>1. PICK x \in Credential \cup {None} : x = creds[h][u] BY <1>1
  <2>2. line[u] = IF u \in Rotated /\ x # None THEN [x EXCEPT !.ok = FALSE] ELSE x
    BY <1>2, <2>1
  <2>3. CASE x = None BY <2>1, <2>2, <2>3
  <2>4. CASE x # None
    <3>1. [x EXCEPT !.ok = FALSE] \in Credential /\ [x EXCEPT !.ok = FALSE].password = x.password
      BY <2>4 DEF Credential
    <3> QED BY <2>1, <2>2, <2>4, <3>1, NoneApart
  <2> QED BY <2>3, <2>4
<1>4. line \in [User -> Credential \cup {None}] BY <1>2, <1>3
<1>5. c = [creds EXCEPT ![h] = line] BY <1>2 DEF Marked
<1>6. c \in [Host -> [User -> Credential \cup {None}]] BY <1>1, <1>4, <1>5
<1>7. c[h] = line /\ \A g \in Host : g # h => c[g] = creds[g] BY <1>1, <1>5
<1> QED BY <1>3, <1>6, <1>7

LEMMA MarkCredentialFailureStep ==
    ASSUME TInv, NEW w \in Worker, MarkCredentialFailure(w)
    PROVE  /\ \E m \in WorkerRecord :
                /\ worker' = [worker EXCEPT ![w] = m] /\ InHand(m) /\ Refers(m, policies)
                /\ GoesOn(w, m)
           /\ doubted' \subseteq Host
           /\ creds' \in [Host -> [User -> Credential \cup {None}]]
           /\ \A g \in Host : \A u \in User :
                 /\ creds'[g][u] = None <=> creds[g][u] = None
                 /\ creds[g][u] # None => creds'[g][u].password = creds[g][u].password
           /\ \/ /\ states' = [states EXCEPT ![worker[w].host].ok = FALSE]
                 /\ UNCHANGED doubted
              \/ GiveUp(w)
<1>1. At(w) \in RotatingPc BY DEF MarkCredentialFailure, RotatingPc, Dials
<1>2. PICK h \in Host : h = worker[w].host BY <1>1, RotatingWorker
<1>3. CASE /\ states' = [states EXCEPT ![h].ok = FALSE]
           /\ creds' = Marked(h)
           /\ Step(w, NextHost(w, TRUE)) /\ UNCHANGED doubted
  <2>1. PICK m : m = NextHost(w, TRUE) OBVIOUS
  <2>2. m \in WorkerRecord /\ InHand(m) /\ Refers(m, policies) /\ GoesOn(w, m)
    BY <1>1, <2>1, NextHostWorker DEF GoesOn
  <2>3. worker' = [worker EXCEPT ![w] = m] BY <1>3, <2>1 DEF Step
  <2>4. doubted' \subseteq Host BY <1>3 DEF TInv, BasicTypes
  <2>5. PICK c : c = creds' OBVIOUS
  <2>6. /\ c \in [Host -> [User -> Credential \cup {None}]]
        /\ \A g \in Host : \A u \in User :
              /\ c[g][u] = None <=> creds[g][u] = None
              /\ creds[g][u] # None => c[g][u].password = creds[g][u].password
    BY <1>3, <2>5, MarkedOf
  <2> QED BY <1>2, <1>3, <2>2, <2>3, <2>4, <2>5, <2>6
<1>4. CASE GiveUp(w) /\ UNCHANGED creds
  <2>1. creds' \in [Host -> [User -> Credential \cup {None}]] BY <1>4 DEF TInv, BasicTypes
  <2> QED BY <1>1, <1>4, <2>1, GiveUpStep DEF GoesOn
<1> QED BY <1>2, <1>3, <1>4 DEF MarkCredentialFailure, Marked

LEMMA MarkCredentialFailureTypes ==
    ASSUME TInv, NEW w \in Worker, MarkCredentialFailure(w) PROVE TInv'
<1>1. PICK m \in WorkerRecord :
          worker' = [worker EXCEPT ![w] = m] /\ InHand(m) /\ Refers(m, policies)
  BY MarkCredentialFailureStep
<1>2. RunUntouched /\ UNCHANGED dev BY DEF MarkCredentialFailure, RunUntouched
<1>3. /\ doubted' \subseteq Host /\ creds' \in [Host -> [User -> Credential \cup {None}]]
  BY MarkCredentialFailureStep
<1> QED BY <1>1, <1>2, <1>3, RotationTypes DEF TInv, BasicTypes

-----------------------------------------------------------------------------
(* Goroutine w begins with host h, or cannot.                              *)
Begins(w, m, h) ==
    /\ SameRun(m, worker[w]) /\ m.pc = "admin" /\ m.host = h
    /\ m.initial = (states[h] = None \/ states[h].password = None)
    /\ m.began = keeps \cup ManagedUsers(h)
    /\ m.alone = (RotatingElsewhere(w, h) = {})
    /\ states' = Touched(h)
    /\ doubted' = IF RotatingElsewhere(w, h) = {} THEN doubted ELSE doubted \cup {h}

Skips(w, m, h) ==
    /\ SameRun(m, worker[w]) /\ m.pc = "host"
    /\ states' \in {states, [Touched(h) EXCEPT ![h].ok = FALSE]} /\ UNCHANGED doubted

(* The other goroutines, of which some are no longer alone with host h.    *)
Others(w, h) ==
    \A v \in Worker : v # w =>
        worker'[v] = [worker[v] EXCEPT !.alone = @ /\ v \notin RotatingElsewhere(w, h)]

LEMMA HostWorker ==
    ASSUME TInv, NEW w \in Worker, At(w) = "host"
    PROVE  /\ worker[w] \in WorkerRecord /\ InHand(worker[w]) /\ Refers(worker[w], policies)
           /\ worker[w].hosts \in SUBSET Host /\ worker[w].pc = "host"
BY Worked DEF At, WorkerRecord

BeginRecord(w, h, B, i, a) ==
    [[worker[w] EXCEPT !.hosts = @ \ {h}] EXCEPT !.pc = "admin", !.host = h,
        !.admins = Setup, !.began = B, !.initial = i, !.alone = a]

LEMMA BeginsWorker ==
    ASSUME TInv, NEW w \in Worker, At(w) = "host", NEW h \in Host, NEW m,
           NEW B \in SUBSET User, NEW i \in BOOLEAN, NEW a \in BOOLEAN,
           m = BeginRecord(w, h, B, i, a)
    PROVE  /\ m \in WorkerRecord /\ InHand(m) /\ Refers(m, policies)
           /\ SameRun(m, worker[w]) /\ m.pc = "admin" /\ m.host = h
           /\ m.began = B /\ m.initial = i /\ m.alone = a
<1>1. PICK me : me = worker[w] OBVIOUS
<1>2. /\ me \in WorkerRecord /\ InHand(me) /\ Refers(me, policies)
      /\ me.hosts \in SUBSET Host /\ me.pc = "host"
  BY <1>1, HostWorker
<1>3. "admin" \in Pc /\ "admin" \in RotatingPc BY DEF Pc, RunPc, RotatingPc, Dials
<1>4. m = [me EXCEPT !.hosts = me.hosts \ {h}, !.pc = "admin", !.host = h,
                     !.admins = Setup, !.began = B, !.initial = i, !.alone = a]
  BY <1>1, <1>2 DEF WorkerRecord, BeginRecord
<1>5. m \in WorkerRecord
  <2>1. PICK S \in SUBSET Host : S = me.hosts \ {h} BY <1>2
  <2>2. PICK A \in SUBSET Setup : A = Setup OBVIOUS
  <2>3. PICK n : n = [me EXCEPT !.hosts = S, !.pc = "admin", !.host = h] OBVIOUS
  <2>4. n \in WorkerRecord BY <1>2, <1>3, <2>3, ZenonT(60) DEF WorkerRecord
  <2>5. m = [n EXCEPT !.admins = A, !.began = B, !.initial = i, !.alone = a]
    BY <1>2, <1>4, <2>1, <2>2, <2>3 DEF WorkerRecord
  <2> QED BY <2>4, <2>5, ZenonT(120) DEF WorkerRecord
<1>6. /\ SameRun(m, me) /\ m.pc = "admin" /\ m.host = h
      /\ m.began = B /\ m.initial = i /\ m.alone = a
  BY <1>2, <1>4 DEF WorkerRecord, SameRun
<1>7. InHand(m) /\ Refers(m, policies) BY <1>2, <1>3, <1>5, <1>6, Rotates
<1> QED BY <1>1, <1>5, <1>6, <1>7

LEMMA SkipsWorker ==
    ASSUME TInv, NEW w \in Worker, At(w) = "host", NEW h \in Host, NEW m,
           m = [[worker[w] EXCEPT !.hosts = @ \ {h}] EXCEPT !.bad = TRUE]
    PROVE  /\ m \in WorkerRecord /\ InHand(m) /\ Refers(m, policies)
           /\ SameRun(m, worker[w]) /\ m.pc = "host"
<1>1. PICK me : me = worker[w] OBVIOUS
<1>2. /\ me \in WorkerRecord /\ InHand(me) /\ Refers(me, policies)
      /\ me.hosts \in SUBSET Host /\ me.pc = "host"
  BY <1>1, HostWorker
<1>3. m = [me EXCEPT !.hosts = me.hosts \ {h}, !.bad = TRUE]
  BY <1>1, <1>2 DEF WorkerRecord
<1>4. m \in WorkerRecord
  <2>1. me.hosts \ {h} \in SUBSET Host BY <1>2
  <2> QED BY <1>2, <1>3, <2>1, ZenonT(120) DEF WorkerRecord
<1>5. "host" \notin RotatingPc BY DEF RotatingPc, Dials
<1>6. SameRun(m, me) /\ m.pc = "host" /\ ~m.sent
  BY <1>2, <1>3, <1>5, ZenonT(60) DEF WorkerRecord, SameRun, InHand
<1>7. InHand(m) /\ Refers(m, policies) BY <1>2, <1>4, <1>5, <1>6, Rotates
<1> QED BY <1>1, <1>4, <1>6, <1>7

LEMMA BeginHostStep ==
    ASSUME TInv, NEW w \in Worker, BeginHost(w)
    PROVE  \E h \in Host, m \in WorkerRecord :
             /\ InHand(m) /\ Refers(m, policies)
             /\ \/ /\ Begins(w, m, h) /\ Others(w, h) /\ worker'[w] = m
                   /\ worker' = [v \in Worker |-> worker'[v]]
                \/ Skips(w, m, h) /\ worker' = [worker EXCEPT ![w] = m]
<1>1. At(w) = "host" /\ worker[w].hosts # {} BY DEF BeginHost
<1>2. worker[w].hosts \subseteq Host BY <1>1, HostWorker
<1>3. worker[w].hosts \in SUBSET Nat BY <1>2, NocPassAssumption
<1>4. PICK h \in Host : h = Earliest(worker[w].hosts) BY <1>1, <1>2, <1>3, EarliestOf
<1>5. CASE /\ worker' = [v \in Worker |->
                  IF v = w THEN [[worker[w] EXCEPT !.hosts = @ \ {h}] EXCEPT !.pc = "admin",
                                    !.host = h, !.admins = Setup,
                                    !.began = keeps \cup ManagedUsers(h),
                                    !.initial = states[h] = None \/ states[h].password = None,
                                    !.alone = RotatingElsewhere(w, h) = {}]
                  ELSE [worker[v] EXCEPT !.alone = @ /\ v \notin RotatingElsewhere(w, h)]]
           /\ states' = Touched(h)
           /\ doubted' = IF RotatingElsewhere(w, h) = {} THEN doubted ELSE doubted \cup {h}
  <2>1. PICK B \in SUBSET User : B = keeps \cup ManagedUsers(h)
    BY ManagedAreUsers, NocPassAssumption DEF TInv, BasicTypes
  <2>2. PICK i \in BOOLEAN : i = (states[h] = None \/ states[h].password = None) OBVIOUS
  <2>3. PICK a \in BOOLEAN : a = (RotatingElsewhere(w, h) = {}) OBVIOUS
  <2>4. PICK m : m = BeginRecord(w, h, B, i, a) OBVIOUS
  <2>5. /\ m \in WorkerRecord /\ InHand(m) /\ Refers(m, policies)
        /\ SameRun(m, worker[w]) /\ m.pc = "admin" /\ m.host = h
        /\ m.began = B /\ m.initial = i /\ m.alone = a
    BY <1>1, <2>4, BeginsWorker
  <2>6. worker'[w] = m BY <1>5, <2>1, <2>2, <2>3, <2>4 DEF BeginRecord
  <2>7. Others(w, h) /\ worker' = [v \in Worker |-> worker'[v]] BY <1>5 DEF Others
  <2>8. Begins(w, m, h) BY <1>5, <2>1, <2>2, <2>3, <2>5 DEF Begins
  <2> QED BY <2>5, <2>6, <2>7, <2>8
<1>6. CASE /\ Step(w, [[worker[w] EXCEPT !.hosts = @ \ {h}] EXCEPT !.bad = TRUE])
           /\ states' \in {states, [Touched(h) EXCEPT ![h].ok = FALSE]} /\ UNCHANGED doubted
  <2>1. PICK m : m = [[worker[w] EXCEPT !.hosts = @ \ {h}] EXCEPT !.bad = TRUE] OBVIOUS
  <2>2. /\ m \in WorkerRecord /\ InHand(m) /\ Refers(m, policies)
        /\ SameRun(m, worker[w]) /\ m.pc = "host"
    BY <1>1, <2>1, SkipsWorker
  <2>3. worker' = [worker EXCEPT ![w] = m] BY <1>6, <2>1 DEF Step
  <2>4. Skips(w, m, h) BY <1>6, <2>2 DEF Skips
  <2> QED BY <2>2, <2>3, <2>4
<1> QED BY <1>4, <1>5, <1>6 DEF BeginHost

LEMMA AloneWorker ==
    ASSUME NEW me \in WorkerRecord, NEW t, InHand(me), Refers(me, t), NEW c, NEW m,
           m = [me EXCEPT !.alone = @ /\ c]
    PROVE  /\ m \in WorkerRecord /\ InHand(m) /\ Refers(m, t)
           /\ SameRun(m, me) /\ m.pc = me.pc /\ m.host = me.host /\ m.initial = me.initial
           /\ m.sent = me.sent /\ m.admin = me.admin /\ m.keep = me.keep
           /\ m.managed = me.managed /\ m.began = me.began
           /\ m.alone = (me.alone /\ c)
<1>1. PICK b \in BOOLEAN : b = (me.alone /\ c) OBVIOUS
<1>2. m = [me EXCEPT !.alone = b] BY <1>1 DEF WorkerRecord
<1>3. m \in WorkerRecord BY <1>2 DEF WorkerRecord
<1>4. /\ SameRun(m, me) /\ m.pc = me.pc /\ m.host = me.host /\ m.initial = me.initial
      /\ m.sent = me.sent /\ m.admin = me.admin /\ m.keep = me.keep
      /\ m.managed = me.managed /\ m.began = me.began /\ m.item = me.item
      /\ m.alone = b
  BY <1>2 DEF WorkerRecord, SameRun
<1>5. InHand(m) /\ Refers(m, t) BY <1>4 DEF InHand, Refers, SameRun
<1> QED BY <1>1, <1>3, <1>4, <1>5

LEMMA BeginHostTypes == ASSUME TInv, NEW w \in Worker, BeginHost(w) PROVE TInv'
<1>1. PICK h \in Host, m \in WorkerRecord :
             /\ InHand(m) /\ Refers(m, policies)
             /\ \/ /\ Begins(w, m, h) /\ Others(w, h) /\ worker'[w] = m
                   /\ worker' = [v \in Worker |-> worker'[v]]
                \/ Skips(w, m, h) /\ worker' = [worker EXCEPT ![w] = m]
  BY BeginHostStep
<1>2. RunUntouched /\ UNCHANGED <<creds, dev>> BY DEF BeginHost, RunUntouched
<1>3. doubted' \subseteq Host BY <1>1 DEF Begins, Skips, TInv, BasicTypes
<1>4. CASE Skips(w, m, h) /\ worker' = [worker EXCEPT ![w] = m]
  BY <1>1, <1>2, <1>3, <1>4, RotationTypes DEF TInv, BasicTypes
<1>5. CASE Others(w, h) /\ worker'[w] = m /\ worker' = [v \in Worker |-> worker'[v]]
  <2>1. ASSUME NEW v \in Worker, v # w
        PROVE  worker'[v] \in WorkerRecord /\ InHand(worker'[v]) /\ Refers(worker'[v], policies)
    <3>1. worker'[v] = [worker[v] EXCEPT !.alone = @ /\ v \notin RotatingElsewhere(w, h)]
      BY <1>5, <2>1 DEF Others
    <3> QED BY <3>1, Worked, AloneWorker, ZenonT(120)
  <2>2. \A v \in Worker :
           worker'[v] \in WorkerRecord /\ InHand(worker'[v]) /\ Refers(worker'[v], policies)
    BY <1>1, <1>5, <2>1
  <2>3. worker' \in [Worker -> WorkerRecord] BY <1>5, <2>2
  <2> QED BY <1>2, <1>3, <2>2, <2>3 DEF TInv, BasicTypes, GoodTable, GoodSettings, RunUntouched
<1> QED BY <1>1, <1>4, <1>5

-----------------------------------------------------------------------------
LEMMA CrashTypes == ASSUME TInv, Crash PROVE TInv'
<1>1. worker' = [w \in Worker |-> Idle] BY DEF Crash
<1>2. UNCHANGED <<tables, dev, day, issued, settings, raced>> BY DEF Crash
<1>3. doubted' \subseteq Host
  <2>1. \A w \in Worker : worker[w].sent => worker[w].host \in Host BY Worked DEF InHand
  <2> QED BY <2>1 DEF Crash, TInv, BasicTypes
<1>4. \A v \in Worker :
         worker'[v] \in WorkerRecord /\ InHand(worker'[v]) /\ Refers(worker'[v], policies)
  BY <1>1, IdleWorker
<1>5. worker' \in [Worker -> WorkerRecord] BY <1>1, IdleWorker
<1> QED BY <1>2, <1>3, <1>4, <1>5 DEF TInv, BasicTypes, GoodTable, GoodSettings, tables

LEMMA MidnightTypes == ASSUME TInv, Midnight PROVE TInv'
<1>1. UNCHANGED <<tables, dev, worker, issued, history>> BY DEF Midnight
<1>2. day' \in Day
  <2>1. PICK d \in Nat : d = day BY DEF TInv, BasicTypes, Day
  <2>2. PICK e : e = day' OBVIOUS
  <2>3. d >= 1 /\ d < MaxDays /\ e = d + 1 BY <2>1, <2>2 DEF Midnight, TInv, BasicTypes, Day
  <2>4. e \in Day BY <2>1, <2>3, NocPassAssumption DEF Day
  <2> QED BY <2>2, <2>4
<1> QED BY <1>1, <1>2 DEF TInv, BasicTypes, GoodTable, GoodSettings, tables, history

LEMMA Stutters == ASSUME TInv, UNCHANGED vars PROVE TInv'
BY DEF TInv, BasicTypes, GoodTable, GoodSettings, vars, tables, history

LEMMA AskTypes == ASSUME TInv, NEW r \in Request, Ask(r) PROVE TInv'
BY CreatePolicyTypes, ReadPolicyTypes, WritePolicyTypes, CountPoliciesTypes, ErasePolicyTypes,
   CreateSavedUserTypes, ReadSavedUserTypes, GiveSavedUserTypes, TakeSavedUserTypes,
   EndSavedUserTypes DEF Ask

LEMMA RunTypes == ASSUME TInv, NEW w \in Worker, Run(w) PROVE TInv'
BY GetPolicyTypes, ResolveTargetsTypes, EnsurePolicyPasswordsTypes, SaveOutcomeTypes,
   BeginHostTypes, ListProtectedKeepUsersTypes, DiscoverExistingUsersTypes, SendCommandsTypes,
   SaveConfirmedCredentialsTypes, UpdateAfterApplyTypes, ApplySavedUsersTypes,
   MarkCredentialFailureTypes DEF Run

LEMMA TInvInit == Init => TInv
<1> SUFFICES ASSUME Init PROVE TInv OBVIOUS
<1>1. policies \in [Policy -> PolicyRow \cup {None}]
  BY NocPassAssumption DEF Init
<1>2. \A p \in Policy : policies[p] # None => HasManual(policies[p])
  BY NocPassAssumption DEF Init, HasManual
<1>3. GoodTable(policies) BY <1>1, <1>2 DEF GoodTable
<1>4. \A p \in Policy : policies[p] # None => Settings(policies[p]) \in SettingsRecord
  BY <1>1, SettingsOf
<1>5. GoodSettings(settings, policies) BY <1>1, <1>4 DEF Init, GoodSettings
<1>6. \A v \in Worker : worker[v] = Idle BY DEF Init
<1>7. worker \in [Worker -> WorkerRecord] BY IdleWorker DEF Init
<1>8. \A v \in Worker : InHand(worker[v]) /\ Refers(worker[v], policies) BY <1>6, IdleWorker
<1>9. Own \in Password /\ Earlier \in Password BY DEF Password
<1>10. dev \in [Host -> [User -> Password \cup {None}]] BY <1>9 DEF Init
<1>11. [password |-> Earlier, ok |-> TRUE] \in Credential BY <1>9 DEF Credential
<1>12. creds \in [Host -> [User -> Credential \cup {None}]] BY <1>11 DEF Init
<1>13. day \in Day BY NocPassAssumption DEF Init, Day
<1>14. issued \in Seq([policy: Policy, day: Day]) BY DEF Init
<1>15. /\ excluded \subseteq Host /\ keeps \subseteq Keepable /\ saved \subseteq SavedInputs
       /\ raced \subseteq Policy /\ doubted \subseteq Host
  BY DEF Init
<1> QED BY <1>1, <1>3, <1>5, <1>7, <1>8, <1>10, <1>12, <1>13, <1>14, <1>15 DEF TInv, BasicTypes

LEMMA TInvStep == TInv /\ [Next]_vars => TInv'
<1> SUFFICES ASSUME TInv, [Next]_vars PROVE TInv' OBVIOUS
<1>1. CASE \E r \in Request : Ask(r) BY <1>1, AskTypes
<1>2. CASE \/ \E u \in Keepable : CreateKeepUser(u) \/ DeleteKeepUser(u)
           \/ \E h \in Host : ChangeExclusions(h)
  BY <1>2, KeepTypes
<1>3. CASE RunDue \/ NoneDue BY <1>3, RunDueTypes, NoneDueTypes
<1>4. CASE \E w \in Worker : Run(w) BY <1>4, RunTypes
<1>5. CASE Midnight \/ Crash BY <1>5, MidnightTypes, CrashTypes
<1>6. CASE UNCHANGED vars BY <1>6, Stutters
<1> QED BY <1>1, <1>2, <1>3, <1>4, <1>5, <1>6 DEF Next, AtRest

LEMMA TInvAlways == Spec => []TInv
BY TInvInit, TInvStep, PTL DEF Spec

-----------------------------------------------------------------------------
(***************************************************************************)
(* What the steps leave of a run: a goroutine goes on with its run, or has *)
(* none.  Only the steps about policies change the table of policies.      *)
(***************************************************************************)
Onward(m, me) ==
    SameRun(m, me) /\ (m.pc = me.pc \/ {m.pc, me.pc} \subseteq RotatingPc \cup {"host"})

Fresh(w, m) == m.row = None /\ m.password = None /\ m.day \in {NoDay, worker[w].day}

RunsGoOn ==
    /\ UNCHANGED <<policies, settings, raced, issued>>
    /\ \A v \in Worker : Onward(worker'[v], worker[v]) \/ Fresh(v, worker'[v])

Rotation(w) ==
    \/ BeginHost(w) \/ ListProtectedKeepUsers(w) \/ DiscoverExistingUsers(w)
    \/ SendCommands(w) \/ SaveConfirmedCredentials(w) \/ UpdateAfterApply(w)
    \/ ApplySavedUsers(w) \/ MarkCredentialFailure(w)

LEMMA SameOnward == ASSUME NEW m PROVE Onward(m, m)
BY DEF Onward, SameRun

LEMMA BeganOnward ==
    ASSUME NEW me \in WorkerRecord, NEW B, NEW m, m = [me EXCEPT !.began = B]
    PROVE  Onward(m, me)
BY DEF Onward, SameRun, WorkerRecord

(* One goroutine moves.                                                    *)
LEMMA OneMoves ==
    ASSUME TInv, NEW w \in Worker, NEW m, worker' = [worker EXCEPT ![w] = m],
           Onward(m, worker[w]) \/ Fresh(w, m), UNCHANGED <<policies, settings, raced, issued>>
    PROVE  RunsGoOn
<1>1. worker'[w] = m /\ \A v \in Worker \ {w} : worker'[v] = worker[v] BY DEF TInv
<1>2. \A v \in Worker \ {w} : Onward(worker'[v], worker[v]) BY <1>1, SameOnward
<1> QED BY <1>1, <1>2 DEF RunsGoOn

LEMMA KeepsGoOn ==
    ASSUME TInv, \/ \E u \in Keepable : CreateKeepUser(u) \/ DeleteKeepUser(u)
                 \/ \E h \in Host : ChangeExclusions(h)
    PROVE  RunsGoOn
<1>1. UNCHANGED <<policies, settings, raced, issued>>
  BY DEF CreateKeepUser, DeleteKeepUser, ChangeExclusions, history
<1>2. UNCHANGED worker \/ worker' = WithoutUnkept(keeps', saved)
  BY DEF CreateKeepUser, DeleteKeepUser, ChangeExclusions
<1>3. ASSUME NEW v \in Worker PROVE Onward(worker'[v], worker[v])
  <2>1. CASE UNCHANGED worker BY <2>1, SameOnward
  <2>2. CASE worker' = WithoutUnkept(keeps', saved)
    <3>1. PICK B : B = StillKept(v, keeps', saved) OBVIOUS
    <3>2. worker'[v] = [worker[v] EXCEPT !.began = B] BY <2>2, <3>1 DEF WithoutUnkept
    <3> QED BY <3>2, Worked, BeganOnward
  <2> QED BY <1>2, <2>1, <2>2
<1> QED BY <1>1, <1>3 DEF RunsGoOn

LEMMA SavedUsersGoOn ==
    ASSUME TInv, NEW r \in Request,
           \/ CreateSavedUser(r) \/ ReadSavedUser(r) \/ GiveSavedUser(r)
           \/ TakeSavedUser(r) \/ EndSavedUser(r)
    PROVE  RunsGoOn
<1>1. r \in Worker BY DEF Worker
<1>2. UNCHANGED <<policies, settings, raced, issued>>
  BY DEF CreateSavedUser, ReadSavedUser, GiveSavedUser, TakeSavedUser, EndSavedUser, history, tables
<1>3. worker[r] \in WorkerRecord BY <1>1, Worked
<1>4. CASE CreateSavedUser(r) \/ ReadSavedUser(r)
  <2>1. PICK pc, item, S :
           worker' = [worker EXCEPT ![r] = [Idle EXCEPT !.pc = pc, !.item = item, !.hosts = S]]
    BY <1>4 DEF CreateSavedUser, ReadSavedUser, Step
  <2>2. PICK m : m = [Idle EXCEPT !.pc = pc, !.item = item, !.hosts = S] OBVIOUS
  <2>3. Fresh(r, m) BY <2>2 DEF Idle, Fresh
  <2> QED BY <1>1, <1>2, <2>1, <2>2, <2>3, OneMoves
<1>5. CASE GiveSavedUser(r) \/ TakeSavedUser(r)
  <2>1. PICK me \in WorkerRecord : me = worker[r] BY <1>3
  <2>2. CASE GiveSavedUser(r)
    <3>1. PICK S : worker' = [worker EXCEPT ![r] = [me EXCEPT !.hosts = S]]
      BY <2>1, <2>2 DEF GiveSavedUser, Step
    <3>2. PICK m : m = [me EXCEPT !.hosts = S] OBVIOUS
    <3>3. Onward(m, me) BY <3>2 DEF WorkerRecord, SameRun, Onward
    <3> QED BY <1>1, <1>2, <2>1, <3>1, <3>2, <3>3, OneMoves
  <2>3. CASE TakeSavedUser(r)
    <3>1. PICK h \in Host, b \in BOOLEAN :
             worker' = [worker EXCEPT ![r] = [worker[r] EXCEPT !.hosts = @ \ {h}, !.bad = b]]
      BY <2>3, TakeUserTypes
    <3>2. PICK m : m = [worker[r] EXCEPT !.hosts = @ \ {h}, !.bad = b] OBVIOUS
    <3>3. m = [me EXCEPT !.hosts = me.hosts \ {h}, !.bad = b]
      BY <2>1, <3>2 DEF WorkerRecord
    <3>4. SameRun(m, me) /\ m.pc = me.pc BY <3>3 DEF WorkerRecord, SameRun
    <3> QED BY <1>1, <1>2, <2>1, <3>1, <3>2, <3>4, OneMoves DEF Onward
  <2> QED BY <1>5, <2>2, <2>3
<1>6. CASE EndSavedUser(r)
  <2>1. PICK items : items = saved' OBVIOUS
  <2>2. worker' = [WithoutUnkept(keeps, items) EXCEPT ![r] = Idle] BY <1>6, <2>1 DEF EndSavedUser
  <2>3. worker'[r] = Idle BY <1>1, <2>2 DEF WithoutUnkept
  <2>4. Fresh(r, worker'[r]) BY <2>3 DEF Idle, Fresh
  <2>5. ASSUME NEW v \in Worker, v # r PROVE Onward(worker'[v], worker[v])
    <3>1. PICK B : B = StillKept(v, keeps, items) OBVIOUS
    <3>2. worker'[v] = [worker[v] EXCEPT !.began = B] BY <2>2, <2>5, <3>1 DEF WithoutUnkept
    <3> QED BY <3>2, Worked, BeganOnward
  <2> QED BY <1>2, <2>4, <2>5 DEF RunsGoOn
<1> QED BY <1>4, <1>5, <1>6

LEMMA RotationOf ==
    ASSUME TInv, NEW w \in Worker, Rotation(w)
    PROVE  At(w) \in RotatingPc \cup {"host"} /\ RunUntouched
BY DEF Rotation, BeginHost, ListProtectedKeepUsers, DiscoverExistingUsers, SendCommands,
   SaveConfirmedCredentials, UpdateAfterApply, ApplySavedUsers, MarkCredentialFailure,
   RotatingPc, Dials, RunUntouched, tables, history

LEMMA RotationGoesOn == ASSUME TInv, NEW w \in Worker, Rotation(w) PROVE RunsGoOn
<1>1. At(w) \in RotatingPc \cup {"host"} BY RotationOf
<1>2. UNCHANGED <<policies, settings, raced, issued>> BY RotationOf DEF RunUntouched
<1>3. ASSUME NEW m, worker' = [worker EXCEPT ![w] = m], SameRun(m, worker[w]),
             m.pc \in RotatingPc \cup {"host"}
      PROVE  RunsGoOn
  <2>1. Onward(m, worker[w]) BY <1>1, <1>3 DEF Onward, At
  <2> QED BY <1>2, <1>3, <2>1, OneMoves
<1>4. CASE BeginHost(w)
  <2>1. PICK h \in Host, m \in WorkerRecord :
             \/ Begins(w, m, h) /\ Others(w, h) /\ worker'[w] = m
             \/ Skips(w, m, h) /\ worker' = [worker EXCEPT ![w] = m]
    BY <1>4, BeginHostStep
  <2>2. CASE Skips(w, m, h) /\ worker' = [worker EXCEPT ![w] = m]
    BY <1>3, <2>2 DEF Skips
  <2>3. CASE Begins(w, m, h) /\ Others(w, h) /\ worker'[w] = m
    <3>1. Onward(worker'[w], worker[w])
      BY <1>1, <2>3 DEF Begins, Onward, At, RotatingPc, Dials
    <3>2. ASSUME NEW v \in Worker, v # w PROVE Onward(worker'[v], worker[v])
      <4>1. PICK c : worker'[v] = [worker[v] EXCEPT !.alone = @ /\ c]
        BY <2>3, <3>2 DEF Others
      <4> QED BY <4>1, Worked, AloneWorker DEF Onward
    <3> QED BY <1>2, <3>1, <3>2 DEF RunsGoOn
  <2> QED BY <2>1, <2>2, <2>3
<1>5. CASE ~BeginHost(w)
  <2>1. At(w) \in RotatingPc \/ ~GiveUp(w)
    BY <1>5 DEF Rotation, ListProtectedKeepUsers, DiscoverExistingUsers, SendCommands,
       SaveConfirmedCredentials, UpdateAfterApply, ApplySavedUsers, MarkCredentialFailure,
       RotatingPc, Dials
  <2>2. \E m \in WorkerRecord : /\ worker' = [worker EXCEPT ![w] = m] /\ SameRun(m, worker[w])
                                /\ m.pc \in RotatingPc \cup {"host"}
    <3> USE DEF RotatingPc, Dials
    <3>1. CASE GiveUp(w) BY <2>1, <3>1, GiveUpStep
    <3>2. CASE ListProtectedKeepUsers(w) /\ ~GiveUp(w)
      BY <3>2, ListProtectedKeepUsersStep DEF Discovers, SameHost
    <3>3. CASE DiscoverExistingUsers(w)
      BY <3>3, DiscoverExistingUsersStep DEF Sends, TriesNext, SameHost
    <3>4. CASE SendCommands(w)
      BY <3>4, SendCommandsStep DEF Commanded, Broken, Refused, TriesNext, SameHost
    <3>5. CASE SaveConfirmedCredentials(w)
      BY <3>5, SaveConfirmedCredentialsStep DEF GoesOn, SameHost
    <3>6. CASE UpdateAfterApply(w)
      BY <3>6, UpdateAfterApplyStep DEF Recorded, Unrecorded, GoesOn, SameHost
    <3>7. CASE ApplySavedUsers(w) BY <3>7, ApplySavedUsersStep DEF GoesOn, Manages, SameHost
    <3>8. CASE MarkCredentialFailure(w) BY <3>8, MarkCredentialFailureStep DEF GoesOn
    <3> QED BY <1>5, <3>1, <3>2, <3>3, <3>4, <3>5, <3>6, <3>7, <3>8 DEF Rotation
  <2> QED BY <1>3, <2>2
<1> QED BY <1>4, <1>5

LEMMA RestGoesOn ==
    ASSUME TInv, NoneDue \/ Midnight \/ Crash \/ UNCHANGED vars
    PROVE  RunsGoOn
<1>1. UNCHANGED <<policies, settings, raced, issued>>
  BY DEF NoneDue, Midnight, Crash, vars, tables, history
<1>2. CASE UNCHANGED worker BY <1>1, <1>2, SameOnward DEF RunsGoOn
<1>3. Idle.row = None /\ Idle.password = None /\ Idle.day = NoDay BY DEF Idle
<1>4. CASE NoneDue
  <2>1. Rotator \in Worker BY DEF Worker
  <2>2. worker' = [worker EXCEPT ![Rotator] = Idle] BY <1>4 DEF NoneDue, Step
  <2>3. Fresh(Rotator, Idle) BY <1>3 DEF Fresh
  <2> QED BY <1>1, <2>1, <2>2, <2>3, OneMoves
<1>5. CASE Crash
  <2>1. \A v \in Worker : worker'[v] = Idle BY <1>5 DEF Crash
  <2> QED BY <1>1, <1>3, <2>1 DEF RunsGoOn, Fresh
<1> QED BY <1>2, <1>4, <1>5 DEF Midnight, vars

LEMMA HolderRow ==
    ASSUME TInv, NEW v \in Worker, NEW p \in Policy, Holds(v, p)
    PROVE  policies[p] # None
BY Worked DEF Holds, Refers

LEMMA HeldPolicy ==
    ASSUME TInv, NEW v \in Worker, worker[v].row # None
    PROVE  /\ worker[v].policy \in Policy /\ worker[v].pc \in RunPc \cup {"write"}
           /\ worker[v].row \in PolicyRow
BY Worked DEF InHand, WorkerRecord

-----------------------------------------------------------------------------
(***************************************************************************)
(* EditsSurvive                                                            *)
(***************************************************************************)
(* One goroutine at a time holds the row of a policy that is not raced.    *)
OneHolder ==
    \A p \in Policy \ raced : \A v, w \in Worker : Holds(v, p) /\ Holds(w, p) => v = w

(* The row in the hands of m is the one in table t, but for an edit, or for*)
(* passwords that could not be stored; s is what was asked.                *)
Stored(m, t, s) ==
    /\ m.pc \in RunPc \ {"save"} => m.row = t[m.policy]
    /\ m.pc = "save" => Settings(m.row) = s[m.policy]
    /\ m.pc = "write" => /\ m.row.active = t[m.policy].active
                         /\ m.row.date = t[m.policy].date

RowAsStored(m) ==
    m.row # None /\ m.policy \notin raced => Stored(m, policies, settings)

EditInv ==
    /\ OneHolder
    /\ \A w \in Worker : RowAsStored(worker[w])
    /\ EditsSurvive

LEMMA EditsGoOn == ASSUME TInv, EditInv, RunsGoOn PROVE EditInv'
<1>1. UNCHANGED <<policies, settings, raced>> BY DEF RunsGoOn
<1>2. ASSUME NEW v \in Worker, worker'[v].row # None
      PROVE  Onward(worker'[v], worker[v]) /\ worker[v].row # None
  BY <1>2 DEF RunsGoOn, Fresh, Onward, SameRun
<1>3. \A v \in Worker : \A p \in Policy : Holds(v, p)' => Holds(v, p)
  BY <1>2 DEF Holds, Onward, SameRun
<1>4. OneHolder' BY <1>1, <1>3 DEF EditInv, OneHolder
<1>5. ASSUME NEW v \in Worker PROVE RowAsStored(worker[v])'
  <2>1. SUFFICES ASSUME worker'[v].row # None, worker'[v].policy \notin raced
                 PROVE  Stored(worker'[v], policies, settings)
    BY <1>1 DEF RowAsStored
  <2>2. Onward(worker'[v], worker[v]) /\ worker[v].row # None BY <1>2, <2>1
  <2>3. worker[v].policy \notin raced BY <2>1, <2>2 DEF Onward, SameRun
  <2>4. Stored(worker[v], policies, settings) BY <2>2, <2>3 DEF EditInv, RowAsStored
  <2> QED BY <2>2, <2>4 DEF Stored, Onward, SameRun, RotatingPc, Dials, RunPc
<1>6. EditsSurvive' BY <1>1 DEF EditInv, EditsSurvive
<1> QED BY <1>4, <1>5, <1>6 DEF EditInv

(* A step of w that leaves it with m: rows held by others stay as they are,*)
(* unless that is noted as a race.                                         *)
LEMMA EditByOne ==
    ASSUME TInv, EditInv, NEW w \in Worker, NEW m, worker' = [worker EXCEPT ![w] = m],
           raced \subseteq raced',
           m.row # None /\ m.policy \notin raced' =>
              ~HeldByOther(w, m.policy) /\ Stored(m, policies', settings'),
           \A q \in Policy \ raced' : HeldByOther(w, q) =>
              policies'[q] = policies[q] /\ settings'[q] = settings[q],
           \A q \in Policy \ raced' : policies'[q] # None => Settings(policies'[q]) = settings'[q]
    PROVE  EditInv'
<1>1. worker'[w] = m /\ \A v \in Worker \ {w} : worker'[v] = worker[v] BY DEF TInv
<1>2. OneHolder'
  <2>1. SUFFICES ASSUME NEW p \in Policy, p \notin raced', NEW v \in Worker, NEW u \in Worker,
                        Holds(v, p)', Holds(u, p)'
                 PROVE  v = u
    BY DEF OneHolder
  <2>2. CASE v = w \/ u = w
    <3>1. m.row # None /\ m.policy = p BY <1>1, <2>1, <2>2 DEF Holds
    <3>2. ~HeldByOther(w, p) BY <2>1, <3>1
    <3>3. \A x \in Worker \ {w} : ~Holds(x, p) BY <3>2 DEF HeldByOther
    <3> QED BY <1>1, <2>1, <2>2, <3>3 DEF Holds
  <2>3. CASE v # w /\ u # w
    <3>1. Holds(v, p) /\ Holds(u, p) BY <1>1, <2>1, <2>3 DEF Holds
    <3> QED BY <2>1, <3>1 DEF EditInv, OneHolder
  <2> QED BY <2>2, <2>3
<1>3. ASSUME NEW v \in Worker PROVE RowAsStored(worker[v])'
  <2>1. CASE v = w BY <1>1, <2>1 DEF RowAsStored
  <2>2. CASE v # w
    <3>1. SUFFICES ASSUME worker[v].row # None, worker[v].policy \notin raced'
                   PROVE  Stored(worker[v], policies', settings')
      BY <1>1, <2>2 DEF RowAsStored
    <3>2. PICK q \in Policy : q = worker[v].policy BY <3>1, HeldPolicy
    <3>3. HeldByOther(w, q) BY <2>2, <3>1, <3>2 DEF HeldByOther, Holds
    <3>4. policies'[q] = policies[q] /\ settings'[q] = settings[q] BY <3>1, <3>2, <3>3
    <3>5. Stored(worker[v], policies, settings) BY <3>1 DEF EditInv, RowAsStored
    <3> QED BY <3>2, <3>4, <3>5 DEF Stored
  <2> QED BY <2>1, <2>2
<1>4. EditsSurvive' BY DEF EditsSurvive
<1> QED BY <1>2, <1>3, <1>4 DEF EditInv

(* A step that makes rows, or none, and leaves w with m.                   *)
RowsMade ==
    /\ \A q \in Policy : policies[q] # None =>
          policies'[q] = policies[q] /\ settings'[q] = settings[q]
    /\ \A q \in Policy : policies[q] = None /\ policies'[q] # None =>
          settings'[q] = Settings(policies'[q])

LEMMA SeedMakes == ASSUME TInv, policies' = Seeded, NoteSeed PROVE RowsMade
<1>1. GoodTable(policies) BY DEF TInv
<1>2. \A q \in Policy : policies'[q] # policies[q] => policies[q] = None BY <1>1, SeededTable
<1> QED BY <1>2 DEF RowsMade, NoteSeed

LEMMA EditRowsMade ==
    ASSUME TInv, EditInv, NEW w \in Worker, NEW m, worker' = [worker EXCEPT ![w] = m],
           RowsMade, raced \subseteq raced',
           m.row # None /\ m.policy \notin raced' =>
              ~HeldByOther(w, m.policy) /\ Stored(m, policies', settings')
    PROVE  EditInv'
<1>1. ASSUME NEW q \in Policy, HeldByOther(w, q)
      PROVE  policies'[q] = policies[q] /\ settings'[q] = settings[q]
  BY <1>1, HolderRow DEF HeldByOther, RowsMade
<1>2. ASSUME NEW q \in Policy, q \notin raced', policies'[q] # None
      PROVE  Settings(policies'[q]) = settings'[q]
  BY <1>2 DEF EditInv, EditsSurvive, RowsMade
<1> QED BY <1>1, <1>2, EditByOne

LEMMA CreatePolicyEdits == ASSUME TInv, EditInv, NEW r \in Request, CreatePolicy(r) PROVE EditInv'
<1>1. r \in Worker BY DEF Worker
<1>2. UNCHANGED <<worker, raced>> /\ At(r) = "idle" BY DEF CreatePolicy
<1>3. worker[r].row = None BY <1>1, <1>2, Worked DEF InHand, At, RunPc, RotatingPc, Dials
<1>4. PICK p \in Policy : /\ policies[p] = None
                          /\ policies' = [policies EXCEPT ![p] = DefaultPolicy]
                          /\ settings' = [settings EXCEPT ![p] = Settings(DefaultPolicy)]
  BY DEF CreatePolicy
<1>5. RowsMade BY <1>4 DEF RowsMade, TInv, BasicTypes, GoodSettings
<1>6. PICK m : m = worker[r] OBVIOUS
<1>7. worker' = [worker EXCEPT ![r] = m] BY <1>1, <1>2, <1>6 DEF TInv
<1> QED BY <1>1, <1>2, <1>3, <1>5, <1>6, <1>7, EditRowsMade

LEMMA ReadPolicyEdits == ASSUME TInv, EditInv, NEW r \in Request, ReadPolicy(r) PROVE EditInv'
<1>1. r \in Worker BY DEF Worker
<1>2. PICK p \in LivePolicies : \E e \in Edits(policies[p]) :
          /\ Step(r, [Idle EXCEPT !.pc = "write", !.policy = p, !.row = e]) /\ NoteRace(r, p)
  BY DEF ReadPolicy
<1>3. PICK row \in Edits(policies[p]) :
          /\ Step(r, [Idle EXCEPT !.pc = "write", !.policy = p, !.row = row]) /\ NoteRace(r, p)
  BY <1>2
<1>4. p \in Policy /\ policies[p] \in PolicyRow /\ HasManual(policies[p])
  BY DEF LivePolicies, Live, TInv, GoodTable
<1>5. row.active = policies[p].active /\ row.date = policies[p].date BY <1>4, EditsOf
<1>6. PICK m : m = [Idle EXCEPT !.pc = "write", !.policy = p, !.row = row] OBVIOUS
<1>7. worker' = [worker EXCEPT ![r] = m] BY <1>3, <1>6 DEF Step
<1>8. m.pc = "write" /\ m.policy = p /\ m.row = row BY <1>6 DEF Idle
<1>9. UNCHANGED <<policies, settings>> BY DEF ReadPolicy, tables
<1>10. RowsMade BY <1>9 DEF RowsMade
<1>11. raced \subseteq raced' /\ (p \notin raced' => ~HeldByOther(r, p)) BY <1>3 DEF NoteRace
<1>12. Stored(m, policies', settings')
  BY <1>5, <1>8, <1>9 DEF Stored, RunPc, RotatingPc, Dials
<1> QED BY <1>1, <1>7, <1>8, <1>10, <1>11, <1>12, EditRowsMade

LEMMA WritePolicyEdits == ASSUME TInv, EditInv, NEW r \in Request, WritePolicy(r) PROVE EditInv'
<1>1. r \in Worker BY DEF Worker
<1>2. PICK p, row : p = worker[r].policy /\ row = worker[r].row OBVIOUS
<1>3. At(r) = "write" /\ worker' = [worker EXCEPT ![r] = Idle] BY DEF WritePolicy, Step
<1>4. p \in Policy BY <1>1, <1>2, <1>3, Worked DEF At, InHand
<1>5. Idle.row = None BY DEF Idle
<1>6. CASE UNCHANGED <<policies, settings, raced>>
  <2>1. RowsMade BY <1>6 DEF RowsMade
  <2> QED BY <1>1, <1>3, <1>5, <1>6, <2>1, EditRowsMade
<1>7. CASE /\ policies' = [policies EXCEPT ![p] = row]
           /\ settings' = [settings EXCEPT ![p] = Settings(row)]
           /\ NoteRace(r, p)
  <2>1. raced \subseteq raced' /\ (p \notin raced' => ~HeldByOther(r, p)) BY <1>7 DEF NoteRace
  <2>2. /\ policies'[p] = row /\ settings'[p] = Settings(row)
        /\ \A q \in Policy \ {p} : policies'[q] = policies[q] /\ settings'[q] = settings[q]
    BY <1>4, <1>7 DEF TInv, BasicTypes, GoodSettings
  <2>3. \A q \in Policy \ raced' : HeldByOther(r, q) =>
              policies'[q] = policies[q] /\ settings'[q] = settings[q]
    BY <2>1, <2>2
  <2>4. \A q \in Policy \ raced' : policies'[q] # None => Settings(policies'[q]) = settings'[q]
    BY <2>1, <2>2 DEF EditInv, EditsSurvive
  <2> QED BY <1>1, <1>3, <1>5, <2>1, <2>3, <2>4, EditByOne
<1> QED BY <1>2, <1>6, <1>7 DEF WritePolicy

LEMMA CountPoliciesEdits ==
    ASSUME TInv, EditInv, NEW r \in Request, CountPolicies(r) PROVE EditInv'
<1>1. r \in Worker BY DEF Worker
<1>2. PICK p : worker' = [worker EXCEPT ![r] = [Idle EXCEPT !.pc = "erase", !.policy = p]]
  BY DEF CountPolicies, Step
<1>3. PICK m : m = [Idle EXCEPT !.pc = "erase", !.policy = p] OBVIOUS
<1>4. m.row = None BY <1>3 DEF Idle
<1>5. RowsMade /\ raced' = raced BY SeedMakes DEF CountPolicies
<1> QED BY <1>1, <1>2, <1>3, <1>4, <1>5, EditRowsMade

LEMMA ErasedRow ==
    ASSUME NEW row \in PolicyRow, NEW s \in SettingsRecord, Settings(row) = s,
           NEW e, e = [row EXCEPT !.live = FALSE]
    PROVE  Settings(e) = [s EXCEPT !.live = FALSE]
<1>1. /\ e.live = FALSE /\ e.enabled = row.enabled /\ e.target = row.target
      /\ e.mode = row.mode /\ e.manual = row.manual
  BY DEF PolicyRow
<1>2. /\ s.enabled = row.enabled /\ s.target = row.target
      /\ s.mode = row.mode /\ s.manual = row.manual
  BY DEF Settings
<1>3. PICK t : t = [s EXCEPT !.live = FALSE] OBVIOUS
<1>4. /\ t \in SettingsRecord
      /\ t.live = FALSE /\ t.enabled = s.enabled /\ t.target = s.target
      /\ t.mode = s.mode /\ t.manual = s.manual
  BY <1>3 DEF SettingsRecord
<1>5. e \in PolicyRow BY DEF PolicyRow
<1>6. PICK x \in SettingsRecord : x = Settings(e) BY <1>5, SettingsOf
<1>7. /\ x.live = FALSE /\ x.enabled = e.enabled /\ x.target = e.target
      /\ x.mode = e.mode /\ x.manual = e.manual
  BY <1>1, <1>6 DEF Settings
<1>8. x = t BY <1>1, <1>2, <1>4, <1>7 DEF SettingsRecord
<1> QED BY <1>3, <1>6, <1>8

LEMMA ErasePolicyEdits == ASSUME TInv, EditInv, NEW r \in Request, ErasePolicy(r) PROVE EditInv'
<1>1. r \in Worker BY DEF Worker
<1>2. PICK p : p = worker[r].policy OBVIOUS
<1>3. At(r) = "erase" /\ worker' = [worker EXCEPT ![r] = Idle] BY DEF ErasePolicy, Step
<1>4. p \in Policy /\ policies[p] # None
  BY <1>1, <1>2, <1>3, Worked DEF At, InHand, Refers
<1>5. Idle.row = None BY DEF Idle
<1>6. CASE UNCHANGED <<policies, settings, raced>>
  <2>1. RowsMade BY <1>6 DEF RowsMade
  <2> QED BY <1>1, <1>3, <1>5, <1>6, <2>1, EditRowsMade
<1>7. CASE /\ policies' = [policies EXCEPT ![p].live = FALSE]
           /\ settings' = [settings EXCEPT ![p].live = FALSE]
           /\ NoteRace(r, p)
  <2>1. raced \subseteq raced' /\ (p \notin raced' => ~HeldByOther(r, p)) BY <1>7 DEF NoteRace
  <2>2. PICK row \in PolicyRow : row = policies[p] BY <1>4 DEF TInv, BasicTypes
  <2>3. PICK s \in SettingsRecord : s = settings[p] BY <1>4 DEF TInv, GoodSettings
  <2>4. /\ policies'[p] = [row EXCEPT !.live = FALSE] /\ settings'[p] = [s EXCEPT !.live = FALSE]
        /\ \A q \in Policy \ {p} : policies'[q] = policies[q] /\ settings'[q] = settings[q]
    BY <1>4, <1>7, <2>2, <2>3 DEF TInv, BasicTypes, GoodSettings
  <2>5. \A q \in Policy \ raced' : HeldByOther(r, q) =>
              policies'[q] = policies[q] /\ settings'[q] = settings[q]
    BY <2>1, <2>4
  <2>6. p \notin raced' => Settings(policies'[p]) = settings'[p]
    <3>1. p \notin raced' => Settings(row) = s
      BY <1>4, <2>1, <2>2, <2>3 DEF EditInv, EditsSurvive
    <3>2. PICK e : e = [row EXCEPT !.live = FALSE] OBVIOUS
    <3>3. Settings(row) = s => Settings(e) = [s EXCEPT !.live = FALSE] BY <3>2, ErasedRow
    <3> QED BY <2>4, <3>1, <3>2, <3>3
  <2>7. \A q \in Policy \ raced' : policies'[q] # None => Settings(policies'[q]) = settings'[q]
    BY <2>1, <2>4, <2>6 DEF EditInv, EditsSurvive
  <2> QED BY <1>1, <1>3, <1>5, <2>1, <2>5, <2>7, EditByOne
<1> QED BY <1>2, <1>6, <1>7 DEF ErasePolicy

LEMMA RunDueEdits == ASSUME TInv, EditInv, RunDue PROVE EditInv'
<1>1. Rotator \in Worker BY DEF Worker
<1>2. raced' = raced /\ At(Rotator) = "idle" BY DEF RunDue
<1>3. RowsMade
  <2>1. CASE policies' = Seeded /\ NoteSeed BY <2>1, SeedMakes
  <2>2. CASE UNCHANGED <<policies, settings>> BY <2>2 DEF RowsMade
  <2> QED BY <2>1, <2>2 DEF RunDue
<1>4. PICK m : worker' = [worker EXCEPT ![Rotator] = m] /\ m.row = None
  <2>1. CASE UNCHANGED worker
    <3>1. PICK m : m = worker[Rotator] OBVIOUS
    <3>2. m.row = None BY <1>1, <1>2, <3>1, Worked DEF InHand, At, RunPc, RotatingPc, Dials
    <3>3. worker' = [worker EXCEPT ![Rotator] = m] BY <1>1, <2>1, <3>1 DEF TInv
    <3> QED BY <3>2, <3>3
  <2>2. CASE worker' # worker
    <3>1. PICK due : worker' = [worker EXCEPT ![Rotator] =
                                  [Idle EXCEPT !.pc = "next", !.due = due, !.day = day]]
      <4>1. PICK due : worker' = IF due = {} THEN worker
                                 ELSE [worker EXCEPT ![Rotator] =
                                         [Idle EXCEPT !.pc = "next", !.due = due, !.day = day]]
        BY <2>2 DEF RunDue
      <4> QED BY <4>1, <2>2
    <3>2. PICK m : m = [Idle EXCEPT !.pc = "next", !.due = due, !.day = day] OBVIOUS
    <3>3. m.row = None BY <3>2 DEF Idle
    <3> QED BY <3>1, <3>2, <3>3
  <2> QED BY <2>1, <2>2
<1> QED BY <1>1, <1>2, <1>3, <1>4, EditRowsMade

LEMMA GetPolicyEdits == ASSUME TInv, EditInv, NEW w \in Worker, GetPolicy(w) PROVE EditInv'
<1>1. PICK p \in Policy, m \in WorkerRecord :
          /\ worker' = [worker EXCEPT ![w] = m]
          /\ RunBegun(w, p, m) \/ PassedOver(w, m)
  BY GetPolicyStep
<1>2. UNCHANGED <<policies, settings>> BY DEF GetPolicy, tables
<1>3. RowsMade BY <1>2 DEF RowsMade
<1>4. CASE PassedOver(w, m) BY <1>1, <1>3, <1>4, EditRowsMade DEF PassedOver
<1>5. CASE RunBegun(w, p, m)
  <2>1. m.policy = p /\ m.pc = "targets" /\ m.row = policies[p] BY <1>5 DEF RunBegun
  <2>2. raced \subseteq raced' /\ (p \notin raced' => ~HeldByOther(w, p)) BY <1>5 DEF RunBegun
  <2>3. Stored(m, policies', settings') BY <1>2, <2>1 DEF Stored
  <2> QED BY <1>1, <1>3, <2>1, <2>2, <2>3, EditRowsMade
<1> QED BY <1>1, <1>4, <1>5

(* A goroutine that holds the row of a policy that is not raced.           *)
LEMMA HolderOf ==
    ASSUME TInv, EditInv, NEW w \in Worker, At(w) \in RunPc, worker[w].policy \notin raced
    PROVE  /\ worker[w].policy \in Policy /\ policies[worker[w].policy] # None
           /\ ~HeldByOther(w, worker[w].policy)
           /\ Stored(worker[w], policies, settings)
           /\ settings[worker[w].policy] = Settings(policies[worker[w].policy])
           /\ settings[worker[w].policy] = Settings(worker[w].row)
<1>1. PICK me : me = worker[w] OBVIOUS
<1>2. me.row # None /\ me.policy \in Policy /\ policies[me.policy] # None /\ me.pc \in RunPc
  BY <1>1, Worked DEF InHand, Refers, At
<1>3. Holds(w, me.policy) BY <1>1, <1>2 DEF Holds
<1>4. ~HeldByOther(w, me.policy)
  BY <1>1, <1>2, <1>3 DEF HeldByOther, EditInv, OneHolder
<1>5. Stored(me, policies, settings) BY <1>1, <1>2 DEF EditInv, RowAsStored
<1>6. settings[me.policy] = Settings(policies[me.policy])
  BY <1>1, <1>2 DEF EditInv, EditsSurvive
<1>7. settings[me.policy] = Settings(me.row) BY <1>2, <1>5, <1>6 DEF Stored
<1> QED BY <1>1, <1>2, <1>4, <1>5, <1>6, <1>7

LEMMA ResolveTargetsEdits ==
    ASSUME TInv, EditInv, NEW w \in Worker, ResolveTargets(w) PROVE EditInv'
<1>1. At(w) = "targets" /\ At(w) \in RunPc /\ raced' = raced BY DEF ResolveTargets, RunPc
<1>2. PICK m \in WorkerRecord :
             /\ worker' = [worker EXCEPT ![w] = m]
             /\ \/ RunOver(w, m)
                \/ SameErrand(m, worker[w]) /\ m.pc = "save" /\ SameButOutcome(m.row, worker[w].row)
                \/ SameErrand(m, worker[w]) /\ m.pc = "passwords" /\ m.row = worker[w].row
  BY ResolveTargetsStep
<1>3. RowsMade
  <2>1. CASE policies' = Seeded /\ NoteSeed BY <2>1, SeedMakes
  <2>2. CASE UNCHANGED <<policies, settings>> BY <2>2 DEF RowsMade
  <2> QED BY <2>1, <2>2 DEF ResolveTargets
<1>4. ASSUME m.row # None, m.policy \notin raced'
      PROVE  ~HeldByOther(w, m.policy) /\ Stored(m, policies', settings')
  <2>1. m.policy = worker[w].policy BY <1>2, <1>4 DEF RunOver, SameErrand
  <2>2. PICK p : p = m.policy OBVIOUS
  <2>3. /\ p \in Policy /\ policies[p] # None /\ ~HeldByOther(w, p)
        /\ Stored(worker[w], policies, settings)
        /\ settings[p] = Settings(worker[w].row)
    BY <1>1, <1>4, <2>1, <2>2, HolderOf
  <2>4. policies'[p] = policies[p] /\ settings'[p] = settings[p] BY <1>3, <2>3 DEF RowsMade
  <2>5. worker[w].row = policies[p]
    BY <1>1, <2>1, <2>2, <2>3 DEF Stored, At
  <2>6. m.pc = "save" => Settings(m.row) = settings'[p]
    BY <1>2, <1>4, <2>3, <2>4 DEF RunOver, SameButOutcome
  <2>7. m.pc = "passwords" => m.row = policies'[p]
    BY <1>2, <1>4, <2>4, <2>5 DEF RunOver
  <2>8. m.pc \in {"save", "passwords"} BY <1>2, <1>4 DEF RunOver
  <2> QED BY <2>2, <2>3, <2>6, <2>7, <2>8 DEF Stored
<1> QED BY <1>1, <1>2, <1>3, <1>4, EditRowsMade

LEMMA EnsurePolicyPasswordsEdits ==
    ASSUME TInv, EditInv, NEW w \in Worker, EnsurePolicyPasswords(w) PROVE EditInv'
<1>1. At(w) = "passwords" /\ At(w) \in RunPc /\ UNCHANGED <<settings, raced>>
  BY DEF EnsurePolicyPasswords, RunPc
<1>2. PICK m \in WorkerRecord, x \in Password :
             /\ worker' = [worker EXCEPT ![w] = m]
             /\ m.policy = worker[w].policy
             /\ Kept(w, m) \/ RenewedAndSaved(w, m, x) \/ RenewedUnsaved(w, m, x)
  BY EnsurePolicyPasswordsStep
<1>3. PICK p \in Policy : p = worker[w].policy BY <1>1, Worked DEF InHand, At
<1>4. policies' = policies \/ policies' = [policies EXCEPT ![p] = m.row]
  BY <1>2, <1>3 DEF Kept, RenewedAndSaved, RenewedUnsaved
<1>5. \A q \in Policy \ {p} : policies'[q] = policies[q]
  BY <1>4 DEF TInv, BasicTypes
<1>6. ASSUME p \notin raced
      PROVE  /\ ~HeldByOther(w, p) /\ Stored(m, policies', settings')
             /\ policies'[p] # None => Settings(policies'[p]) = settings'[p]
  <2>1. /\ ~HeldByOther(w, p) /\ Stored(worker[w], policies, settings)
        /\ settings[p] = Settings(policies[p]) /\ settings[p] = Settings(worker[w].row)
    BY <1>1, <1>3, <1>6, HolderOf
  <2>2. worker[w].row = policies[p] BY <1>1, <1>3, <2>1 DEF Stored, At
  <2>3. CASE Kept(w, m)
    BY <1>1, <1>2, <1>3, <2>1, <2>2, <2>3 DEF Kept, Stored
  <2>4. CASE RenewedAndSaved(w, m, x)
    <3>1. policies'[p] = m.row BY <1>3, <2>4 DEF RenewedAndSaved, TInv, BasicTypes
    <3>2. m.pc = "host" /\ Settings(m.row) = Settings(worker[w].row)
      BY <2>4 DEF RenewedAndSaved, RenewedRow
    <3> QED BY <1>1, <1>2, <1>3, <2>1, <3>1, <3>2 DEF Stored
  <2>5. CASE RenewedUnsaved(w, m, x)
    <3>1. policies' = policies /\ m.pc = "save" /\ Settings(m.row) = Settings(worker[w].row)
      BY <2>5 DEF RenewedUnsaved, RenewedRow
    <3> QED BY <1>1, <1>2, <1>3, <2>1, <3>1 DEF Stored
  <2> QED BY <1>2, <2>3, <2>4, <2>5
<1>7. \A q \in Policy \ raced' : HeldByOther(w, q) =>
              policies'[q] = policies[q] /\ settings'[q] = settings[q]
  BY <1>1, <1>5, <1>6
<1>8. \A q \in Policy \ raced' : policies'[q] # None => Settings(policies'[q]) = settings'[q]
  BY <1>1, <1>5, <1>6 DEF EditInv, EditsSurvive
<1> QED BY <1>1, <1>2, <1>3, <1>6, <1>7, <1>8, EditByOne

LEMMA SaveOutcomeEdits == ASSUME TInv, EditInv, NEW w \in Worker, SaveOutcome(w) PROVE EditInv'
<1>1. At(w) \in RunPc /\ UNCHANGED <<settings, raced>> BY DEF SaveOutcome, RunPc, history
<1>2. PICK m \in WorkerRecord, s \in PolicyRow :
             /\ worker' = [worker EXCEPT ![w] = m] /\ RunOver(w, m)
             /\ SameButOutcome(s, worker[w].row)
             /\ policies' = policies \/ policies' = [policies EXCEPT ![worker[w].policy] = s]
  BY SaveOutcomeStep
<1>3. PICK p \in Policy : p = worker[w].policy BY <1>1, Worked DEF InHand, At
<1>4. \A q \in Policy \ {p} : policies'[q] = policies[q]
  BY <1>2, <1>3 DEF TInv, BasicTypes
<1>5. ASSUME p \notin raced
      PROVE  ~HeldByOther(w, p) /\ Settings(policies'[p]) = settings'[p]
  <2>1. /\ ~HeldByOther(w, p)
        /\ settings[p] = Settings(policies[p]) /\ settings[p] = Settings(worker[w].row)
    BY <1>1, <1>3, <1>5, HolderOf
  <2>2. policies'[p] = policies[p] \/ policies'[p] = s
    BY <1>2, <1>3 DEF TInv, BasicTypes
  <2> QED BY <1>1, <1>2, <2>1, <2>2 DEF SameButOutcome
<1>6. \A q \in Policy \ raced' : HeldByOther(w, q) =>
              policies'[q] = policies[q] /\ settings'[q] = settings[q]
  BY <1>1, <1>4, <1>5
<1>7. \A q \in Policy \ raced' : policies'[q] # None => Settings(policies'[q]) = settings'[q]
  BY <1>1, <1>4, <1>5 DEF EditInv, EditsSurvive
<1> QED BY <1>1, <1>2, <1>6, <1>7, EditByOne DEF RunOver

LEMMA EditInit == Init => EditInv
<1>1. Init => \A v \in Worker : worker[v] = Idle BY DEF Init
<1>2. Idle.row = None BY DEF Idle
<1>3. Init => EditsSurvive BY DEF Init, EditsSurvive
<1> QED BY <1>1, <1>2, <1>3 DEF EditInv, OneHolder, RowAsStored, Holds

(* The steps about policies; every other one lets the runs go on.          *)
PolicyStep ==
    \/ \E r \in Request : CreatePolicy(r) \/ ReadPolicy(r) \/ WritePolicy(r) \/ CountPolicies(r)
                          \/ ErasePolicy(r)
    \/ RunDue
    \/ \E w \in Worker : GetPolicy(w) \/ ResolveTargets(w) \/ EnsurePolicyPasswords(w)
                         \/ SaveOutcome(w)

LEMMA StepsOf == ASSUME TInv, [Next]_vars PROVE PolicyStep \/ RunsGoOn
<1>1. ASSUME NEW r \in Request, Ask(r) PROVE PolicyStep \/ RunsGoOn
  BY <1>1, SavedUsersGoOn DEF Ask, PolicyStep
<1>2. CASE \/ \E u \in Keepable : CreateKeepUser(u) \/ DeleteKeepUser(u)
           \/ \E h \in Host : ChangeExclusions(h)
  BY <1>2, KeepsGoOn
<1>3. CASE RunDue BY <1>3 DEF PolicyStep
<1>4. ASSUME NEW w \in Worker, Run(w) PROVE PolicyStep \/ RunsGoOn
  BY <1>4, RotationGoesOn DEF Run, PolicyStep, Rotation
<1>5. CASE NoneDue \/ Midnight \/ Crash \/ UNCHANGED vars BY <1>5, RestGoesOn
<1> QED BY <1>1, <1>2, <1>3, <1>4, <1>5 DEF Next, AtRest

LEMMA EditStep == TInv /\ EditInv /\ [Next]_vars => EditInv'
<1> SUFFICES ASSUME TInv, EditInv, [Next]_vars PROVE EditInv' OBVIOUS
<1>1. CASE RunsGoOn BY <1>1, EditsGoOn
<1>2. CASE PolicyStep
  BY <1>2, CreatePolicyEdits, ReadPolicyEdits, WritePolicyEdits, CountPoliciesEdits,
     ErasePolicyEdits, RunDueEdits, GetPolicyEdits, ResolveTargetsEdits,
     EnsurePolicyPasswordsEdits, SaveOutcomeEdits DEF PolicyStep
<1> QED BY <1>1, <1>2, StepsOf

LEMMA EditAlways == Spec => []EditInv
BY TInvAlways, EditInit, EditStep, PTL DEF Spec

(* What an administrator asked of a policy is what the table says, however *)
(* many runs and requests there are, unless two of them had the row at once*)
(* (UpdatePolicy, DeletePolicy and RunPolicyNow of noc_pass_handler.go,    *)
(* runDue of the rotator).                                                 *)
THEOREM EditsAreKept == Spec => []EditsSurvive
BY EditAlways, PTL DEF EditInv

-----------------------------------------------------------------------------
(***************************************************************************)
(* What the steps outside a rotation leave of the rotations: a goroutine   *)
(* that rotates a host rotated it before, and one that had sent commands   *)
(* still rotates, or its host is in doubt.                                 *)
(***************************************************************************)
SameRotation(n, m) ==
    /\ n.pc = m.pc /\ n.host = m.host /\ n.sent = m.sent /\ n.initial = m.initial
    /\ n.alone = m.alone /\ n.password = m.password
    /\ n.keep = m.keep /\ n.managed = m.managed /\ n.began \subseteq m.began

RotationsGoOn ==
    /\ UNCHANGED states /\ doubted \subseteq doubted'
    /\ \A v \in Worker : worker'[v].pc \in RotatingPc => SameRotation(worker'[v], worker[v])
    /\ \A v \in Worker : worker[v].sent => worker'[v].sent \/ worker[v].host \in doubted'

LEMMA OneApart ==
    ASSUME TInv, NEW w \in Worker, NEW m, worker' = [worker EXCEPT ![w] = m],
           m.pc \notin RotatingPc, worker[w].pc \notin RotatingPc, UNCHANGED <<states, doubted>>
    PROVE  RotationsGoOn
<1>1. worker'[w] = m /\ \A v \in Worker \ {w} : worker'[v] = worker[v] BY DEF TInv
<1>2. ~worker[w].sent BY Worked DEF InHand
<1> QED BY <1>1, <1>2 DEF RotationsGoOn, SameRotation

LEMMA LessBegan ==
    ASSUME NEW me \in WorkerRecord, NEW B \in SUBSET me.began, NEW m, m = [me EXCEPT !.began = B]
    PROVE  SameRotation(m, me)
BY DEF SameRotation, WorkerRecord

LEMMA UnkeptApart ==
    ASSUME TInv, NEW users, NEW items, NEW v \in Worker
    PROVE  SameRotation(WithoutUnkept(users, items)[v], worker[v])
<1>1. PICK B \in SUBSET worker[v].began : B = StillKept(v, users, items) BY DEF StillKept
<1>2. WithoutUnkept(users, items)[v] = [worker[v] EXCEPT !.began = B] BY <1>1 DEF WithoutUnkept
<1> QED BY <1>1, <1>2, Worked, LessBegan

LEMMA KeepsApart ==
    ASSUME TInv, \/ \E u \in Keepable : CreateKeepUser(u) \/ DeleteKeepUser(u)
                 \/ \E h \in Host : ChangeExclusions(h)
    PROVE  RotationsGoOn
<1>1. UNCHANGED <<states, doubted>>
  BY DEF CreateKeepUser, DeleteKeepUser, ChangeExclusions, history
<1>2. UNCHANGED worker \/ worker' = WithoutUnkept(keeps', saved)
  BY DEF CreateKeepUser, DeleteKeepUser, ChangeExclusions
<1>3. ASSUME NEW v \in Worker PROVE SameRotation(worker'[v], worker[v])
  <2>1. PICK users : users = keeps' OBVIOUS
  <2>2. CASE worker' = WithoutUnkept(users, saved) BY <2>2, UnkeptApart
  <2>3. CASE UNCHANGED worker BY <2>3 DEF SameRotation
  <2> QED BY <1>2, <2>1, <2>2, <2>3
<1> QED BY <1>1, <1>3 DEF RotationsGoOn, SameRotation

LEMMA SavedUsersApart ==
    ASSUME TInv, NEW r \in Request,
           \/ CreateSavedUser(r) \/ ReadSavedUser(r) \/ GiveSavedUser(r)
           \/ TakeSavedUser(r) \/ EndSavedUser(r)
    PROVE  RotationsGoOn
<1> USE DEF RotatingPc, Dials
<1>1. r \in Worker BY DEF Worker
<1>2. UNCHANGED <<states, doubted>>
  BY DEF CreateSavedUser, ReadSavedUser, GiveSavedUser, TakeSavedUser, EndSavedUser, tables, history
<1>3. /\ worker[r] \in WorkerRecord /\ ~worker[r].sent
      /\ worker[r].pc \in {"idle", "give", "take"}
  BY <1>1, Worked
     DEF CreateSavedUser, ReadSavedUser, GiveSavedUser, TakeSavedUser, EndSavedUser, At, InHand
<1>4. CASE CreateSavedUser(r) \/ ReadSavedUser(r)
  <2>1. PICK pc \in {"give", "take"} : \E item, S :
           worker' = [worker EXCEPT ![r] = [Idle EXCEPT !.pc = pc, !.item = item, !.hosts = S]]
    BY <1>4 DEF CreateSavedUser, ReadSavedUser, Step
  <2>2. PICK item, S :
           worker' = [worker EXCEPT ![r] = [Idle EXCEPT !.pc = pc, !.item = item, !.hosts = S]]
    BY <2>1
  <2>3. PICK m : m = [Idle EXCEPT !.pc = pc, !.item = item, !.hosts = S] OBVIOUS
  <2>4. m.pc = pc BY <2>3 DEF Idle
  <2> QED BY <1>1, <1>2, <1>3, <2>2, <2>3, <2>4, OneApart
<1>5. CASE GiveSavedUser(r)
  <2>1. PICK S : worker' = [worker EXCEPT ![r] = [worker[r] EXCEPT !.hosts = S]]
    BY <1>5 DEF GiveSavedUser, Step
  <2>2. PICK m : m = [worker[r] EXCEPT !.hosts = S] OBVIOUS
  <2>3. m.pc = "give" BY <1>3, <1>5, <2>2 DEF WorkerRecord, GiveSavedUser, At
  <2> QED BY <1>1, <1>2, <1>3, <2>1, <2>2, <2>3, OneApart
<1>6. CASE TakeSavedUser(r)
  <2>1. PICK h \in Host, b \in BOOLEAN :
             worker' = [worker EXCEPT ![r] = [worker[r] EXCEPT !.hosts = @ \ {h}, !.bad = b]]
    BY <1>6, TakeUserTypes
  <2>2. PICK m : m = [worker[r] EXCEPT !.hosts = @ \ {h}, !.bad = b] OBVIOUS
  <2>3. m.pc = "take" BY <1>3, <1>6, <2>2 DEF WorkerRecord, TakeSavedUser, At
  <2> QED BY <1>1, <1>2, <1>3, <2>1, <2>2, <2>3, OneApart
<1>7. CASE EndSavedUser(r)
  <2>1. PICK items : items = saved' OBVIOUS
  <2>2. worker' = [WithoutUnkept(keeps, items) EXCEPT ![r] = Idle] BY <1>7, <2>1 DEF EndSavedUser
  <2>3. worker'[r] = Idle BY <1>1, <2>2 DEF WithoutUnkept
  <2>4. \A v \in Worker \ {r} : worker'[v] = WithoutUnkept(keeps, items)[v]
    BY <2>2 DEF WithoutUnkept
  <2>5. Idle.pc = "idle" BY DEF Idle
  <2>6. \A v \in Worker \ {r} : SameRotation(worker'[v], worker[v]) BY <2>4, UnkeptApart
  <2> QED BY <1>2, <1>3, <2>3, <2>5, <2>6 DEF RotationsGoOn, SameRotation
<1> QED BY <1>4, <1>5, <1>6, <1>7

LEMMA PoliciesApart == ASSUME TInv, PolicyStep PROVE RotationsGoOn
<1> USE DEF RotatingPc, Dials
<1>1. UNCHANGED <<states, doubted>>
  BY DEF PolicyStep, CreatePolicy, ReadPolicy, WritePolicy, CountPolicies, ErasePolicy, RunDue,
     GetPolicy, ResolveTargets, EnsurePolicyPasswords, SaveOutcome, tables, history
<1>2. Idle.pc = "idle" BY DEF Idle
<1>3. ASSUME NEW r \in Request, CreatePolicy(r) PROVE RotationsGoOn
  BY <1>1, <1>3 DEF CreatePolicy, RotationsGoOn, SameRotation
<1>4. ASSUME NEW r \in Request, ReadPolicy(r) \/ CountPolicies(r) PROVE RotationsGoOn
  <2>1. worker[r].pc = "idle" BY <1>4 DEF ReadPolicy, CountPolicies, At
  <2>2. ASSUME NEW m, worker' = [worker EXCEPT ![r] = m], m.pc \in {"write", "erase"}
        PROVE  RotationsGoOn
    BY <1>1, <2>1, <2>2, OneApart DEF Worker
  <2>3. CASE ReadPolicy(r)
    <3>1. PICK p, row : Step(r, [Idle EXCEPT !.pc = "write", !.policy = p, !.row = row])
      BY <2>3 DEF ReadPolicy
    <3>2. PICK m : m = [Idle EXCEPT !.pc = "write", !.policy = p, !.row = row] OBVIOUS
    <3>3. m.pc = "write" BY <3>2 DEF Idle
    <3> QED BY <2>2, <3>1, <3>2, <3>3 DEF Step
  <2>4. CASE CountPolicies(r)
    <3>1. PICK p : Step(r, [Idle EXCEPT !.pc = "erase", !.policy = p])
      BY <2>4 DEF CountPolicies
    <3>2. PICK m : m = [Idle EXCEPT !.pc = "erase", !.policy = p] OBVIOUS
    <3>3. m.pc = "erase" BY <3>2 DEF Idle
    <3> QED BY <2>2, <3>1, <3>2, <3>3 DEF Step
  <2> QED BY <1>4, <2>3, <2>4
<1>5. ASSUME NEW r \in Request, WritePolicy(r) \/ ErasePolicy(r) PROVE RotationsGoOn
  BY <1>1, <1>2, <1>5, OneApart DEF WritePolicy, ErasePolicy, Step, Worker, At
<1>6. CASE RunDue
  <2>1. CASE UNCHANGED worker BY <1>1, <2>1 DEF RotationsGoOn, SameRotation
  <2>2. CASE worker' # worker
    <3>1. PICK due : worker' = IF due = {} THEN worker
                               ELSE [worker EXCEPT ![Rotator] =
                                       [Idle EXCEPT !.pc = "next", !.due = due, !.day = day]]
      BY <1>6, <2>2 DEF RunDue
    <3>2. PICK m : m = [Idle EXCEPT !.pc = "next", !.due = due, !.day = day] OBVIOUS
    <3>3. m.pc = "next" BY <3>2 DEF Idle
    <3>4. worker[Rotator].pc = "idle" BY <1>6 DEF RunDue, At
    <3> QED BY <1>1, <2>2, <3>1, <3>2, <3>3, <3>4, OneApart DEF Worker
  <2> QED BY <2>1, <2>2
<1>7. ASSUME NEW w \in Worker, GetPolicy(w) PROVE RotationsGoOn
  <2>1. worker[w].pc \in {"next", "idle"} BY <1>7 DEF GetPolicy, At
  <2> QED BY <1>1, <1>7, <2>1, GetPolicyStep, OneApart DEF RunBegun, PassedOver
<1>8. ASSUME NEW w \in Worker, ResolveTargets(w) PROVE RotationsGoOn
  <2>1. worker[w].pc = "targets" BY <1>8 DEF ResolveTargets, At
  <2> QED BY <1>1, <1>8, <2>1, ResolveTargetsStep, OneApart DEF RunOver
<1>9. ASSUME NEW w \in Worker, EnsurePolicyPasswords(w) PROVE RotationsGoOn
  <2>1. worker[w].pc = "passwords" BY <1>9 DEF EnsurePolicyPasswords, At
  <2> QED BY <1>1, <1>9, <2>1, EnsurePolicyPasswordsStep, OneApart
          DEF Kept, RenewedAndSaved, RenewedUnsaved
<1>10. ASSUME NEW w \in Worker, SaveOutcome(w) PROVE RotationsGoOn
  <2>1. worker[w].pc \in {"save", "host"} BY <1>10 DEF SaveOutcome, At
  <2> QED BY <1>1, <1>10, <2>1, SaveOutcomeStep, OneApart DEF RunOver
<1> QED BY <1>3, <1>4, <1>5, <1>6, <1>7, <1>8, <1>9, <1>10 DEF PolicyStep

LEMMA RestApart ==
    ASSUME TInv, NoneDue \/ Midnight \/ Crash \/ UNCHANGED vars PROVE RotationsGoOn
<1> USE DEF RotatingPc, Dials
<1>1. UNCHANGED states /\ (Crash \/ UNCHANGED doubted)
  BY DEF NoneDue, Midnight, Crash, vars, tables, history
<1>2. Idle.pc = "idle" BY DEF Idle
<1>3. CASE UNCHANGED worker /\ ~Crash BY <1>1, <1>3 DEF RotationsGoOn, SameRotation
<1>4. CASE NoneDue /\ ~Crash BY <1>1, <1>2, <1>4, OneApart DEF NoneDue, Step, Worker, At
<1>5. CASE Crash
  <2>1. \A v \in Worker : worker'[v] = Idle BY <1>5 DEF Crash
  <2>2. doubted' = doubted \cup {worker[w].host : w \in {v \in Worker : worker[v].sent}}
    BY <1>5 DEF Crash
  <2>3. \A v \in Worker : worker[v].sent => worker[v].host \in doubted' BY <2>2
  <2> QED BY <1>1, <1>2, <2>1, <2>2, <2>3 DEF RotationsGoOn
<1> QED BY <1>3, <1>4, <1>5 DEF Midnight, vars

(* A step is one of a rotation, or lets them all go on.                    *)
LEMMA RotationOrNot ==
    ASSUME TInv, [Next]_vars PROVE (\E w \in Worker : Rotation(w)) \/ RotationsGoOn
<1>1. ASSUME NEW r \in Request, Ask(r) PROVE RotationsGoOn
  BY <1>1, SavedUsersApart, PoliciesApart DEF Ask, PolicyStep
<1>2. CASE \/ \E u \in Keepable : CreateKeepUser(u) \/ DeleteKeepUser(u)
           \/ \E h \in Host : ChangeExclusions(h)
  BY <1>2, KeepsApart
<1>3. CASE RunDue BY <1>3, PoliciesApart DEF PolicyStep
<1>4. ASSUME NEW w \in Worker, Run(w) PROVE Rotation(w) \/ RotationsGoOn
  BY <1>4, PoliciesApart DEF Run, PolicyStep, Rotation
<1>5. CASE NoneDue \/ Midnight \/ Crash \/ UNCHANGED vars BY <1>5, RestApart
<1> QED BY <1>1, <1>2, <1>3, <1>4, <1>5 DEF Next, AtRest

-----------------------------------------------------------------------------
(***************************************************************************)
(* The states of the hosts, and TypeOK                                     *)
(***************************************************************************)
StateInv ==
    /\ states \in [Host -> HostState \cup {None}]
    /\ \A w \in Worker : worker[w].pc \in RotatingPc => states[worker[w].host] # None

NotOk(f, h) == [f EXCEPT ![h].ok = FALSE]

LEMMA MarkedNotOk ==
    ASSUME NEW f \in [Host -> HostState \cup {None}], NEW h \in Host, f[h] # None,
           NEW g, g = NotOk(f, h)
    PROVE  /\ g \in [Host -> HostState \cup {None}]
           /\ g[h] # None /\ ~g[h].ok /\ g[h].password = f[h].password
           /\ \A k \in Host \ {h} : g[k] = f[k]
<1>1. PICK s \in HostState : s = f[h] OBVIOUS
<1>2. PICK t : t = [s EXCEPT !.ok = FALSE] OBVIOUS
<1>3. t \in HostState /\ ~t.ok /\ t.password = s.password BY <1>2 DEF HostState
<1>4. g = [f EXCEPT ![h] = t] BY <1>1, <1>2 DEF NotOk
<1> QED BY <1>1, <1>3, <1>4, NoneApart

LEMMA TouchedState ==
    ASSUME StateInv, NEW h \in Host
    PROVE  /\ Touched(h) \in [Host -> HostState \cup {None}] /\ Touched(h)[h] # None
           /\ states[h] # None => Touched(h) = states
           /\ states[h] = None => Touched(h)[h].password = None /\ ~Touched(h)[h].ok
           /\ \A k \in Host \ {h} : Touched(h)[k] = states[k]
<1>1. states \in [Host -> HostState \cup {None}] BY DEF StateInv
<1>2. PICK t : t = [password |-> None, ok |-> FALSE] OBVIOUS
<1>3. t \in HostState BY <1>2 DEF HostState
<1>4. CASE states[h] # None BY <1>1, <1>4 DEF Touched
<1>5. CASE states[h] = None
  <2>1. Touched(h) = [states EXCEPT ![h] = t] BY <1>2, <1>5 DEF Touched
  <2>2. t # None BY <1>3, NoneApart
  <2>3. PICK g : g = Touched(h) OBVIOUS
  <2>4. g \in [Host -> HostState \cup {None}] /\ g[h] = t /\ \A k \in Host \ {h} : g[k] = states[k]
    BY <1>1, <1>3, <2>1, <2>3
  <2>5. t.password = None /\ ~t.ok BY <1>2
  <2> QED BY <1>5, <2>2, <2>3, <2>4, <2>5
<1> QED BY <1>4, <1>5

(* What a rotation leaves of the others.                                   *)
SameButAlone(n, m) ==
    /\ n.pc = m.pc /\ n.host = m.host /\ n.sent = m.sent /\ n.initial = m.initial
    /\ n.password = m.password /\ n.keep = m.keep /\ n.managed = m.managed /\ n.began = m.began
    /\ n.alone => m.alone

(* A step of goroutine w alone; or w begins with host h.                   *)
LEMMA RotationMoves ==
    ASSUME TInv, NEW w \in Worker, Rotation(w)
    PROVE  \E m \in WorkerRecord :
             /\ worker'[w] = m /\ SameRun(m, worker[w])
             /\ \A v \in Worker \ {w} : SameButAlone(worker'[v], worker[v])
             /\ \/ BeginHost(w)
                \/ /\ ~BeginHost(w) /\ worker' = [worker EXCEPT ![w] = m]
                   /\ worker[w].pc \in RotatingPc
                   /\ m.pc = "host" \/ SameHost(m, worker[w])
<1>1. ASSUME NEW m \in WorkerRecord, worker' = [worker EXCEPT ![w] = m]
      PROVE  worker'[w] = m /\ \A v \in Worker \ {w} : SameButAlone(worker'[v], worker[v])
  BY <1>1 DEF TInv, SameButAlone
<1>2. CASE BeginHost(w)
  <2>1. PICK h \in Host, m \in WorkerRecord :
             \/ Begins(w, m, h) /\ Others(w, h) /\ worker'[w] = m
             \/ Skips(w, m, h) /\ worker' = [worker EXCEPT ![w] = m]
    BY <1>2, BeginHostStep
  <2>2. CASE Skips(w, m, h) /\ worker' = [worker EXCEPT ![w] = m]
    BY <1>1, <1>2, <2>2 DEF Skips
  <2>3. CASE Begins(w, m, h) /\ Others(w, h) /\ worker'[w] = m
    <3>1. ASSUME NEW v \in Worker, v # w PROVE SameButAlone(worker'[v], worker[v])
      <4>1. PICK c : worker'[v] = [worker[v] EXCEPT !.alone = @ /\ c]
        BY <2>3, <3>1 DEF Others
      <4>2. PICK me \in WorkerRecord : me = worker[v] /\ InHand(me) /\ Refers(me, policies)
        BY Worked
      <4>3. PICK n : n = [me EXCEPT !.alone = @ /\ c] OBVIOUS
      <4>4. /\ SameRun(n, me) /\ n.pc = me.pc /\ n.host = me.host /\ n.initial = me.initial
            /\ n.sent = me.sent /\ n.keep = me.keep
            /\ n.managed = me.managed /\ n.began = me.began
            /\ n.alone = (me.alone /\ c)
        BY <4>2, <4>3, AloneWorker
      <4> QED BY <4>1, <4>2, <4>3, <4>4 DEF SameButAlone, SameRun
    <3> QED BY <1>2, <2>3, <3>1 DEF Begins
  <2> QED BY <2>1, <2>2, <2>3
<1>3. CASE ~BeginHost(w)
  <2>1. At(w) \in RotatingPc /\ worker[w].pc \in RotatingPc
    BY <1>3 DEF Rotation, ListProtectedKeepUsers, DiscoverExistingUsers, SendCommands,
       SaveConfirmedCredentials, UpdateAfterApply, ApplySavedUsers, MarkCredentialFailure,
       RotatingPc, Dials, At
  <2>2. \E m \in WorkerRecord : /\ worker' = [worker EXCEPT ![w] = m] /\ SameRun(m, worker[w])
                                /\ m.pc = "host" \/ SameHost(m, worker[w])
    <3>1. CASE GiveUp(w) BY <2>1, <3>1, GiveUpStep
    <3>2. CASE ListProtectedKeepUsers(w) /\ ~GiveUp(w)
      BY <3>2, ListProtectedKeepUsersStep DEF Discovers, SameHost
    <3>3. CASE DiscoverExistingUsers(w)
      BY <3>3, DiscoverExistingUsersStep DEF Sends, TriesNext, SameHost
    <3>4. CASE SendCommands(w)
      BY <3>4, SendCommandsStep DEF Commanded, Broken, Refused, TriesNext, SameHost
    <3>5. CASE SaveConfirmedCredentials(w)
      BY <3>5, SaveConfirmedCredentialsStep DEF GoesOn, SameHost
    <3>6. CASE UpdateAfterApply(w)
      BY <3>6, UpdateAfterApplyStep DEF Recorded, Unrecorded, GoesOn, SameHost
    <3>7. CASE ApplySavedUsers(w) BY <3>7, ApplySavedUsersStep DEF GoesOn, Manages, SameHost
    <3>8. CASE MarkCredentialFailure(w) BY <3>8, MarkCredentialFailureStep DEF GoesOn
    <3> QED BY <1>3, <3>1, <3>2, <3>3, <3>4, <3>5, <3>6, <3>7, <3>8 DEF Rotation
  <2> QED BY <1>1, <1>3, <2>1, <2>2
<1> QED BY <1>2, <1>3

LEMMA StatesMove ==
    ASSUME TInv, StateInv, NEW w \in Worker, Rotation(w)
    PROVE  /\ states' \in [Host -> HostState \cup {None}]
           /\ \A h \in Host : states[h] # None => states'[h] # None
<1>1. states \in [Host -> HostState \cup {None}] BY DEF StateInv
<1>2. CASE UNCHANGED states BY <1>1, <1>2
<1>3. CASE BeginHost(w)
  <2>1. PICK h \in Host : states' \in {states, Touched(h), [Touched(h) EXCEPT ![h].ok = FALSE]}
    BY <1>3, BeginHostStep DEF Begins, Skips
  <2>2. PICK t \in [Host -> HostState \cup {None}] :
           t = Touched(h) /\ t[h] # None /\ \A k \in Host \ {h} : t[k] = states[k]
    BY TouchedState
  <2>3. CASE states' = t BY <2>2, <2>3
  <2>4. CASE states' = [t EXCEPT ![h].ok = FALSE]
    <3>1. PICK g : g = states' OBVIOUS
    <3>2. g = NotOk(t, h) BY <2>4, <3>1 DEF NotOk
    <3>3. /\ g \in [Host -> HostState \cup {None}] /\ g[h] # None
          /\ \A k \in Host \ {h} : g[k] = t[k]
      BY <2>2, <3>2, MarkedNotOk
    <3> QED BY <2>2, <3>1, <3>3
  <2> QED BY <1>2, <2>1, <2>2, <2>3, <2>4
<1>4. CASE At(w) \in RotatingPc /\ states' = [states EXCEPT ![worker[w].host].ok = FALSE]
  <2>1. PICK h \in Host : h = worker[w].host BY <1>4, RotatingWorker
  <2>2. states[h] # None BY <1>4, <2>1 DEF StateInv, At
  <2>3. PICK g : g = states' OBVIOUS
  <2>4. g = NotOk(states, h) BY <1>4, <2>1, <2>3 DEF NotOk
  <2>5. /\ g \in [Host -> HostState \cup {None}] /\ g[h] # None
        /\ \A k \in Host \ {h} : g[k] = states[k]
    BY <1>1, <2>2, <2>4, MarkedNotOk
  <2> QED BY <2>3, <2>5
<1>5. CASE UpdateAfterApply(w)
  <2>1. At(w) \in RotatingPc BY <1>5 DEF UpdateAfterApply, RotatingPc
  <2>2. PICK h \in Host : h = worker[w].host BY <2>1, RotatingWorker
  <2>3. PICK s \in HostState : s = [password |-> worker[w].password, ok |-> TRUE]
    BY <2>1, RotatingWorker DEF HostState
  <2>4. UNCHANGED states \/ states' = [states EXCEPT ![h] = s]
    BY <1>5, <2>2, <2>3 DEF UpdateAfterApply
  <2> QED BY <1>1, <1>2, <2>3, <2>4, NoneApart
<1>6. \/ BeginHost(w) \/ UpdateAfterApply(w) \/ UNCHANGED states
      \/ At(w) \in RotatingPc /\ states' = [states EXCEPT ![worker[w].host].ok = FALSE]
  BY DEF Rotation, ListProtectedKeepUsers, DiscoverExistingUsers, SendCommands,
     SaveConfirmedCredentials, ApplySavedUsers, MarkCredentialFailure, GiveUp, tables,
     RotatingPc, Dials
<1> QED BY <1>2, <1>3, <1>4, <1>5, <1>6

LEMMA StateStep == TInv /\ StateInv /\ [Next]_vars => StateInv'
<1> SUFFICES ASSUME TInv, StateInv, [Next]_vars PROVE StateInv' OBVIOUS
<1>1. CASE RotationsGoOn BY <1>1 DEF StateInv, RotationsGoOn, SameRotation
<1>2. ASSUME NEW w \in Worker, Rotation(w) PROVE StateInv'
  <2>1. /\ states' \in [Host -> HostState \cup {None}]
        /\ \A h \in Host : states[h] # None => states'[h] # None
    BY <1>2, StatesMove
  <2>2. PICK m \in WorkerRecord :
             /\ worker'[w] = m
             /\ \A v \in Worker \ {w} : SameButAlone(worker'[v], worker[v])
             /\ BeginHost(w) \/ m.pc = "host"
                \/ (worker[w].pc \in RotatingPc /\ SameHost(m, worker[w]))
    BY <1>2, RotationMoves
  <2>3. ASSUME NEW v \in Worker, worker[v].pc \in RotatingPc
        PROVE  states'[worker[v].host] # None
    BY <2>1, <2>3, RotatingWorker DEF StateInv, At
  <2>4. m.pc \in RotatingPc => states'[m.host] # None
    <3>1. CASE BeginHost(w)
      <4>1. PICK h \in Host :
                 \/ worker'[w].host = h /\ states' = Touched(h)
                 \/ worker'[w].pc = "host"
        BY <3>1, BeginHostStep, Worked DEF Begins, Skips, TInv
      <4> QED BY <2>2, <4>1, TouchedState DEF RotatingPc, Dials
    <3>2. CASE m.pc = "host" BY <3>2 DEF RotatingPc, Dials
    <3>3. CASE worker[w].pc \in RotatingPc /\ SameHost(m, worker[w])
      BY <2>3, <3>3 DEF SameHost
    <3> QED BY <2>2, <3>1, <3>2, <3>3
  <2>5. ASSUME NEW v \in Worker, worker'[v].pc \in RotatingPc
        PROVE  states'[worker'[v].host] # None
    BY <2>2, <2>3, <2>4, <2>5 DEF SameButAlone
  <2> QED BY <2>1, <2>5 DEF StateInv
<1> QED BY <1>1, <1>2, RotationOrNot

LEMMA StateInit == Init => StateInv
<1> SUFFICES ASSUME Init PROVE StateInv OBVIOUS
<1>1. PICK s : s = [password |-> Earlier, ok |-> TRUE] OBVIOUS
<1>2. s \in HostState BY <1>1 DEF HostState, Password
<1>3. states \in [Host -> HostState \cup {None}] BY <1>1, <1>2 DEF Init
<1>4. \A v \in Worker : worker[v] = Idle BY DEF Init
<1>5. Idle.pc = "idle" BY DEF Idle
<1> QED BY <1>3, <1>4, <1>5 DEF StateInv, RotatingPc, Dials

LEMMA StateAlways == Spec => []StateInv
BY TInvAlways, StateInit, StateStep, PTL DEF Spec

(* No host is ever taken from `mixed`; where a user is given or taken is a   *)
(* host.                                                                   *)
LEMMA MixedStep ==
    ASSUME TInv, [Next]_vars
    PROVE  mixed \subseteq mixed' /\ (mixed \subseteq Host => mixed' \subseteq Host)
<1>1. ASSUME NEW r \in Request, GiveSavedUser(r) \/ TakeSavedUser(r)
      PROVE  \E h \in Host : mixed' = mixed \/ mixed' = mixed \cup {h}
  <2>1. r \in Worker BY DEF Worker
  <2>2. worker[r].hosts # {} BY <1>1 DEF GiveSavedUser, TakeSavedUser
  <2>3. worker[r].hosts \subseteq Host BY <2>1, Worked DEF WorkerRecord
  <2>4. worker[r].hosts \in SUBSET Nat BY <2>3, NocPassAssumption
  <2>5. PICK g \in Host : g = Earliest(worker[r].hosts) BY <2>2, <2>3, <2>4, EarliestOf
  <2>6. mixed' = mixed \/ mixed' = mixed \cup {g}
    BY <1>1, <2>5 DEF GiveSavedUser, TakeSavedUser, NoteMixed
  <2> QED BY <2>6
<1>2. ASSUME NEW w \in Worker, ApplySavedUsers(w)
      PROVE  \E h \in Host : mixed' = mixed \/ mixed' = mixed \cup {h}
  <2>1. At(w) \in RotatingPc BY <1>2 DEF ApplySavedUsers, RotatingPc
  <2>2. PICK g \in Host : g = worker[w].host BY <2>1, RotatingWorker
  <2>3. mixed' = mixed \/ mixed' = mixed \cup {g}
    BY <1>2, <2>2 DEF ApplySavedUsers, NoteMixed
  <2> QED BY <2>3
<1>3. ASSUME NEW w \in Worker, Run(w), ~ApplySavedUsers(w) PROVE mixed' = mixed
  <2>1. CASE GetPolicy(w) \/ ResolveTargets(w) \/ EnsurePolicyPasswords(w) \/ SaveOutcome(w)
    BY <2>1 DEF GetPolicy, ResolveTargets, EnsurePolicyPasswords, SaveOutcome, history
  <2>2. CASE BeginHost(w) \/ ListProtectedKeepUsers(w) \/ DiscoverExistingUsers(w)
    BY <2>2 DEF BeginHost, ListProtectedKeepUsers, DiscoverExistingUsers, history
  <2>3. CASE SendCommands(w) \/ SaveConfirmedCredentials(w) \/ UpdateAfterApply(w)
             \/ MarkCredentialFailure(w)
    BY <2>3 DEF SendCommands, SaveConfirmedCredentials, UpdateAfterApply, MarkCredentialFailure,
       history
  <2> QED BY <1>3, <2>1, <2>2, <2>3 DEF Run
<1>4. ASSUME NEW r \in Request, Ask(r), ~GiveSavedUser(r), ~TakeSavedUser(r)
      PROVE  mixed' = mixed
  BY <1>4 DEF Ask, CreatePolicy, ReadPolicy, WritePolicy, CountPolicies, ErasePolicy,
     CreateSavedUser, ReadSavedUser, EndSavedUser, history
<1>5. ASSUME \/ \E u \in Keepable : CreateKeepUser(u) \/ DeleteKeepUser(u)
             \/ \E h \in Host : ChangeExclusions(h)
             \/ RunDue \/ NoneDue \/ Midnight \/ Crash \/ UNCHANGED vars
      PROVE  mixed' = mixed
  BY <1>5 DEF CreateKeepUser, DeleteKeepUser, ChangeExclusions, RunDue, NoneDue, Midnight, Crash,
     vars, history
<1>6. \/ \E r \in Request : GiveSavedUser(r) \/ TakeSavedUser(r)
      \/ \E w \in Worker : ApplySavedUsers(w)
      \/ mixed' = mixed
  BY <1>3, <1>4, <1>5 DEF Next, AtRest
<1>7. (\E h \in Host : mixed' = mixed \/ mixed' = mixed \cup {h}) \/ mixed' = mixed
  BY <1>1, <1>2, <1>6
<1> QED BY <1>7

(* TypeOK holds: a rotation never writes the state of a host that has no   *)
(* row of states, so no row is made of fields alone (TouchHostState of     *)
(* noc_pass_repo.go comes first).                                          *)
THEOREM TypeCorrect == Spec => []TypeOK
<1>1. Init => mixed \subseteq Host BY DEF Init
<1>2. TInv /\ mixed \subseteq Host /\ [Next]_vars => (mixed \subseteq Host)' BY MixedStep
<1>3. Spec => [](mixed \subseteq Host) BY <1>1, <1>2, TInvAlways, PTL DEF Spec
<1>4. TInv /\ StateInv /\ mixed \subseteq Host => TypeOK
  BY DEF TInv, BasicTypes, StateInv, TypeOK
<1> QED BY <1>3, <1>4, TInvAlways, StateAlways, PTL

-----------------------------------------------------------------------------
(***************************************************************************)
(* KeptUsersStay                                                           *)
(***************************************************************************)
KeptNow(h) == keeps \cup ManagedUsers(h)

(* Until its commands are sent, what w has seen kept since it began is kept*)
(* or saved still, and is protected once the users have been listed.       *)
Spares(m) ==
    /\ m.pc \in Dials => m.began \subseteq KeptNow(m.host)
    /\ m.pc \in {"discover", "send"} => m.began \subseteq m.keep \cup m.managed

KeptInv == \A w \in Worker : Spares(worker[w])

LEMMA ManagedOf == ASSUME NEW h PROVE \A u : u \in ManagedUsers(h) <=>
                      \E i \in saved : i.user = u /\ SavedUserMatchesRow(i, h)
BY DEF ManagedUsers

LEMMA SparesStill ==
    ASSUME NEW m, NEW n, SameRotation(n, m), Spares(m),
           n.began \subseteq keeps' \cup ManagedUsers(m.host)'
    PROVE  Spares(n)'
BY DEF Spares, SameRotation, KeptNow

(* Lists that grow, or lists whose losses the rotations are told.          *)
LEMMA SparesMore ==
    ASSUME RotationsGoOn, KeptInv, keeps \subseteq keeps', saved \subseteq saved'
    PROVE  KeptInv'
<1> SUFFICES ASSUME NEW v \in Worker PROVE Spares(worker[v])' BY DEF KeptInv
<1>1. CASE worker'[v].pc \in RotatingPc
  <2>1. PICK n, m : n = worker'[v] /\ m = worker[v] OBVIOUS
  <2>2. SameRotation(n, m) BY <1>1, <2>1 DEF RotationsGoOn
  <2>3. Spares(m) BY <2>1 DEF KeptInv
  <2>4. \A u : u \in ManagedUsers(m.host) => u \in ManagedUsers(m.host)'
    BY DEF ManagedUsers, SavedUserMatchesRow
  <2>5. m.pc \in Dials => n.began \subseteq keeps' \cup ManagedUsers(m.host)'
    BY <2>2, <2>3, <2>4 DEF Spares, SameRotation, KeptNow
  <2>6. m.pc \notin Dials => Spares(n)' BY <2>2, <2>3 DEF Spares, SameRotation, Dials
  <2>7. Spares(n)' BY <2>2, <2>3, <2>5, <2>6, SparesStill
  <2> QED BY <2>1, <2>7 DEF Spares, KeptNow
<1>2. CASE worker'[v].pc \notin RotatingPc BY <1>2 DEF Spares, RotatingPc, Dials
<1> QED BY <1>1, <1>2

LEMMA SparesTold ==
    ASSUME TInv, KeptInv, NEW users, NEW items, users = keeps', items = saved',
           \A v \in Worker : worker'[v].pc \in RotatingPc =>
              worker'[v] = WithoutUnkept(users, items)[v]
    PROVE  KeptInv'
<1> SUFFICES ASSUME NEW v \in Worker PROVE Spares(worker[v])' BY DEF KeptInv
<1>1. CASE worker'[v].pc \in RotatingPc
  <2>1. PICK n, m : n = worker'[v] /\ m = worker[v] /\ m \in WorkerRecord BY Worked
  <2>2. SameRotation(n, m) BY <1>1, <2>1, UnkeptApart
  <2>3. Spares(m) BY <2>1 DEF KeptInv
  <2>4. PICK B : B = StillKept(v, users, items) OBVIOUS
  <2>5. n = [m EXCEPT !.began = B] BY <1>1, <2>1, <2>4 DEF WithoutUnkept
  <2>6. n.began = B BY <2>1, <2>5 DEF WorkerRecord
  <2>7. \A u \in B : u \in users \/ \E i \in items : i.user = u /\ SavedUserMatchesRow(i, m.host)
    BY <2>1, <2>4 DEF StillKept
  <2>8. \A u : u \in ManagedUsers(m.host)' <=>
               \E i \in items : i.user = u /\ SavedUserMatchesRow(i, m.host)
    BY DEF ManagedUsers, SavedUserMatchesRow
  <2>9. n.began \subseteq keeps' \cup ManagedUsers(m.host)' BY <2>6, <2>7, <2>8
  <2> QED BY <2>1, <2>2, <2>3, <2>9, SparesStill
<1>2. CASE worker'[v].pc \notin RotatingPc BY <1>2 DEF Spares, RotatingPc, Dials
<1> QED BY <1>1, <1>2

(* Of the steps outside a rotation two take users from a list.             *)
LEMMA KeptRest ==
    ASSUME TInv, KeptInv, [Next]_vars, RotationsGoOn
    PROVE  KeptInv'
<1>1. ASSUME NEW u \in Keepable, DeleteKeepUser(u) PROVE KeptInv'
  <2>1. worker' = WithoutUnkept(keeps', saved') /\ saved' = saved BY <1>1 DEF DeleteKeepUser
  <2>2. PICK users, items : users = keeps' /\ items = saved' OBVIOUS
  <2> QED BY <2>1, <2>2, SparesTold
<1>2. ASSUME NEW r \in Request, EndSavedUser(r) PROVE KeptInv'
  <2>1. r \in Worker BY DEF Worker
  <2>2. PICK users, items : users = keeps' /\ items = saved' OBVIOUS
  <2>3. worker' = [WithoutUnkept(users, items) EXCEPT ![r] = Idle]
    BY <1>2, <2>2 DEF EndSavedUser
  <2>4. /\ worker'[r] = Idle
        /\ \A v \in Worker \ {r} : worker'[v] = WithoutUnkept(users, items)[v]
    BY <2>1, <2>3 DEF WithoutUnkept
  <2>5. Idle.pc = "idle" BY DEF Idle
  <2> QED BY <2>2, <2>4, <2>5, SparesTold DEF RotatingPc, Dials
<1>3. \/ \E u \in Keepable : DeleteKeepUser(u)
      \/ \E r \in Request : EndSavedUser(r)
      \/ keeps \subseteq keeps' /\ saved \subseteq saved'
  <2>1. ASSUME NEW w \in Worker, Run(w) PROVE UNCHANGED <<keeps, saved>>
    BY <2>1 DEF Run, GetPolicy, ResolveTargets, EnsurePolicyPasswords, SaveOutcome, BeginHost,
       ListProtectedKeepUsers, DiscoverExistingUsers, SendCommands, SaveConfirmedCredentials,
       UpdateAfterApply, ApplySavedUsers, MarkCredentialFailure, tables
  <2>2. ASSUME NEW r \in Request, Ask(r), ~EndSavedUser(r)
        PROVE  keeps' = keeps /\ saved \subseteq saved'
    BY <2>2 DEF Ask, CreatePolicy, ReadPolicy, WritePolicy, CountPolicies, ErasePolicy,
       CreateSavedUser, ReadSavedUser, GiveSavedUser, TakeSavedUser, tables
  <2>3. ASSUME NEW u \in Keepable, CreateKeepUser(u)
        PROVE  keeps \subseteq keeps' /\ saved' = saved
    BY <2>3 DEF CreateKeepUser
  <2>4. CASE (\E h \in Host : ChangeExclusions(h)) \/ RunDue \/ NoneDue \/ Midnight \/ Crash
             \/ UNCHANGED vars
    BY <2>4 DEF ChangeExclusions, RunDue, NoneDue, Midnight, Crash, vars, tables
  <2> QED BY <2>1, <2>2, <2>3, <2>4 DEF Next, AtRest
<1> QED BY <1>1, <1>2, <1>3, SparesMore

LEMMA KeptRotation ==
    ASSUME TInv, KeptInv, NEW w \in Worker, Rotation(w)
    PROVE  KeptInv'
<1> USE DEF RotatingPc, Dials
<1>1. UNCHANGED <<keeps, saved>> BY RotationOf DEF RunUntouched
<1>2. \A h : KeptNow(h)' = KeptNow(h)
  BY <1>1 DEF KeptNow, ManagedUsers, SavedUserMatchesRow
<1>3. PICK m \in WorkerRecord :
             /\ worker'[w] = m
             /\ \A v \in Worker \ {w} : SameButAlone(worker'[v], worker[v])
  BY RotationMoves
<1>4. ASSUME NEW v \in Worker, v # w PROVE Spares(worker[v])'
  BY <1>2, <1>3, <1>4 DEF KeptInv, Spares, SameButAlone
<1>5. Spares(worker[w]) BY DEF KeptInv
<1>6. worker'[w].pc \notin Dials \/ Spares(worker[w])'
  <2>1. CASE BeginHost(w)
    <3>1. PICK h \in Host, n \in WorkerRecord :
             \/ Begins(w, n, h) /\ worker'[w] = n
             \/ Skips(w, n, h) /\ worker' = [worker EXCEPT ![w] = n]
      BY <2>1, BeginHostStep
    <3>2. CASE Begins(w, n, h) /\ worker'[w] = n
      BY <1>2, <3>2 DEF Begins, Spares, KeptNow
    <3>3. CASE Skips(w, n, h) /\ worker' = [worker EXCEPT ![w] = n]
      BY <3>3 DEF Skips, TInv
    <3> QED BY <3>1, <3>2, <3>3
  <2>2. CASE ListProtectedKeepUsers(w) /\ ~GiveUp(w)
    <3>1. PICK n \in WorkerRecord : worker' = [worker EXCEPT ![w] = n] /\ Discovers(w, n)
      BY <2>2, ListProtectedKeepUsersStep
    <3>2. worker'[w] = n BY <3>1 DEF TInv
    <3>3. worker[w].pc = "admin" BY <2>2 DEF ListProtectedKeepUsers, At
    <3> QED BY <1>2, <1>5, <3>1, <3>2, <3>3 DEF Discovers, Spares, KeptNow, SameHost
  <2>3. CASE DiscoverExistingUsers(w)
    <3>1. PICK n \in WorkerRecord : /\ worker' = [worker EXCEPT ![w] = n]
                                    /\ Sends(w, n) \/ TriesNext(w, n)
      BY <2>3, DiscoverExistingUsersStep
    <3>2. worker'[w] = n BY <3>1 DEF TInv
    <3>3. worker[w].pc = "discover" BY <2>3 DEF DiscoverExistingUsers, At
    <3> QED BY <1>2, <1>5, <3>1, <3>2, <3>3 DEF Sends, TriesNext, Spares, SameHost
  <2>4. CASE SendCommands(w)
    <3>1. PICK n \in WorkerRecord : /\ worker' = [worker EXCEPT ![w] = n]
                                    /\ Commanded(w, n) \/ Broken(w, n) \/ Refused(w, n)
      BY <2>4, SendCommandsStep
    <3>2. worker'[w] = n BY <3>1 DEF TInv
    <3>3. worker[w].pc = "send" BY <2>4 DEF SendCommands, At
    <3>4. n.pc = "credentials" \/ TriesNext(w, n) BY <3>1 DEF Commanded, Broken, Refused
    <3> QED BY <1>2, <1>5, <3>2, <3>3, <3>4 DEF TriesNext, Spares, SameHost
  <2>5. CASE GiveUp(w) /\ ~BeginHost(w)
    <3>1. At(w) \in RotatingPc
      BY <2>5 DEF Rotation, ListProtectedKeepUsers, DiscoverExistingUsers, SendCommands,
         SaveConfirmedCredentials, UpdateAfterApply, ApplySavedUsers, MarkCredentialFailure
    <3> QED BY <2>5, <3>1, GiveUpStep DEF TInv
  <2>6. CASE SaveConfirmedCredentials(w)
    BY <2>6, SaveConfirmedCredentialsStep DEF GoesOn, TInv
  <2>7. CASE UpdateAfterApply(w)
    BY <2>7, UpdateAfterApplyStep DEF Recorded, Unrecorded, GoesOn, TInv
  <2>8. CASE ApplySavedUsers(w) BY <2>8, ApplySavedUsersStep DEF GoesOn, Manages, TInv
  <2>9. CASE MarkCredentialFailure(w) BY <2>9, MarkCredentialFailureStep DEF GoesOn, TInv
  <2> QED BY <2>1, <2>2, <2>3, <2>4, <2>5, <2>6, <2>7, <2>8, <2>9 DEF Rotation
<1>7. Spares(worker[w])' BY <1>6 DEF Spares
<1> QED BY <1>4, <1>7 DEF KeptInv

LEMMA KeptStep == TInv /\ KeptInv /\ [Next]_vars => KeptInv'
BY RotationOrNot, KeptRest, KeptRotation

LEMMA KeptInit == Init => KeptInv
<1>1. Idle.pc = "idle" BY DEF Idle
<1>2. Init => \A v \in Worker : worker[v] = Idle BY DEF Init
<1> QED BY <1>1, <1>2 DEF KeptInv, Spares, Dials

(* The steps that change a device.                                         *)
LEMMA DeviceSteps ==
    ASSUME TInv, [Next]_vars
    PROVE  \/ UNCHANGED dev
           \/ \E r \in Request : GiveSavedUser(r) \/ TakeSavedUser(r)
           \/ \E w \in Worker : SendCommands(w) \/ ApplySavedUsers(w)
<1>1. ASSUME NEW w \in Worker, Run(w) PROVE UNCHANGED dev \/ SendCommands(w) \/ ApplySavedUsers(w)
  BY <1>1 DEF Run, GetPolicy, ResolveTargets, EnsurePolicyPasswords, SaveOutcome, BeginHost,
     ListProtectedKeepUsers, DiscoverExistingUsers, SaveConfirmedCredentials,
     UpdateAfterApply, MarkCredentialFailure
<1>2. ASSUME NEW r \in Request, Ask(r) PROVE UNCHANGED dev \/ GiveSavedUser(r) \/ TakeSavedUser(r)
  BY <1>2 DEF Ask, CreatePolicy, ReadPolicy, WritePolicy, CountPolicies, ErasePolicy,
     CreateSavedUser, ReadSavedUser, EndSavedUser
<1>3. CASE \/ \E u \in Keepable : CreateKeepUser(u) \/ DeleteKeepUser(u)
           \/ \E h \in Host : ChangeExclusions(h)
           \/ RunDue \/ NoneDue \/ Midnight \/ Crash \/ UNCHANGED vars
  BY <1>3 DEF CreateKeepUser, DeleteKeepUser, ChangeExclusions, RunDue, NoneDue, Midnight, Crash,
     vars
<1> QED BY <1>1, <1>2, <1>3 DEF Next, AtRest

(* What the commands leave of the users w saw kept when it began.          *)
LEMMA CommandsSpare ==
    ASSUME TInv, KeptInv, NEW w \in Worker, SendCommands(w), NEW u \in worker[w].began,
           dev[worker[w].host][u] # None
    PROVE  dev'[worker[w].host][u] # None
<1>1. At(w) = "send" /\ At(w) \in RotatingPc BY DEF SendCommands, RotatingPc, Dials
<1>2. /\ worker[w] \in WorkerRecord /\ worker[w].host \in Host
      /\ worker[w].password \in Password
  BY <1>1, RotatingWorker
<1>3. u \in User BY <1>2 DEF WorkerRecord
<1>4. u \in worker[w].keep \cup worker[w].managed
  BY <1>1 DEF KeptInv, Spares, At
<1>5. u \notin Removed(w) BY <1>4 DEF Removed, ProtectedUsernames
<1>6. \/ dev' = dev
      \/ \E G \in {Given(w), Given(w) \cap {Fiberx}, {}} : dev' = AfterCommands(w, Removed(w), G)
  BY DEF SendCommands
<1>7. ASSUME NEW G, dev' = AfterCommands(w, Removed(w), G) PROVE dev'[worker[w].host][u] # None
  <2>1. PICK d : d = dev' OBVIOUS
  <2>2. d[worker[w].host][u] = IF u \in G THEN worker[w].password
                               ELSE IF u \in Removed(w) THEN None ELSE dev[worker[w].host][u]
    BY <1>1, <1>3, <1>7, <2>1, AfterCommandsOf
  <2> QED BY <1>2, <1>5, <2>1, <2>2, NoneApart
<1> QED BY <1>6, <1>7

Sparing ==
    \A w \in Worker : At(w) = "send" /\ worker'[w] # worker[w] =>
        \A u \in worker[w].began :
            dev[worker[w].host][u] # None => dev'[worker[w].host][u] # None

LEMMA SparingStep == TInv /\ KeptInv /\ [Next]_vars => [Sparing]_vars
<1> SUFFICES ASSUME TInv, KeptInv, [Next]_vars PROVE Sparing OBVIOUS
<1> SUFFICES ASSUME NEW w \in Worker, At(w) = "send", worker'[w] # worker[w],
                    NEW u \in worker[w].began, dev[worker[w].host][u] # None
             PROVE  dev'[worker[w].host][u] # None
  BY DEF Sparing
<1>1. CASE UNCHANGED dev BY <1>1
<1>2. ASSUME NEW r \in Request, GiveSavedUser(r) \/ TakeSavedUser(r)
      PROVE  dev'[worker[w].host][u] # None
  <2>1. r # w BY <1>2 DEF GiveSavedUser, TakeSavedUser, At
  <2>2. \E m : worker' = [worker EXCEPT ![r] = m] BY <1>2 DEF GiveSavedUser, TakeSavedUser, Step
  <2> QED BY <2>1, <2>2 DEF TInv
<1>3. ASSUME NEW v \in Worker, SendCommands(v) \/ ApplySavedUsers(v)
      PROVE  dev'[worker[w].host][u] # None
  <2>1. v = w
    <3>1. \E m : worker' = [worker EXCEPT ![v] = m]
      BY <1>3, SendCommandsStep, ApplySavedUsersStep
    <3> QED BY <3>1 DEF TInv
  <2>2. SendCommands(w) BY <1>3, <2>1 DEF ApplySavedUsers, At
  <2> QED BY <2>2, CommandsSpare
<1> QED BY <1>1, <1>2, <1>3, DeviceSteps

(* A rotation removes no user that was in the list of keep users, or of    *)
(* saved users for the host, when the rotation began and at every moment   *)
(* since, however many credentials it tries (ListProtectedKeepUsers and    *)
(* protectedUsernames of internal/nocpass).                                *)
THEOREM KeptUsersAreSpared == Spec => KeptUsersStay
<1>1. Spec => []KeptInv BY TInvAlways, KeptInit, KeptStep, PTL DEF Spec
<1>2. TInv /\ KeptInv /\ [Next]_vars => [Sparing]_vars BY SparingStep
<1>3. Spec => [][Sparing]_vars BY <1>1, <1>2, TInvAlways, PTL DEF Spec
<1> QED BY <1>3 DEF KeptUsersStay, Sparing

-----------------------------------------------------------------------------
(***************************************************************************)
(* NotLockedOut                                                            *)
(***************************************************************************)
LEMMA AdmitsStep ==
    ASSUME TInv, NotLockedOut, [Next]_vars
    PROVE  NotLockedOut'
<1> SUFFICES ASSUME NEW h \in Host, h \notin mixed' PROVE Admits(h)' BY DEF NotLockedOut
<1>1. PICK a \in Setup : dev[h][a] = Own BY MixedStep DEF NotLockedOut, Admits
<1>2. Setup \subseteq User /\ Setup \cap Rotated = {} BY NocPassAssumption
<1>3. CASE dev'[h][a] = dev[h][a] BY <1>1, <1>3 DEF Admits
<1>4. CASE UNCHANGED dev BY <1>3, <1>4
<1>5. ASSUME NEW r \in Request, GiveSavedUser(r) PROVE dev'[h][a] = dev[h][a]
  <2>1. r \in Worker BY DEF Worker
  <2>2. worker[r].hosts # {} /\ At(r) = "give" BY <1>5 DEF GiveSavedUser
  <2>3. worker[r].hosts \subseteq Host /\ worker[r].item \in SavedInputs
    BY <2>1, <2>2, Worked DEF WorkerRecord, InHand, At
  <2>4. worker[r].hosts \in SUBSET Nat BY <2>3, NocPassAssumption
  <2>5. PICK g \in Host : g = Earliest(worker[r].hosts) BY <2>2, <2>3, <2>4, EarliestOf
  <2>6. PICK u \in User : u = worker[r].item.user BY <2>3, NocPassAssumption
  <2>7. PICK ok \in BOOLEAN : GiveUser(g, u, ok) BY <1>5, <2>5, <2>6 DEF GiveSavedUser
  <2>8. u \in Setup => g \in mixed' BY <1>5, <2>5, <2>6 DEF GiveSavedUser, NoteMixed
  <2>9. h # g \/ u # a BY <2>8
  <2> QED BY <1>2, <2>7, <2>9, GiveUserTypes
<1>6. ASSUME NEW r \in Request, TakeSavedUser(r) PROVE dev'[h][a] = dev[h][a]
  <2>1. PICK g \in Host, u \in User : TakesFrom(g, u) BY <1>6, TakeUserTypes
  <2>2. h # g \/ u # a BY <2>1 DEF TakesFrom
  <2> QED BY <1>2, <2>1, <2>2 DEF TakesFrom
<1>7. ASSUME NEW w \in Worker, ApplySavedUsers(w) PROVE dev'[h][a] = dev[h][a]
  <2>1. At(w) \in RotatingPc BY <1>7 DEF ApplySavedUsers, RotatingPc
  <2>2. PICK g \in Host : g = worker[w].host BY <2>1, RotatingWorker
  <2>3. \/ UNCHANGED dev
        \/ \E u \in User, ok \in BOOLEAN :
              GiveUser(g, u, ok) /\ (u \in Setup => g \in mixed')
    BY <1>7, <2>2, ApplySavedUsersStep
  <2>4. CASE UNCHANGED dev BY <2>4
  <2>5. ASSUME NEW u \in User, NEW ok \in BOOLEAN, GiveUser(g, u, ok), u \in Setup => g \in mixed'
        PROVE  dev'[h][a] = dev[h][a]
    <3>1. h # g \/ u # a BY <2>5
    <3> QED BY <1>2, <2>5, <3>1, GiveUserTypes
  <2> QED BY <2>3, <2>4, <2>5
<1>8. ASSUME NEW w \in Worker, SendCommands(w), ~UNCHANGED dev PROVE Admits(h)'
  <2>1. At(w) = "send" /\ At(w) \in RotatingPc BY <1>8 DEF SendCommands, RotatingPc, Dials
  <2>2. /\ worker[w] \in WorkerRecord /\ InHand(worker[w])
        /\ worker[w].host \in Host /\ worker[w].password \in Password
    BY <2>1, RotatingWorker
  <2>3. PICK b : b = worker[w].admin OBVIOUS
  <2>4. b \in Setup BY <2>1, <2>2, <2>3 DEF InHand, WorkerRecord, At
  <2>5. LogsIn(w) BY <1>8 DEF SendCommands
  <2>6. PICK G : dev' = AfterCommands(w, Removed(w), G) /\ G \subseteq Rotated
    BY <1>8 DEF SendCommands, Given
  <2>7. b \notin Removed(w) BY <2>3 DEF Removed, ProtectedUsernames
  <2>8. PICK d : d = dev' OBVIOUS
  <2>9. /\ \A g \in Host : g # worker[w].host => d[g] = dev[g]
        /\ \A u \in User : d[worker[w].host][u] =
              IF u \in G THEN worker[w].password
              ELSE IF u \in Removed(w) THEN None ELSE dev[worker[w].host][u]
    BY <2>1, <2>6, <2>8, AfterCommandsOf
  <2>10. dev[worker[w].host][b] = Own BY <2>3, <2>5 DEF LogsIn
  <2>11. b \notin G BY <1>2, <2>4, <2>6
  <2>12. h = worker[w].host => d[h][b] = Own BY <1>2, <2>4, <2>7, <2>9, <2>10, <2>11
  <2>13. h # worker[w].host => d[h][a] = Own BY <1>1, <2>9
  <2> QED BY <2>4, <2>8, <2>12, <2>13 DEF Admits
<1> QED BY <1>3, <1>4, <1>5, <1>6, <1>7, <1>8, DeviceSteps

LEMMA AdmitsInit == ASSUME Setup \cap InitialUsers # {}, Init PROVE NotLockedOut
<1>1. PICK a \in Setup : a \in InitialUsers OBVIOUS
<1>2. a \in User /\ a \notin Rotated BY <1>1, NocPassAssumption
<1>3. \A h \in Host : dev[h][a] = Own BY <1>1, <1>2 DEF Init
<1> QED BY <1>1, <1>3 DEF NotLockedOut, Admits

(* However rotations with different setup users follow each other, overlap *)
(* or break, the commands never remove the last user that can log in: each *)
(* session spares the user it is logged in with (protectedUsernames).  Only*)
(* an administrator can lock the program out, by saving a user of that name *)
(* with another password, or deleting it again (CreateSavedUser and         *)
(* DeleteSavedUser of noc_pass_handler.go).                                 *)
THEOREM NobodyIsLockedOut ==
    ASSUME Setup \cap InitialUsers # {} PROVE Spec => []NotLockedOut
<1>1. Init => NotLockedOut BY AdmitsInit
<1>2. TInv /\ NotLockedOut /\ [Next]_vars => NotLockedOut' BY AdmitsStep
<1> QED BY <1>1, <1>2, TInvAlways, PTL DEF Spec

-----------------------------------------------------------------------------
(***************************************************************************)
(* PasswordOnRecord                                                        *)
(***************************************************************************)
(* In table t of passwords, on day d: a generated password has been issued,*)
(* that of a row for its policy on its date.                               *)
Known(x, t) == x \in Generated => x \in DOMAIN t

Dated(p, row, t, d) ==
    /\ Known(row.active, t) /\ row.date <= d
    /\ row.active \in DOMAIN t => t[row.active].policy = p /\ t[row.active].day = row.date

Past(x, t, d) == x \in DOMAIN t => t[x].day < d

Passes(m, t, d) ==
    /\ Known(m.password, t) /\ m.day <= d
    /\ m.password \in DOMAIN t => t[m.password].policy = m.policy
    /\ m.row # None => Dated(m.policy, m.row, t, d)

(* Row r of table tab has not been read before its password of the day was *)
(* stored, nor would the one in hand replace a password of today.          *)
UpToDate(m, r, t, d) ==
    /\ m.pc \in {"targets", "passwords"} => m.row.date <= m.day
    /\ m.pc = "save" => m.row.active = r.active \/ Past(r.active, t, d)

Out(g) == \/ \E h \in Host : \E u \in Rotated : dev[h][u] = g
          \/ \E w \in Worker : worker[w].password = g

OnRecord(g) ==
    issued[g].day = day /\ issued[g].policy \notin raced /\ Out(g)
        => policies[issued[g].policy].active = g

RecordInv ==
    /\ DOMAIN issued \subseteq Generated
    /\ \A g \in DOMAIN issued : issued[g].day <= day /\ policies[issued[g].policy] # None
    /\ \A p \in Policy : policies[p] # None => Dated(p, policies[p], issued, day)
    /\ \A w \in Worker :
          /\ Passes(worker[w], issued, day)
          /\ worker[w].row # None /\ worker[w].policy \notin raced
                => UpToDate(worker[w], policies[worker[w].policy], issued, day)
    /\ \A h \in Host : \A u \in Rotated : Known(dev[h][u], issued)
    /\ \A g \in DOMAIN issued : OnRecord(g)

Grows(t, t2) ==
    /\ DOMAIN t \subseteq DOMAIN t2 /\ DOMAIN t2 \subseteq Generated
    /\ \A g \in DOMAIN t : t2[g] = t[g]

LEMMA Dates ==
    /\ Day \subseteq Nat /\ NoDay \in Nat
    /\ \A row \in PolicyRow : row.date \in Nat
    /\ \A m \in WorkerRecord : m.day \in Nat
    /\ \A d \in Day : NoDay <= d
BY DEF Day, NoDay, PolicyRow, WorkerRecord

LEMMA KnownStill == ASSUME NEW t, NEW t2, Grows(t, t2), NEW x, Known(x, t) PROVE Known(x, t2)
BY DEF Grows, Known

LEMMA DatedStill ==
    ASSUME NEW t, NEW t2, Grows(t, t2), NEW d \in Nat, NEW e \in Nat, d <= e,
           NEW p, NEW row \in PolicyRow, Dated(p, row, t, d)
    PROVE  Dated(p, row, t2, e)
<1>1. row.date \in Nat BY Dates
<1>2. row.active \in DOMAIN t2 => row.active \in DOMAIN t BY DEF Grows, Known, Dated
<1>3. row.active \in DOMAIN t => t2[row.active] = t[row.active] BY DEF Grows
<1> QED BY <1>1, <1>2, <1>3, KnownStill DEF Dated

LEMMA PassesStill ==
    ASSUME NEW t, NEW t2, Grows(t, t2), NEW d \in Nat, NEW e \in Nat, d <= e,
           NEW m \in WorkerRecord, Passes(m, t, d)
    PROVE  Passes(m, t2, e)
<1>1. m.day \in Nat BY Dates
<1>2. m.password \in DOMAIN t2 => m.password \in DOMAIN t BY DEF Grows, Known, Passes
<1>3. m.password \in DOMAIN t => t2[m.password] = t[m.password] BY DEF Grows
<1>4. m.row # None => m.row \in PolicyRow BY DEF WorkerRecord
<1>5. m.row # None => Dated(m.policy, m.row, t2, e) BY <1>4, DatedStill DEF Passes
<1> QED BY <1>1, <1>2, <1>3, <1>5, KnownStill DEF Passes

(* What is past stays past, and a password that has not been issued is.    *)
LEMMA PastStill ==
    ASSUME NEW t, NEW t2, Grows(t, t2), NEW d \in Nat, NEW e \in Nat, d <= e,
           \A g \in DOMAIN t : t[g].day \in Nat, NEW x, Known(x, t), Past(x, t, d)
    PROVE  Past(x, t2, e)
<1>1. x \in DOMAIN t2 => x \in DOMAIN t BY DEF Grows, Known
<1>2. x \in DOMAIN t => t2[x] = t[x] /\ t[x].day \in Nat BY DEF Grows
<1> QED BY <1>1, <1>2 DEF Past

LEMMA UpToDateStill ==
    ASSUME NEW t, NEW t2, Grows(t, t2), NEW d \in Nat, NEW e \in Nat, d <= e,
           \A g \in DOMAIN t : t[g].day \in Nat,
           NEW m, NEW r, NEW r2, r2.active = r.active, Known(r.active, t), UpToDate(m, r, t, d)
    PROVE  UpToDate(m, r2, t2, e)
BY PastStill DEF UpToDate

LEMMA Issues ==
    ASSUME TInv
    PROVE  /\ \A g \in DOMAIN issued : issued[g].policy \in Policy /\ issued[g].day \in Day
           /\ DOMAIN issued = 1 .. Len(issued) /\ Len(issued) \in Nat
           /\ day \in Day /\ day \in Nat
<1>1. issued \in Seq([policy: Policy, day: Day]) /\ day \in Day BY DEF TInv, BasicTypes
<1>2. DOMAIN issued = 1 .. Len(issued) /\ Len(issued) \in Nat BY <1>1, LenProperties
<1>3. \A g \in DOMAIN issued : issued[g] \in [policy: Policy, day: Day]
  <2> DEFINE Item == [policy: Policy, day: Day]
  <2>1. issued \in Seq(Item) BY <1>1
  <2> HIDE DEF Item
  <2>2. \A g \in 1 .. Len(issued) : issued[g] \in Item BY <2>1, ElementOfSeq
  <2> QED BY <1>2, <2>2 DEF Item
<1> QED BY <1>1, <1>2, <1>3, Dates

(* What a step of goroutine w may do to the record: m is what it has in    *)
(* hand next.                                                              *)
Recording(w, m) ==
    /\ worker' = [worker EXCEPT ![w] = m] /\ m \in WorkerRecord
    /\ UNCHANGED <<dev, day>> /\ raced \subseteq raced' /\ Grows(issued, issued')
    /\ Passes(m, issued', day)
    /\ m.row # None /\ m.policy \notin raced' => UpToDate(m, policies'[m.policy], issued', day)
    /\ \A q \in Policy : policies[q] # None => policies'[q] # None
    /\ \A q \in Policy : policies'[q] # None => Dated(q, policies'[q], issued', day)
    /\ \A q \in Policy \ raced' : policies[q] # None =>
          \/ policies'[q].active = policies[q].active
          \/ Past(policies[q].active, issued, day) /\ ~HeldByOther(w, q)
    /\ \A g \in DOMAIN issued' \ DOMAIN issued :
          issued'[g].day <= day /\ policies'[issued'[g].policy] # None
    /\ m.password \in DOMAIN issued' =>
          LET i == issued'[m.password] IN
          i.day = day /\ i.policy \notin raced' => policies'[i.policy].active = m.password

LEMMA RecordByOne ==
    ASSUME TInv, RecordInv, NEW w \in Worker, NEW m, Recording(w, m)
    PROVE  RecordInv'
<1>1. /\ \A g \in DOMAIN issued : issued[g].policy \in Policy /\ issued[g].day \in Day
      /\ \A g \in DOMAIN issued : issued[g].day \in Nat
      /\ day \in Nat /\ day <= day
  <2>1. Day \subseteq Nat BY DEF Day
  <2>2. /\ \A g \in DOMAIN issued : issued[g].policy \in Policy /\ issued[g].day \in Day
        /\ day \in Nat
    BY Issues
  <2>3. day <= day BY <2>2
  <2>4. \A g \in DOMAIN issued : issued[g].day \in Nat BY <2>1, <2>2
  <2> QED BY <2>2, <2>3, <2>4
<1>2. worker'[w] = m /\ \A v \in Worker \ {w} : worker'[v] = worker[v] BY DEF TInv, Recording
<1>3. PICK t : t = issued' OBVIOUS
<1>4. PICK d \in Nat : d = day BY <1>1
<1>5. Grows(issued, t) /\ UNCHANGED <<dev, day>> BY <1>3 DEF Recording
<1>6. DOMAIN t \subseteq Generated BY <1>5 DEF Grows
<1>7. ASSUME NEW g \in DOMAIN t
      PROVE  t[g].day <= day /\ policies'[t[g].policy] # None
  <2>1. CASE g \in DOMAIN issued
    BY <1>1, <1>5, <2>1 DEF Grows, RecordInv, Recording
  <2>2. CASE g \notin DOMAIN issued BY <1>3, <2>2 DEF Recording
  <2> QED BY <2>1, <2>2
<1>8. ASSUME NEW v \in Worker
      PROVE  /\ Passes(worker'[v], t, day)
             /\ worker'[v].row # None /\ worker'[v].policy \notin raced'
                   => UpToDate(worker'[v], policies'[worker'[v].policy], t, day)
  <2>1. CASE v = w BY <1>2, <1>3, <2>1 DEF Recording
  <2>2. CASE v # w
    <3>1. PICK me \in WorkerRecord : me = worker[v] /\ worker'[v] = me BY <1>2, <2>2, Worked
    <3>2. Passes(me, issued, d) BY <1>4, <3>1 DEF RecordInv
    <3>3. Passes(me, t, d) BY <1>5, <3>2, PassesStill
    <3>4. ASSUME me.row # None, me.policy \notin raced'
          PROVE  UpToDate(me, policies'[me.policy], t, d)
      <4>1. PICK q \in Policy : q = me.policy BY <3>1, <3>4, HeldPolicy
      <4>2. policies[q] # None BY <3>1, <4>1, Worked DEF Refers
      <4>3. HeldByOther(w, q) BY <2>2, <3>1, <3>4, <4>1 DEF HeldByOther, Holds
      <4>4. policies'[q].active = policies[q].active BY <3>4, <4>1, <4>2, <4>3 DEF Recording
      <4>5. me.policy \notin raced BY <3>4 DEF Recording
      <4>6. UpToDate(me, policies[q], issued, d) BY <1>4, <3>1, <3>4, <4>1, <4>5 DEF RecordInv
      <4>7. Known(policies[q].active, issued) BY <4>2 DEF RecordInv, Dated
      <4>8. PICK r, r2 : r = policies[q] /\ r2 = policies'[q] OBVIOUS
      <4>9. UpToDate(me, r2, t, d) BY <1>1, <1>5, <4>4, <4>6, <4>7, <4>8, UpToDateStill
      <4> QED BY <4>1, <4>8, <4>9
    <3> QED BY <1>4, <3>1, <3>3, <3>4
  <2> QED BY <2>1, <2>2
<1>9. \A h \in Host : \A u \in Rotated : Known(dev[h][u], t) BY <1>5, KnownStill DEF RecordInv
<1>10. ASSUME NEW g \in DOMAIN t, t[g].day = day, t[g].policy \notin raced', Out(g)'
       PROVE  policies'[t[g].policy].active = g
  <2>1. CASE m.password = g BY <1>3, <1>10, <2>1 DEF Recording
  <2>2. CASE m.password # g
    <3>1. Out(g)
      BY <1>2, <1>5, <1>10, <2>2 DEF Out
    <3>2. g \in Generated BY <1>6
    <3>3. g \in DOMAIN issued BY <3>1, <3>2 DEF Out, RecordInv, Passes, Known
    <3>4. t[g] = issued[g] BY <1>5, <3>3 DEF Grows
    <3>5. PICK q \in Policy : q = issued[g].policy BY <1>1, <3>3
    <3>6. q \notin raced /\ policies[q] # None BY <1>10, <3>3, <3>4, <3>5 DEF Recording, RecordInv
    <3>7. policies[q].active = g
      BY <1>10, <3>1, <3>3, <3>4, <3>5, <3>6 DEF RecordInv, OnRecord
    <3>8. ~Past(g, issued, day) BY <1>1, <1>10, <3>3, <3>4 DEF Past
    <3>9. policies'[q].active = g
      BY <1>10, <3>4, <3>5, <3>6, <3>7, <3>8 DEF Recording
    <3> QED BY <3>4, <3>5, <3>9
  <2> QED BY <2>1, <2>2
<1>11. \A g \in DOMAIN issued' : OnRecord(g)' BY <1>3, <1>5, <1>10 DEF OnRecord
<1>12. \A p \in Policy : policies'[p] # None => Dated(p, policies'[p], issued', day)
  BY DEF Recording
<1> QED BY <1>3, <1>5, <1>6, <1>7, <1>8, <1>9, <1>11, <1>12 DEF RecordInv

(* A step of the runs already begun, of a request that has nothing to do   *)
(* with policies, or of the clock.  What a device newly has is the password*)
(* in the hands of a rotation.                                             *)
DevicesFollow ==
    \A h \in Host : \A u \in User :
        \/ dev'[h][u] \in {dev[h][u], Typed, None}
        \/ \E w \in Worker : dev'[h][u] = worker[w].password

LEMMA DevicesStep == ASSUME TInv, [Next]_vars PROVE DevicesFollow
<1>1. CASE UNCHANGED dev BY <1>1 DEF DevicesFollow
<1>2. ASSUME NEW r \in Request, TakeSavedUser(r) PROVE DevicesFollow
  <2>1. \A g \in Host : \A v \in User : dev'[g][v] \in {dev[g][v], None} BY <1>2, TakeUserTypes
  <2> QED BY <2>1 DEF DevicesFollow
<1>3. ASSUME NEW r \in Request, GiveSavedUser(r) PROVE DevicesFollow
  <2>1. r \in Worker BY DEF Worker
  <2>2. worker[r].hosts # {} /\ At(r) = "give" BY <1>3 DEF GiveSavedUser
  <2>3. worker[r].hosts \subseteq Host /\ worker[r].item \in SavedInputs
    BY <2>1, <2>2, Worked DEF WorkerRecord, InHand, At
  <2>4. worker[r].hosts \in SUBSET Nat BY <2>3, NocPassAssumption
  <2>5. PICK g \in Host : g = Earliest(worker[r].hosts) BY <2>2, <2>3, <2>4, EarliestOf
  <2>6. PICK u \in User : u = worker[r].item.user BY <2>3, NocPassAssumption
  <2>7. PICK ok \in BOOLEAN : GiveUser(g, u, ok) BY <1>3, <2>5, <2>6 DEF GiveSavedUser
  <2> QED BY <2>7, GiveUserTypes DEF DevicesFollow
<1>4. ASSUME NEW w \in Worker, ApplySavedUsers(w) PROVE DevicesFollow
  <2>1. At(w) \in RotatingPc BY <1>4 DEF ApplySavedUsers, RotatingPc
  <2>2. PICK g \in Host : g = worker[w].host BY <2>1, RotatingWorker
  <2>3. \/ UNCHANGED dev
        \/ \E u \in User, ok \in BOOLEAN : GiveUser(g, u, ok)
    BY <1>4, <2>2, ApplySavedUsersStep
  <2> QED BY <1>1, <2>3, GiveUserTypes DEF DevicesFollow
<1>5. ASSUME NEW w \in Worker, SendCommands(w), ~UNCHANGED dev PROVE DevicesFollow
  <2>1. At(w) \in RotatingPc BY <1>5 DEF SendCommands, RotatingPc, Dials
  <2>2. PICK G : dev' = AfterCommands(w, Removed(w), G) BY <1>5 DEF SendCommands
  <2>3. PICK d, R : d = dev' /\ R = Removed(w) OBVIOUS
  <2>4. d = AfterCommands(w, R, G) BY <2>2, <2>3
  <2>5. /\ \A g \in Host : g # worker[w].host => d[g] = dev[g]
        /\ \A u \in User : d[worker[w].host][u] =
              IF u \in G THEN worker[w].password
              ELSE IF u \in R THEN None ELSE dev[worker[w].host][u]
    BY <2>1, <2>4, AfterCommandsOf
  <2>6. ASSUME NEW g \in Host, NEW u \in User
        PROVE  d[g][u] \in {dev[g][u], None} \/ d[g][u] = worker[w].password
    BY <2>5
  <2> QED BY <2>3, <2>6 DEF DevicesFollow
<1> QED BY <1>1, <1>2, <1>3, <1>4, <1>5, DeviceSteps

LEMMA DayStep == ASSUME TInv, [Next]_vars PROVE day' = day \/ day' = day + 1
<1>1. ASSUME NEW w \in Worker, Run(w) PROVE UNCHANGED day
  BY <1>1 DEF Run, GetPolicy, ResolveTargets, EnsurePolicyPasswords, SaveOutcome, BeginHost,
     ListProtectedKeepUsers, DiscoverExistingUsers, SendCommands, SaveConfirmedCredentials,
     UpdateAfterApply, ApplySavedUsers, MarkCredentialFailure
<1>2. ASSUME NEW r \in Request, Ask(r) PROVE UNCHANGED day
  BY <1>2 DEF Ask, CreatePolicy, ReadPolicy, WritePolicy, CountPolicies, ErasePolicy,
     CreateSavedUser, ReadSavedUser, GiveSavedUser, TakeSavedUser, EndSavedUser
<1>3. CASE \/ \E u \in Keepable : CreateKeepUser(u) \/ DeleteKeepUser(u)
           \/ \E h \in Host : ChangeExclusions(h)
           \/ RunDue \/ NoneDue \/ Midnight \/ Crash \/ UNCHANGED vars
  BY <1>3 DEF CreateKeepUser, DeleteKeepUser, ChangeExclusions, RunDue, NoneDue, Midnight, Crash,
     vars
<1> QED BY <1>1, <1>2, <1>3 DEF Next, AtRest

LEMMA RecordGoesOn ==
    ASSUME TInv, RecordInv, RunsGoOn, DevicesFollow, day' = day \/ day' = day + 1
    PROVE  RecordInv'
<1>1. /\ \A g \in DOMAIN issued : issued[g].policy \in Policy /\ issued[g].day \in Day
      /\ \A g \in DOMAIN issued : issued[g].day \in Nat
      /\ day \in Nat
  <2>1. Day \subseteq Nat BY DEF Day
  <2> QED BY <2>1, Issues
<1>2. UNCHANGED <<policies, raced, issued>> BY DEF RunsGoOn
<1>3. PICK d \in Nat, e \in Nat : d = day /\ e = day' BY <1>1
<1>4. d <= e BY <1>3
<1>5. Grows(issued, issued) BY DEF Grows, RecordInv
<1>6. ASSUME NEW v \in Worker
      PROVE  /\ Passes(worker'[v], issued, e)
             /\ worker'[v].row # None /\ worker'[v].policy \notin raced
                   => UpToDate(worker'[v], policies[worker'[v].policy], issued, e)
             /\ worker'[v].password \in {worker[v].password, None}
  <2>1. PICK me \in WorkerRecord : me = worker[v] BY Worked
  <2>2. PICK n : n = worker'[v] OBVIOUS
  <2>3. Passes(me, issued, d) BY <1>3, <2>1 DEF RecordInv
  <2>4. Passes(me, issued, e) BY <1>4, <1>5, <2>3, PassesStill
  <2>5. CASE Fresh(v, n)
    <3>1. n.row = None /\ n.password = None /\ n.day \in {NoDay, me.day} BY <2>1, <2>5 DEF Fresh
    <3>2. n.day <= e BY <2>4, <3>1 DEF Passes, NoDay
    <3>3. None \notin DOMAIN issued /\ None \notin Generated BY NoneApart DEF RecordInv
    <3> QED BY <2>2, <3>1, <3>2, <3>3 DEF Passes, Known
  <2>6. CASE Onward(n, me)
    <3>1. Passes(n, issued, e) BY <2>4, <2>6 DEF Onward, SameRun, Passes
    <3>2. ASSUME n.row # None, n.policy \notin raced
          PROVE  UpToDate(n, policies[n.policy], issued, e)
      <4>1. me.row # None /\ me.policy = n.policy BY <2>6, <3>2 DEF Onward, SameRun
      <4>2. PICK q \in Policy : q = me.policy BY <2>1, <4>1, HeldPolicy
      <4>3. policies[q] # None BY <2>1, <4>2, Worked DEF Refers
      <4>4. UpToDate(me, policies[q], issued, d) BY <1>3, <2>1, <3>2, <4>1, <4>2 DEF RecordInv
      <4>5. Known(policies[q].active, issued) BY <4>3 DEF RecordInv, Dated
      <4>6. UpToDate(me, policies[q], issued, e) BY <1>1, <1>4, <1>5, <4>4, <4>5, UpToDateStill
      <4> QED BY <2>6, <4>1, <4>2, <4>6 DEF UpToDate, Onward, SameRun, RotatingPc, Dials
    <3> QED BY <2>1, <2>2, <2>6, <3>1, <3>2 DEF Onward, SameRun
  <2> QED BY <2>1, <2>2, <2>5, <2>6 DEF RunsGoOn
<1>7. ASSUME NEW p \in Policy, policies[p] # None PROVE Dated(p, policies[p], issued, e)
  <2>1. PICK r \in PolicyRow : r = policies[p] BY <1>7 DEF TInv, BasicTypes
  <2>2. Dated(p, r, issued, d) BY <1>3, <1>7, <2>1 DEF RecordInv
  <2> QED BY <1>4, <1>5, <2>1, <2>2, DatedStill
<1>8. None \notin Generated /\ Typed \notin Generated BY NoneApart, NocPassAssumption
<1>9. ASSUME NEW x, x \in Generated,
             \/ \E h \in Host : \E u \in Rotated : dev'[h][u] = x
             \/ \E w \in Worker : worker'[w].password = x
      PROVE  Out(x)
  <2>1. Rotated \subseteq User BY NocPassAssumption
  <2>2. CASE \E w \in Worker : worker'[w].password = x BY <1>6, <1>8, <1>9, <2>2 DEF Out
  <2>3. CASE \E h \in Host : \E u \in Rotated : dev'[h][u] = x
    <3>1. PICK h \in Host, u \in Rotated : dev'[h][u] = x BY <2>3
    <3>2. u \in User BY <2>1
    <3>3. dev[h][u] = x \/ \E w \in Worker : worker[w].password = x
      BY <1>8, <1>9, <3>1, <3>2 DEF DevicesFollow
    <3> QED BY <3>3 DEF Out
  <2> QED BY <1>9, <2>2, <2>3
<1>10. \A x \in Generated : Out(x) => x \in DOMAIN issued
  BY DEF Out, RecordInv, Passes, Known
<1>11. \A h \in Host : \A u \in Rotated : Known(dev'[h][u], issued)
  BY <1>9, <1>10 DEF Known
<1>12. ASSUME NEW g \in DOMAIN issued, issued[g].day = e, issued[g].policy \notin raced, Out(g)'
       PROVE  policies[issued[g].policy].active = g
  <2>1. issued[g].day <= d BY <1>3 DEF RecordInv
  <2>2. e = d BY <1>1, <1>4, <1>12, <2>1
  <2>3. g \in Generated BY DEF RecordInv
  <2>4. Out(g) BY <1>9, <1>12, <2>3 DEF Out
  <2> QED BY <1>3, <1>12, <2>2, <2>4 DEF RecordInv, OnRecord
<1>13. \A g \in DOMAIN issued : OnRecord(g)' BY <1>2, <1>3, <1>12 DEF OnRecord
<1>14. \A g \in DOMAIN issued : issued[g].day <= e /\ policies[issued[g].policy] # None
  BY <1>1, <1>3, <1>4 DEF RecordInv
<1>15. DOMAIN issued \subseteq Generated BY DEF RecordInv
<1> QED BY <1>2, <1>3, <1>6, <1>7, <1>11, <1>13, <1>14, <1>15 DEF RecordInv

(* A step that makes rows nobody asked for, or none, and issues nothing.   *)
DefaultsMade ==
    \A q \in Policy : \/ policies'[q] = policies[q]
                      \/ policies[q] = None /\ policies'[q] = DefaultPolicy

LEMMA SeedDefaults == ASSUME TInv, policies' = Seeded PROVE DefaultsMade
<1>1. GoodTable(policies) BY DEF TInv
<1> QED BY <1>1, SeededTable DEF DefaultsMade

LEMMA DefaultDated == ASSUME TInv, RecordInv, NEW q PROVE Dated(q, DefaultPolicy, issued, day)
<1>1. day \in Nat BY Issues
<1>2. None \notin Generated /\ None \notin DOMAIN issued BY NoneApart DEF RecordInv
<1> QED BY <1>1, <1>2 DEF Dated, Known, DefaultPolicy, NoDay

LEMMA SameGrows == ASSUME RecordInv PROVE Grows(issued, issued)
BY DEF RecordInv, Grows

LEMMA RecordByDefaults ==
    ASSUME TInv, RecordInv, NEW w \in Worker, NEW m \in WorkerRecord,
           worker' = [worker EXCEPT ![w] = m], UNCHANGED <<dev, day, issued>>,
           raced \subseteq raced', DefaultsMade, Passes(m, issued, day),
           m.password \in {worker[w].password, None},
           m.row # None /\ m.policy \notin raced' =>
              UpToDate(m, policies'[m.policy], issued, day)
    PROVE  RecordInv'
<1>1. \A q \in Policy : policies[q] # None => policies'[q] = policies[q] BY DEF DefaultsMade
<1>2. \A q \in Policy : policies'[q] # None => Dated(q, policies'[q], issued, day)
  BY DefaultDated DEF DefaultsMade, RecordInv
<1>3. ASSUME m.password \in DOMAIN issued, issued[m.password].day = day,
             issued[m.password].policy \notin raced'
      PROVE  policies'[issued[m.password].policy].active = m.password
  <2>1. m.password = worker[w].password BY <1>3, NoneApart DEF RecordInv
  <2>2. Out(m.password) BY <2>1 DEF Out
  <2>3. PICK q \in Policy : q = issued[m.password].policy BY <1>3, Issues
  <2>4. policies[q] # None /\ policies[q].active = m.password
    BY <1>3, <2>2, <2>3 DEF RecordInv, OnRecord
  <2> QED BY <1>1, <2>3, <2>4
<1>4. Recording(w, m) BY <1>1, <1>2, <1>3, SameGrows, NoneApart DEF Recording
<1> QED BY <1>4, RecordByOne

(* A step that writes the row of policy p.                                 *)
LEMMA RecordByRow ==
    ASSUME TInv, RecordInv, NEW w \in Worker, NEW m \in WorkerRecord,
           worker' = [worker EXCEPT ![w] = m], UNCHANGED <<dev, day>>,
           raced \subseteq raced', Grows(issued, issued'), Passes(m, issued', day),
           NEW p \in Policy, NEW row \in PolicyRow, policies[p] # None,
           policies' = [policies EXCEPT ![p] = row], Dated(p, row, issued', day),
           m.row # None /\ m.policy \notin raced' =>
              UpToDate(m, policies'[m.policy], issued', day),
           p \notin raced' => \/ row.active = policies[p].active
                              \/ Past(policies[p].active, issued, day) /\ ~HeldByOther(w, p),
           \A g \in DOMAIN issued' \ DOMAIN issued : issued'[g].day <= day /\ issued'[g].policy = p,
           \/ m.password = None
           \/ m.password = row.active
              /\ (m.password \in DOMAIN issued' => issued'[m.password].policy = p)
    PROVE  RecordInv'
<1>1. policies'[p] = row /\ \A q \in Policy \ {p} : policies'[q] = policies[q]
  BY DEF TInv, BasicTypes
<1>2. row # None BY NoneApart
<1>3. \A q \in Policy : policies[q] # None => policies'[q] # None BY <1>1, <1>2
<1>4. \A q \in Policy : policies'[q] # None => Dated(q, policies'[q], issued', day)
  <2> SUFFICES ASSUME NEW q \in Policy, q # p, policies[q] # None
               PROVE  Dated(q, policies[q], issued', day)
    BY <1>1
  <2>1. PICK r \in PolicyRow : r = policies[q] BY DEF TInv, BasicTypes
  <2>2. PICK d, t : d \in Nat /\ d = day /\ t = issued' BY Issues
  <2>3. Dated(q, r, issued, d) BY <2>1, <2>2 DEF RecordInv
  <2>4. d <= d BY <2>2
  <2>5. Dated(q, r, t, d) BY <2>2, <2>3, <2>4, DatedStill
  <2> QED BY <2>1, <2>2, <2>5
<1>5. \A q \in Policy \ raced' : policies[q] # None =>
          \/ policies'[q].active = policies[q].active
          \/ Past(policies[q].active, issued, day) /\ ~HeldByOther(w, q)
  BY <1>1
<1>6. m.password \in DOMAIN issued' =>
          LET i == issued'[m.password] IN
          i.day = day /\ i.policy \notin raced' => policies'[i.policy].active = m.password
  <2>1. None \notin DOMAIN issued' BY NoneApart DEF Grows
  <2> QED BY <1>1, <2>1
<1>7. \A g \in DOMAIN issued' \ DOMAIN issued :
          issued'[g].day <= day /\ policies'[issued'[g].policy] # None
  BY <1>1, <1>2
<1>8. Recording(w, m) BY <1>3, <1>4, <1>5, <1>6, <1>7 DEF Recording
<1> QED BY <1>8, RecordByOne

LEMMA FreshPasses ==
    ASSUME TInv, RecordInv, NEW w \in Worker, NEW m, m.row = None, m.password = None,
           m.day = NoDay \/ m.day = worker[w].day
    PROVE  Passes(m, issued, day) /\ (Grows(issued, issued') => Passes(m, issued', day))
<1>1. day \in Nat BY Issues
<1>2. worker[w].day <= day BY DEF RecordInv, Passes
<1>3. m.day <= day BY <1>1, <1>2 DEF NoDay
<1>4. None \notin Generated BY NoneApart
<1> QED BY <1>3, <1>4 DEF Passes, Known, Grows, RecordInv

LEMMA CreatePolicyRecords ==
    ASSUME TInv, EditInv, RecordInv, NEW r \in Request, CreatePolicy(r) PROVE RecordInv'
<1>1. r \in Worker BY DEF Worker
<1>2. UNCHANGED <<worker, raced, dev, day, issued>> /\ At(r) = "idle" BY DEF CreatePolicy
<1>3. PICK m \in WorkerRecord : m = worker[r] /\ m.row = None
  BY <1>1, <1>2, Worked DEF InHand, At, RunPc, RotatingPc, Dials
<1>4. worker' = [worker EXCEPT ![r] = m] BY <1>1, <1>2, <1>3 DEF TInv
<1>5. DefaultsMade
  <2>1. PICK p \in Policy : /\ policies[p] = None
                            /\ policies' = [policies EXCEPT ![p] = DefaultPolicy]
    BY DEF CreatePolicy
  <2> QED BY <2>1 DEF DefaultsMade, TInv, BasicTypes
<1>6. Passes(m, issued, day) BY <1>1, <1>3 DEF RecordInv
<1> QED BY <1>1, <1>2, <1>3, <1>4, <1>5, <1>6, RecordByDefaults

LEMMA ReadPolicyRecords ==
    ASSUME TInv, EditInv, RecordInv, NEW r \in Request, ReadPolicy(r) PROVE RecordInv'
<1>1. r \in Worker BY DEF Worker
<1>2. PICK p \in LivePolicies : \E e \in Edits(policies[p]) :
          /\ Step(r, [Idle EXCEPT !.pc = "write", !.policy = p, !.row = e]) /\ NoteRace(r, p)
  BY DEF ReadPolicy
<1>3. PICK row \in Edits(policies[p]) :
          /\ Step(r, [Idle EXCEPT !.pc = "write", !.policy = p, !.row = row]) /\ NoteRace(r, p)
  BY <1>2
<1>4. p \in Policy /\ policies[p] # None /\ policies[p] \in PolicyRow /\ HasManual(policies[p])
  BY DEF LivePolicies, Live, TInv, GoodTable
<1>5. row \in PolicyRow /\ row.active = policies[p].active /\ row.date = policies[p].date
  BY <1>4, EditsOf
<1>6. PICK m : m = [Idle EXCEPT !.pc = "write", !.policy = p, !.row = row] OBVIOUS
<1>7. worker' = [worker EXCEPT ![r] = m] BY <1>3, <1>6 DEF Step
<1>8. /\ m.pc = "write" /\ m.policy = p /\ m.row = row /\ m.password = None /\ m.day = NoDay
      /\ m \in WorkerRecord
  BY <1>4, <1>5, <1>6, IdleWorker, ZenonT(120) DEF Idle, WorkerRecord, Pc
<1>9. UNCHANGED <<policies, dev, day, issued>> /\ raced \subseteq raced'
  BY <1>3 DEF ReadPolicy, tables, NoteRace
<1>10. DefaultsMade BY <1>9 DEF DefaultsMade
<1>11. Passes(m, issued, day)
  <2>1. Dated(p, row, issued, day) BY <1>4, <1>5 DEF RecordInv, Dated
  <2>2. day \in Nat /\ None \notin Generated BY NoneApart, Issues
  <2> QED BY <1>8, <2>1, <2>2 DEF Passes, Known, RecordInv, NoDay
<1>12. UpToDate(m, policies'[m.policy], issued, day) BY <1>8 DEF UpToDate
<1> QED BY <1>1, <1>7, <1>8, <1>9, <1>10, <1>11, <1>12, RecordByDefaults

LEMMA WritePolicyRecords ==
    ASSUME TInv, EditInv, RecordInv, NEW r \in Request, WritePolicy(r) PROVE RecordInv'
<1>1. r \in Worker BY DEF Worker
<1>2. PICK p, row : p = worker[r].policy /\ row = worker[r].row OBVIOUS
<1>3. PICK m : m = Idle OBVIOUS
<1>4. At(r) = "write" /\ worker' = [worker EXCEPT ![r] = m] BY <1>3 DEF WritePolicy, Step
<1>5. p \in Policy /\ row \in PolicyRow /\ row # None /\ policies[p] # None
  BY <1>1, <1>2, <1>4, Worked DEF At, InHand, Refers, WorkerRecord
<1>6. m \in WorkerRecord /\ m.row = None /\ m.password = None /\ m.day = NoDay
  BY <1>3, IdleWorker DEF Idle
<1>7. UNCHANGED <<dev, day, issued>> BY DEF WritePolicy
<1>8. Grows(issued, issued') /\ Passes(m, issued', day)
  BY <1>1, <1>6, <1>7, SameGrows, FreshPasses
<1>9. CASE UNCHANGED <<policies, raced>>
  <2>1. DefaultsMade BY <1>9 DEF DefaultsMade
  <2> QED BY <1>1, <1>4, <1>6, <1>7, <1>8, <1>9, <2>1, RecordByDefaults
<1>10. CASE policies' = [policies EXCEPT ![p] = row] /\ NoteRace(r, p)
  <2>1. raced \subseteq raced' BY <1>10 DEF NoteRace
  <2>2. Dated(p, row, issued', day) BY <1>1, <1>2, <1>5, <1>7 DEF RecordInv, Passes
  <2>3. p \notin raced' => row.active = policies[p].active
    BY <1>1, <1>2, <1>4, <1>5, <2>1 DEF EditInv, RowAsStored, Stored, At
  <2> QED BY <1>1, <1>4, <1>5, <1>6, <1>7, <1>8, <1>10, <2>1, <2>2, <2>3, RecordByRow
<1> QED BY <1>2, <1>9, <1>10 DEF WritePolicy

LEMMA CountPoliciesRecords ==
    ASSUME TInv, EditInv, RecordInv, NEW r \in Request, CountPolicies(r) PROVE RecordInv'
<1>1. r \in Worker BY DEF Worker
<1>2. PICK p \in Policy :
         worker' = [worker EXCEPT ![r] = [Idle EXCEPT !.pc = "erase", !.policy = p]]
  BY DEF CountPolicies, Step
<1>3. PICK m : m = [Idle EXCEPT !.pc = "erase", !.policy = p] OBVIOUS
<1>4. m \in WorkerRecord /\ m.row = None /\ m.password = None /\ m.day = NoDay
  BY <1>3, IdleWorker, ZenonT(60) DEF Idle, WorkerRecord, Pc
<1>5. UNCHANGED <<dev, day, issued, raced>> BY DEF CountPolicies
<1>6. DefaultsMade BY SeedDefaults DEF CountPolicies
<1>7. Passes(m, issued, day) BY <1>1, <1>4, <1>5, SameGrows, FreshPasses
<1> QED BY <1>1, <1>2, <1>3, <1>4, <1>5, <1>6, <1>7, RecordByDefaults

LEMMA ErasePolicyRecords ==
    ASSUME TInv, EditInv, RecordInv, NEW r \in Request, ErasePolicy(r) PROVE RecordInv'
<1>1. r \in Worker BY DEF Worker
<1>2. PICK p, m : p = worker[r].policy /\ m = Idle OBVIOUS
<1>3. At(r) = "erase" /\ worker' = [worker EXCEPT ![r] = m] BY <1>2 DEF ErasePolicy, Step
<1>4. p \in Policy /\ policies[p] # None
  BY <1>1, <1>2, <1>3, Worked DEF At, InHand, Refers
<1>5. m \in WorkerRecord /\ m.row = None /\ m.password = None /\ m.day = NoDay
  BY <1>2, IdleWorker DEF Idle
<1>6. UNCHANGED <<dev, day, issued>> BY DEF ErasePolicy
<1>7. Grows(issued, issued') /\ Passes(m, issued', day)
  BY <1>1, <1>5, <1>6, SameGrows, FreshPasses
<1>8. CASE UNCHANGED <<policies, raced>>
  <2>1. DefaultsMade BY <1>8 DEF DefaultsMade
  <2> QED BY <1>1, <1>3, <1>5, <1>6, <1>7, <1>8, <2>1, RecordByDefaults
<1>9. CASE policies' = [policies EXCEPT ![p].live = FALSE] /\ NoteRace(r, p)
  <2>1. raced \subseteq raced' BY <1>9 DEF NoteRace
  <2>2. PICK old \in PolicyRow : old = policies[p] BY <1>4 DEF TInv, BasicTypes
  <2>3. PICK row : row = [old EXCEPT !.live = FALSE] OBVIOUS
  <2>4. row \in PolicyRow /\ row.active = old.active /\ row.date = old.date
    BY <2>3 DEF PolicyRow
  <2>5. policies' = [policies EXCEPT ![p] = row] BY <1>9, <2>2, <2>3
  <2>6. Dated(p, row, issued', day) BY <1>4, <1>6, <2>2, <2>4 DEF RecordInv, Dated
  <2> QED BY <1>1, <1>3, <1>4, <1>5, <1>6, <1>7, <2>1, <2>2, <2>4, <2>5, <2>6, RecordByRow
<1> QED BY <1>2, <1>8, <1>9 DEF ErasePolicy

LEMMA RunDueRecords == ASSUME TInv, EditInv, RecordInv, RunDue PROVE RecordInv'
<1>1. Rotator \in Worker BY DEF Worker
<1>2. UNCHANGED <<dev, day, issued, raced>> /\ At(Rotator) = "idle" BY DEF RunDue
<1>3. DefaultsMade
  <2>1. CASE policies' = Seeded BY <2>1, SeedDefaults
  <2>2. CASE UNCHANGED policies BY <2>2 DEF DefaultsMade
  <2> QED BY <2>1, <2>2 DEF RunDue
<1>4. PICK me \in WorkerRecord : me = worker[Rotator] /\ me.row = None
  BY <1>1, <1>2, Worked DEF InHand, At, RunPc, RotatingPc, Dials
<1>5. CASE UNCHANGED worker
  <2>1. worker' = [worker EXCEPT ![Rotator] = me] BY <1>1, <1>4, <1>5 DEF TInv
  <2>2. Passes(me, issued, day) BY <1>1, <1>4 DEF RecordInv
  <2> QED BY <1>1, <1>2, <1>3, <1>4, <2>1, <2>2, RecordByDefaults
<1>6. CASE worker' # worker
  <2>1. PICK due : worker' = [worker EXCEPT ![Rotator] =
                                [Idle EXCEPT !.pc = "next", !.due = due, !.day = day]]
    <3>1. PICK due : worker' = IF due = {} THEN worker
                               ELSE [worker EXCEPT ![Rotator] =
                                       [Idle EXCEPT !.pc = "next", !.due = due, !.day = day]]
      BY <1>6 DEF RunDue
    <3> QED BY <3>1, <1>6
  <2>2. PICK m : m = [Idle EXCEPT !.pc = "next", !.due = due, !.day = day] OBVIOUS
  <2>3. worker' = [worker EXCEPT ![Rotator] = m] BY <2>1, <2>2
  <2>4. worker'[Rotator] = m BY <1>1, <2>3 DEF TInv
  <2>5. m \in WorkerRecord BY <1>1, <2>4, RunDueTypes DEF TInv
  <2>6. m.row = None /\ m.password = None /\ m.day = day BY <2>2 DEF Idle
  <2>7. day \in Nat /\ None \notin Generated BY NoneApart, Issues
  <2>8. Passes(m, issued, day) BY <2>6, <2>7 DEF Passes, Known, RecordInv
  <2> QED BY <1>1, <1>2, <1>3, <2>3, <2>5, <2>6, <2>8, RecordByDefaults
<1> QED BY <1>5, <1>6

LEMMA GetPolicyRecords ==
    ASSUME TInv, EditInv, RecordInv, NEW w \in Worker, GetPolicy(w) PROVE RecordInv'
<1>1. PICK p \in Policy, m \in WorkerRecord :
          /\ worker' = [worker EXCEPT ![w] = m] /\ m.password = None
          /\ RunBegun(w, p, m) \/ PassedOver(w, m)
  BY GetPolicyStep
<1>2. UNCHANGED <<policies, dev, day, issued>> BY DEF GetPolicy, tables
<1>3. DefaultsMade BY <1>2 DEF DefaultsMade
<1>4. CASE PassedOver(w, m)
  <2>1. m.row = None /\ (m.day = NoDay \/ m.day = worker[w].day) BY <1>4 DEF PassedOver
  <2>2. Passes(m, issued, day) BY <1>1, <2>1, FreshPasses
  <2> QED BY <1>1, <1>2, <1>3, <1>4, <2>1, <2>2, RecordByDefaults DEF PassedOver
<1>5. CASE RunBegun(w, p, m)
  <2>1. /\ m.policy = p /\ m.row = policies[p] /\ policies[p] # None
        /\ m.day = day \/ m.day = worker[w].day
    BY <1>5 DEF RunBegun
  <2>2. raced \subseteq raced' /\ (p \notin raced' => m.day = day) BY <1>5 DEF RunBegun
  <2>3. Dated(p, policies[p], issued, day) BY <2>1 DEF RecordInv
  <2>4. m.day <= day
    <3>1. day \in Nat BY Issues
    <3>2. worker[w].day <= day BY DEF RecordInv, Passes
    <3> QED BY <2>1, <3>1, <3>2
  <2>5. None \notin Generated /\ None \notin DOMAIN issued BY NoneApart DEF RecordInv
  <2>6. Passes(m, issued, day) BY <1>1, <2>1, <2>3, <2>4, <2>5 DEF Passes, Known
  <2>7. m.policy \notin raced' => UpToDate(m, policies'[m.policy], issued, day)
    <3>1. m.pc = "targets" BY <1>5 DEF RunBegun
    <3> QED BY <2>1, <2>2, <2>3, <3>1 DEF UpToDate, Dated
  <2> QED BY <1>1, <1>2, <1>3, <2>2, <2>6, <2>7, RecordByDefaults
<1> QED BY <1>1, <1>4, <1>5

LEMMA ResolveTargetsRecords ==
    ASSUME TInv, EditInv, RecordInv, NEW w \in Worker, ResolveTargets(w) PROVE RecordInv'
<1>1. At(w) = "targets" /\ At(w) \in RunPc /\ UNCHANGED <<dev, day, issued, raced>>
  BY DEF ResolveTargets, RunPc
<1>2. PICK m \in WorkerRecord :
             /\ worker' = [worker EXCEPT ![w] = m]
             /\ \/ RunOver(w, m)
                \/ SameErrand(m, worker[w]) /\ m.pc = "save" /\ SameButOutcome(m.row, worker[w].row)
                \/ SameErrand(m, worker[w]) /\ m.pc = "passwords" /\ m.row = worker[w].row
  BY ResolveTargetsStep
<1>3. DefaultsMade
  <2>1. CASE policies' = Seeded BY <2>1, SeedDefaults
  <2>2. CASE UNCHANGED policies BY <2>2 DEF DefaultsMade
  <2> QED BY <2>1, <2>2 DEF ResolveTargets
<1>4. CASE RunOver(w, m)
  <2>1. m.row = None /\ m.password = None /\ (m.day = NoDay \/ m.day = worker[w].day)
    BY <1>4 DEF RunOver
  <2>2. Passes(m, issued, day) BY <2>1, FreshPasses
  <2> QED BY <1>1, <1>2, <1>3, <2>1, <2>2, RecordByDefaults
<1>5. CASE /\ SameErrand(m, worker[w]) /\ m.pc \in {"save", "passwords"}
           /\ m.row.active = worker[w].row.active /\ m.row.date = worker[w].row.date
  <2>1. PICK me \in WorkerRecord : me = worker[w] /\ me.row # None /\ me.pc = "targets"
    BY <1>1, Worked DEF InHand, At
  <2>2. Passes(me, issued, day) BY <2>1 DEF RecordInv
  <2>3. Passes(m, issued, day) BY <1>5, <2>1, <2>2 DEF Passes, Dated, SameErrand
  <2>4. ASSUME m.policy \notin raced PROVE UpToDate(m, policies'[m.policy], issued, day)
    <3>1. PICK p : p = m.policy OBVIOUS
    <3>2. p = me.policy BY <1>5, <2>1, <3>1 DEF SameErrand
    <3>3. p \in Policy /\ policies[p] # None /\ Stored(me, policies, settings)
      BY <1>1, <2>1, <2>4, <3>1, <3>2, HolderOf
    <3>4. me.row = policies[p] BY <1>1, <2>1, <3>2, <3>3 DEF Stored, At
    <3>5. policies'[p] = policies[p] BY <1>3, <3>3 DEF DefaultsMade
    <3>6. UpToDate(me, policies[p], issued, day) BY <2>1, <2>4, <3>1, <3>2 DEF RecordInv
    <3>7. me.row.date <= me.day BY <2>1, <3>6 DEF UpToDate
    <3> QED BY <1>5, <2>1, <3>1, <3>4, <3>5, <3>7 DEF UpToDate, SameErrand
  <2> QED BY <1>1, <1>2, <1>3, <1>5, <2>3, <2>4, RecordByDefaults DEF SameErrand
<1> QED BY <1>2, <1>4, <1>5 DEF SameButOutcome

LEMMA SaveOutcomeRecords ==
    ASSUME TInv, EditInv, RecordInv, NEW w \in Worker, SaveOutcome(w) PROVE RecordInv'
<1>1. /\ At(w) \in RunPc /\ At(w) \in {"save", "host"}
      /\ UNCHANGED <<dev, day, issued, raced>>
  BY DEF SaveOutcome, RunPc, history
<1>2. PICK m \in WorkerRecord, s \in PolicyRow :
             /\ worker' = [worker EXCEPT ![w] = m] /\ RunOver(w, m)
             /\ SameButOutcome(s, worker[w].row)
             /\ policies' = policies \/ policies' = [policies EXCEPT ![worker[w].policy] = s]
  BY SaveOutcomeStep
<1>3. PICK p \in Policy, me \in WorkerRecord :
          p = me.policy /\ me = worker[w] /\ me.row # None /\ policies[p] # None /\ me.pc = At(w)
  BY <1>1, Worked DEF InHand, Refers, At
<1>4. m.row = None /\ m.password = None /\ (m.day = NoDay \/ m.day = worker[w].day)
  BY <1>2 DEF RunOver
<1>5. Grows(issued, issued') /\ Passes(m, issued', day) /\ Passes(m, issued, day)
  BY <1>1, <1>4, SameGrows, FreshPasses
<1>6. CASE policies' = policies
  <2>1. DefaultsMade BY <1>6 DEF DefaultsMade
  <2> QED BY <1>1, <1>2, <1>4, <1>5, <2>1, RecordByDefaults
<1>7. CASE policies' = [policies EXCEPT ![p] = s]
  <2>1. s.active = me.row.active /\ s.date = me.row.date BY <1>2, <1>3 DEF SameButOutcome
  <2>2. Dated(p, me.row, issued, day) BY <1>3 DEF RecordInv, Passes
  <2>3. Dated(p, s, issued', day) BY <1>1, <2>1, <2>2 DEF Dated
  <2>4. ASSUME p \notin raced
        PROVE  /\ ~HeldByOther(w, p)
               /\ s.active = policies[p].active \/ Past(policies[p].active, issued, day)
    <3>1. ~HeldByOther(w, p) /\ Stored(me, policies, settings)
      BY <1>1, <1>3, <2>4, HolderOf
    <3>2. UpToDate(me, policies[p], issued, day) BY <1>3, <2>4 DEF RecordInv
    <3>3. me.pc = "host" => me.row = policies[p] BY <1>3, <3>1 DEF Stored, RunPc
    <3> QED BY <1>1, <1>3, <2>1, <3>1, <3>2, <3>3 DEF UpToDate
  <2>5. raced \subseteq raced' /\ DOMAIN issued' \ DOMAIN issued = {} BY <1>1
  <2>6. p \notin raced' => \/ s.active = policies[p].active
                           \/ Past(policies[p].active, issued, day) /\ ~HeldByOther(w, p)
    BY <1>1, <2>4
  <2>7. \A g \in DOMAIN issued' \ DOMAIN issued : issued'[g].day <= day /\ issued'[g].policy = p
    BY <2>5
  <2>8. m.row # None /\ m.policy \notin raced' => UpToDate(m, policies'[m.policy], issued', day)
    BY <1>4
  <2>9. worker' = [worker EXCEPT ![w] = m] /\ policies[p] # None /\ UNCHANGED <<dev, day>>
    BY <1>1, <1>2, <1>3
  <2> QED BY <1>4, <1>5, <1>7, <2>3, <2>5, <2>6, <2>7, <2>8, <2>9, RecordByRow
<1> QED BY <1>2, <1>3, <1>6, <1>7

LEMMA RenewedGrows ==
    ASSUME TInv, RecordInv, NEW w \in Worker, At(w) \in RunPc, NEW x, Renewed(w, x)
    PROVE  /\ Grows(issued, issued') /\ Known(x, issued')
           /\ \A g \in DOMAIN issued' : g \notin DOMAIN issued \/ g = x =>
                 issued'[g].policy = worker[w].policy /\ issued'[g].day = worker[w].day
<1>1. CASE x \in ManualPassword /\ issued' = issued
  <2>1. x \notin Generated BY <1>1, NocPassAssumption
  <2> QED BY <1>1, <2>1, SameGrows DEF Known, Grows
<1>2. CASE /\ x = Len(issued) + 1 /\ x \in Generated
           /\ issued' = Append(issued, [policy |-> worker[w].policy, day |-> worker[w].day])
  <2> DEFINE Item == [policy: Policy, day: Day]
             c == [policy |-> worker[w].policy, day |-> worker[w].day]
  <2>1. worker[w].policy \in Policy /\ worker[w].day \in Day BY Worked DEF InHand, At
  <2>2. issued \in Seq(Item) /\ c \in Item BY <2>1 DEF TInv, BasicTypes
  <2>3. issued' = Append(issued, c) BY <1>2
  <2>4. c.policy = worker[w].policy /\ c.day = worker[w].day OBVIOUS
  <2> HIDE DEF Item, c
  <2>5. /\ Len(issued') = Len(issued) + 1 /\ Len(issued) \in Nat
        /\ \A i \in 1 .. Len(issued) : issued'[i] = issued[i]
        /\ issued'[Len(issued) + 1] = c
        /\ issued' \in Seq(Item)
    BY <2>2, <2>3, AppendProperties
  <2>6. DOMAIN issued = 1 .. Len(issued) /\ DOMAIN issued' = 1 .. Len(issued) + 1
    BY <2>2, <2>5, LenProperties
  <2>7. \A g \in DOMAIN issued' : g \in DOMAIN issued \/ g = x BY <1>2, <2>5, <2>6
  <2>8. x \in DOMAIN issued' /\ x \notin DOMAIN issued BY <1>2, <2>5, <2>6
  <2>9. DOMAIN issued \subseteq DOMAIN issued' BY <2>5, <2>6
  <2>10. DOMAIN issued' \subseteq Generated BY <1>2, <2>7 DEF RecordInv
  <2>11. \A g \in DOMAIN issued : issued'[g] = issued[g] BY <2>5, <2>6
  <2> QED BY <1>2, <2>4, <2>5, <2>7, <2>8, <2>9, <2>10, <2>11 DEF Grows, Known
<1> QED BY <1>1, <1>2 DEF Renewed

(* The password of a row that is renewed is not of today.                  *)
LEMMA RenewsPast ==
    ASSUME TInv, EditInv, RecordInv, NEW w \in Worker, At(w) = "passwords",
           worker[w].row.active = None \/ worker[w].row.date # worker[w].day,
           worker[w].policy \notin raced
    PROVE  /\ Past(policies[worker[w].policy].active, issued, day)
           /\ ~HeldByOther(w, worker[w].policy)
<1>1. PICK me \in WorkerRecord, p \in Policy :
          me = worker[w] /\ p = me.policy /\ me.row # None /\ me.pc = "passwords"
  BY Worked DEF InHand, At, RunPc
<1>2. At(w) \in RunPc BY DEF RunPc
<1>3. ~HeldByOther(w, p) /\ Stored(me, policies, settings) /\ policies[p] # None
  BY <1>1, <1>2, HolderOf
<1>4. me.row = policies[p] BY <1>1, <1>3 DEF Stored, RunPc
<1>5. UpToDate(me, policies[p], issued, day) /\ Passes(me, issued, day)
  BY <1>1 DEF RecordInv
<1>6. me.row.date <= me.day /\ me.day <= day /\ Dated(p, me.row, issued, day)
  BY <1>1, <1>5 DEF UpToDate, Passes
<1>7. me.day \in Nat /\ day \in Nat BY Dates, Issues
<1>8. me.row.date \in Nat
  <2>1. PICK row \in PolicyRow : row = me.row BY <1>1 DEF WorkerRecord
  <2> QED BY <2>1, Dates
<1>9. CASE me.row.active = None BY <1>4, <1>1, <1>3, <1>9, NoneApart DEF Past, RecordInv
<1>10. CASE me.row.date # me.day
  <2>1. me.row.date < day BY <1>6, <1>7, <1>8, <1>10
  <2> QED BY <1>1, <1>3, <1>4, <1>6, <2>1 DEF Past, Dated
<1> QED BY <1>1, <1>9, <1>10

LEMMA EnsurePolicyPasswordsRecords ==
    ASSUME TInv, EditInv, RecordInv, NEW w \in Worker, EnsurePolicyPasswords(w)
    PROVE  RecordInv'
<1>1. At(w) = "passwords" /\ At(w) \in RunPc /\ UNCHANGED <<dev, day, raced>>
  BY DEF EnsurePolicyPasswords, RunPc
<1>2. PICK m \in WorkerRecord, x \in Password :
             /\ worker' = [worker EXCEPT ![w] = m]
             /\ InHand(m) /\ m.policy = worker[w].policy /\ m.day = worker[w].day
             /\ Kept(w, m) \/ RenewedAndSaved(w, m, x) \/ RenewedUnsaved(w, m, x)
  BY EnsurePolicyPasswordsStep
<1>3. PICK me \in WorkerRecord, p \in Policy :
          /\ me = worker[w] /\ p = me.policy /\ p = m.policy /\ me.row # None
          /\ policies[p] # None /\ me.pc = "passwords"
  BY <1>1, <1>2, Worked DEF InHand, Refers, At
<1>4. /\ Passes(me, issued, day) /\ me.day <= day /\ m.day = me.day
      /\ Dated(p, me.row, issued, day)
  BY <1>2, <1>3 DEF RecordInv, Passes
<1>5. PICK t, d : t = issued' /\ d = day /\ d \in Nat BY Issues
<1>6. ASSUME Grows(issued, t)
      PROVE  /\ \A q \in Policy : policies[q] # None => Dated(q, policies[q], t, day)
             /\ Passes(me, t, day)
  <2>1. ASSUME NEW q \in Policy, policies[q] # None PROVE Dated(q, policies[q], t, day)
    <3>1. PICK r \in PolicyRow : r = policies[q] BY <2>1 DEF TInv, BasicTypes
    <3>2. Dated(q, r, issued, d) /\ d <= d BY <1>5, <2>1, <3>1 DEF RecordInv
    <3>3. Dated(q, r, t, d) BY <1>5, <1>6, <3>2, DatedStill
    <3> QED BY <1>5, <3>1, <3>3
  <2>2. Passes(me, t, d) BY <1>4, <1>5, <1>6, PassesStill
  <2> QED BY <1>5, <2>1, <2>2
<1>7. CASE Kept(w, m)
  <2>1. UNCHANGED <<policies, issued>> /\ m.pc = "host" /\ m.row = me.row
    BY <1>3, <1>7 DEF Kept
  <2>2. m.password \in ManualPassword \/ m.password = me.row.active BY <1>3, <1>7 DEF Kept
  <2>3. ManualPassword \cap Generated = {} BY NocPassAssumption
  <2>4. Passes(m, issued, day)
    BY <1>3, <1>4, <2>1, <2>2, <2>3 DEF Passes, Known, Dated, RecordInv
  <2>5. UpToDate(m, policies[p], issued, day) BY <2>1 DEF UpToDate
  <2>6. ASSUME m.password \in DOMAIN issued, issued[m.password].policy \notin raced
        PROVE  policies[issued[m.password].policy].active = m.password
    <3>1. m.password = me.row.active BY <2>2, <2>3, <2>6 DEF RecordInv
    <3>2. issued[m.password].policy = p BY <1>4, <2>6, <3>1 DEF Dated
    <3>3. Stored(me, policies, settings) BY <1>1, <1>3, <2>6, <3>2, HolderOf
    <3>4. me.row = policies[p] BY <1>3, <3>3 DEF Stored, RunPc
    <3> QED BY <3>1, <3>2, <3>4
  <2>7. \A q \in Policy : policies[q] # None => Dated(q, policies[q], issued, day)
    BY DEF RecordInv
  <2>8. Recording(w, m)
    BY <1>1, <1>2, <1>3, <2>1, <2>4, <2>5, <2>6, <2>7, SameGrows DEF Recording
  <2> QED BY <2>8, RecordByOne
<1>8. ASSUME Renewed(w, x), me.row.active = None \/ me.row.date # me.day,
             RenewedRow(m.row, w, x), m.row \in PolicyRow
      PROVE  /\ Grows(issued, issued') /\ Dated(p, m.row, issued', day)
             /\ \A g \in DOMAIN issued' \ DOMAIN issued :
                   issued'[g].day <= day /\ issued'[g].policy = p
             /\ Known(x, issued')
             /\ x \in DOMAIN issued' => issued'[x].policy = p /\ issued'[x].day = me.day
             /\ p \notin raced => Past(policies[p].active, issued, day) /\ ~HeldByOther(w, p)
  <2>1. /\ Grows(issued, issued') /\ Known(x, issued')
        /\ \A g \in DOMAIN issued' : g \notin DOMAIN issued \/ g = x =>
              issued'[g].policy = p /\ issued'[g].day = me.day
    BY <1>1, <1>3, <1>8, RenewedGrows
  <2>2. m.row.active = x /\ m.row.date = me.day BY <1>3, <1>8 DEF RenewedRow
  <2>3. p \notin raced => Past(policies[p].active, issued, day) /\ ~HeldByOther(w, p)
    BY <1>1, <1>3, <1>8, RenewsPast
  <2> QED BY <1>4, <2>1, <2>2, <2>3 DEF Dated
<1>9. CASE RenewedAndSaved(w, m, x)
  <2>1. PICK row \in PolicyRow : row = m.row
    BY <1>2, <1>9 DEF RenewedAndSaved, InHand, WorkerRecord, RunPc
  <2>2. /\ Renewed(w, x) /\ RenewedRow(row, w, x) /\ m.pc = "host" /\ m.password = x
        /\ me.row.active = None \/ me.row.date # me.day
        /\ policies' = [policies EXCEPT ![p] = row] /\ row.active = x
    BY <1>3, <1>9, <2>1 DEF RenewedAndSaved, RenewedRow
  <2>3. Passes(m, issued', day)
    BY <1>3, <1>4, <1>8, <2>1, <2>2 DEF Passes
  <2>4. UpToDate(m, policies'[m.policy], issued', day) BY <2>2 DEF UpToDate
  <2>5. raced \subseteq raced' /\ raced' = raced BY <1>1
  <2> QED BY <1>1, <1>2, <1>3, <1>8, <2>1, <2>2, <2>3, <2>4, <2>5, RecordByRow, ZenonT(120)
<1>10. CASE RenewedUnsaved(w, m, x)
  <2>1. PICK row \in PolicyRow : row = m.row
    BY <1>2, <1>10 DEF RenewedUnsaved, InHand, WorkerRecord, RunPc
  <2>2. /\ Renewed(w, x) /\ RenewedRow(row, w, x) /\ m.pc = "save" /\ m.password = me.password
        /\ me.row.active = None \/ me.row.date # me.day
        /\ policies' = policies
    BY <1>3, <1>10, <2>1 DEF RenewedUnsaved
  <2>3. Grows(issued, issued') BY <1>8, <2>1, <2>2
  <2>4. Passes(me, issued', day) BY <1>5, <1>6, <2>3
  <2>5. Passes(m, issued', day)
    BY <1>3, <1>4, <1>8, <2>1, <2>2, <2>4 DEF Passes
  <2>6. ASSUME p \notin raced PROVE UpToDate(m, policies[p], issued', day)
    <3>1. PICK a : a = policies[p].active OBVIOUS
    <3>2. Past(a, issued, d) /\ Known(a, issued)
      BY <1>3, <1>5, <1>8, <2>1, <2>2, <2>6, <3>1 DEF RecordInv, Dated
    <3>3. \A g \in DOMAIN issued : issued[g].day \in Nat
      <4>1. Day \subseteq Nat BY DEF Day
      <4> QED BY <4>1, Issues
    <3>4. Past(a, t, d) BY <1>5, <2>3, <3>2, <3>3, PastStill
    <3> QED BY <1>5, <2>2, <3>1, <3>4 DEF UpToDate
  <2>7. ASSUME m.password \in DOMAIN issued', issued'[m.password].day = day,
               issued'[m.password].policy \notin raced
        PROVE  policies[issued'[m.password].policy].active = m.password
    <3>1. PICK g : g = m.password OBVIOUS
    <3>2. g \in Generated BY <2>3, <2>7, <3>1 DEF Grows
    <3>3. g = me.password BY <2>2, <3>1
    <3>4. g \in DOMAIN issued BY <1>4, <3>2, <3>3 DEF Passes, Known
    <3>5. issued'[g] = issued[g] BY <2>3, <3>4 DEF Grows
    <3>6. Out(g) BY <1>3, <3>3 DEF Out
    <3> QED BY <2>7, <3>1, <3>4, <3>5, <3>6 DEF RecordInv, OnRecord
  <2>8. \A q \in Policy : policies[q] # None => Dated(q, policies[q], issued', day)
    BY <1>5, <1>6, <2>3
  <2>9. \A g \in DOMAIN issued' \ DOMAIN issued :
            issued'[g].day <= day /\ policies[issued'[g].policy] # None
    BY <1>3, <1>8, <2>1, <2>2
  <2>10. Recording(w, m)
    BY <1>1, <1>2, <1>3, <2>2, <2>3, <2>5, <2>6, <2>7, <2>8, <2>9 DEF Recording
  <2> QED BY <2>10, RecordByOne
<1> QED BY <1>2, <1>7, <1>9, <1>10

LEMMA RecordInit == Init => RecordInv
<1> SUFFICES ASSUME Init PROVE RecordInv OBVIOUS
<1>1. DOMAIN issued = {} BY DEF Init
<1>2. /\ None \notin Generated /\ Earlier \notin Generated /\ Own \notin Generated
  BY NoneApart, NocPassAssumption
<1>3. day = 1 /\ \A w \in Worker : worker[w] = Idle BY DEF Init
<1>4. Idle.row = None /\ Idle.password = None /\ Idle.day = 0 BY DEF Idle, NoDay
<1>5. ASSUME NEW p \in Policy, policies[p] # None PROVE Dated(p, policies[p], issued, day)
  <2>1. policies \in InitialPolicies BY DEF Init
  <2>2. policies[p].active \notin Generated /\ policies[p].date <= 1
    BY <1>5, <2>1, NocPassAssumption
  <2> QED BY <1>1, <1>3, <2>2 DEF Dated, Known
<1>6. \A w \in Worker : Passes(worker[w], issued, day) BY <1>1, <1>2, <1>3, <1>4 DEF Passes, Known
<1>7. \A h \in Host : \A u \in Rotated : Known(dev[h][u], issued)
  <2>1. Rotated \subseteq User BY NocPassAssumption
  <2>2. \A h \in Host : \A u \in User : dev[h][u] \in {Earlier, Own, None} BY DEF Init
  <2> QED BY <1>2, <2>1, <2>2 DEF Known
<1> QED BY <1>1, <1>3, <1>4, <1>5, <1>6, <1>7 DEF RecordInv

LEMMA RecordStep == TInv /\ EditInv /\ RecordInv /\ [Next]_vars => RecordInv'
<1> SUFFICES ASSUME TInv, EditInv, RecordInv, [Next]_vars PROVE RecordInv' OBVIOUS
<1>1. CASE RunsGoOn BY <1>1, DevicesStep, DayStep, RecordGoesOn
<1>2. CASE PolicyStep
  BY <1>2, CreatePolicyRecords, ReadPolicyRecords, WritePolicyRecords, CountPoliciesRecords,
     ErasePolicyRecords, RunDueRecords, GetPolicyRecords, ResolveTargetsRecords,
     EnsurePolicyPasswordsRecords, SaveOutcomeRecords DEF PolicyStep
<1> QED BY <1>1, <1>2, StepsOf

(* No device has a generated password of today that is nowhere on record:  *)
(* it is stored with its policy before the first device gets it, and       *)
(* nothing replaces it there before the day is over, whenever the program  *)
(* dies (EnsurePolicyPasswords and RunPolicy of internal/nocpass).         *)
(* Policies that two had in hand at once are excepted.                     *)
THEOREM PasswordsAreOnRecord == Spec => []PasswordOnRecord
<1>1. RecordInv => PasswordOnRecord
  BY DEF RecordInv, OnRecord, Out, PasswordOnRecord
<1>2. Spec => []RecordInv BY TInvAlways, EditAlways, RecordInit, RecordStep, PTL DEF Spec
<1> QED BY <1>1, <1>2, PTL
-----------------------------------------------------------------------------
(***************************************************************************)
(* ConfirmedIsActual.  Host by host: what a rotation that is under way has *)
(* set, what the state of the host recalls, and what the page shows.       *)
(***************************************************************************)
SamePassword(c, d) == (c = None <=> d = None) /\ (d # None => c.password = d.password)

(* A step leaves the passwords of FIBERX and SUPPORT of h.                 *)
Alike(h) == \A u \in Rotated : dev'[h][u] = dev[h][u] /\ SamePassword(creds'[h][u], creds[h][u])

LEMMA SameAlike == ASSUME UNCHANGED <<dev, creds>>, NEW h PROVE Alike(h)
BY DEF Alike, SamePassword

LEMMA RotatedUsers == Rotated \subseteq User
BY NocPassAssumption

LEMMA GiveUserAlike ==
    ASSUME TInv, NEW g \in Host, NEW u \in User, NEW ok \in BOOLEAN, GiveUser(g, u, ok),
           NEW h \in Host, h # g \/ u \notin Rotated
    PROVE  Alike(h)
<1>1. \A v \in User : h # g \/ v # u => dev'[h][v] = dev[h][v] /\ creds'[h][v] = creds[h][v]
  BY GiveUserTypes
<1> QED BY <1>1, RotatedUsers DEF Alike, SamePassword

(* The steps that change a device or a credential.                         *)
LEMMA CredentialSteps ==
    ASSUME TInv, [Next]_vars, \A w \in Worker : ~Rotation(w)
    PROVE  UNCHANGED <<dev, creds>> \/ \E r \in Request : GiveSavedUser(r) \/ TakeSavedUser(r)
<1>1. ASSUME NEW w \in Worker, Run(w) PROVE UNCHANGED <<dev, creds>>
  BY <1>1 DEF Run, Rotation, GetPolicy, ResolveTargets, EnsurePolicyPasswords, SaveOutcome, tables
<1>2. ASSUME NEW r \in Request, Ask(r)
      PROVE  UNCHANGED <<dev, creds>> \/ GiveSavedUser(r) \/ TakeSavedUser(r)
  BY <1>2 DEF Ask, CreatePolicy, ReadPolicy, WritePolicy, CountPolicies, ErasePolicy,
     CreateSavedUser, ReadSavedUser, EndSavedUser, tables
<1>3. CASE \/ \E u \in Keepable : CreateKeepUser(u) \/ DeleteKeepUser(u)
           \/ \E h \in Host : ChangeExclusions(h)
           \/ RunDue \/ NoneDue \/ Midnight \/ Crash \/ UNCHANGED vars
  BY <1>3 DEF CreateKeepUser, DeleteKeepUser, ChangeExclusions, RunDue, NoneDue, Midnight, Crash,
     vars, tables
<1> QED BY <1>1, <1>2, <1>3 DEF Next, AtRest

LEMMA RestAlike ==
    ASSUME TInv, [Next]_vars, \A w \in Worker : ~Rotation(w), NEW h \in Host, h \notin mixed'
    PROVE  Alike(h)
<1>1. ASSUME NEW r \in Request, GiveSavedUser(r) PROVE Alike(h)
  <2>1. r \in Worker BY DEF Worker
  <2>2. worker[r].hosts # {} /\ At(r) = "give" BY <1>1 DEF GiveSavedUser
  <2>3. worker[r].hosts \subseteq Host /\ worker[r].item \in SavedInputs
    BY <2>1, <2>2, Worked DEF WorkerRecord, InHand, At
  <2>4. worker[r].hosts \in SUBSET Nat BY <2>3, NocPassAssumption
  <2>5. PICK g \in Host : g = Earliest(worker[r].hosts) BY <2>2, <2>3, <2>4, EarliestOf
  <2>6. PICK u \in User : u = worker[r].item.user BY <2>3, NocPassAssumption
  <2>7. PICK ok \in BOOLEAN : GiveUser(g, u, ok) BY <1>1, <2>5, <2>6 DEF GiveSavedUser
  <2>8. u \in Rotated => g \in mixed' BY <1>1, <2>5, <2>6 DEF GiveSavedUser, NoteMixed
  <2> QED BY <2>7, <2>8, GiveUserAlike
<1>2. ASSUME NEW r \in Request, TakeSavedUser(r) PROVE Alike(h)
  <2>1. PICK g \in Host, u \in User : TakesFrom(g, u) BY <1>2, TakeUserTypes
  <2>2. h # g \/ u \notin Rotated BY <2>1 DEF TakesFrom
  <2>3. \A v \in User : h # g \/ v # u => dev'[h][v] = dev[h][v] /\ creds'[h][v] = creds[h][v]
    BY <2>1 DEF TakesFrom
  <2> QED BY <2>2, <2>3, RotatedUsers DEF Alike, SamePassword
<1> QED BY <1>1, <1>2, CredentialSteps, SameAlike

-----------------------------------------------------------------------------
RotatesOn(w, h) == worker[w].pc \in RotatingPc /\ worker[w].host = h

(* A rotation told that it is alone is; a host shared by two is in doubt.  *)
AloneOn(h) ==
    \A w \in Worker : RotatesOn(w, h) =>
        /\ worker[w].alone => \A v \in Worker : RotatesOn(v, h) => v = w
        /\ ~worker[w].alone => h \in doubted

HasRotated(h) == \A u \in Rotated : dev[h][u] # None

(* What a rotation has set when it comes to write it down.  On a Mikrotik  *)
(* nothing is set for a user that is not there, so they must both be.      *)
Confirms(m) ==
    /\ m.pc \in {"credentials", "state"} => m.sent /\ HasRotated(m.host)
    /\ m.pc = "managed" => ~m.sent
    /\ ~m.initial /\ m.host \in Mikrotik => HasRotated(m.host)
    /\ m.pc \in {"credentials", "state"} /\ m.alone =>
          \A u \in Rotated : dev[m.host][u] = m.password
    /\ m.pc = "state" /\ m.alone =>
          \A u \in Rotated : creds[m.host][u] # None /\ creds[m.host][u].password = m.password

(* A Mikrotik on which the rotation has succeeded before has both users.   *)
Recalls(h) ==
    h \in Mikrotik /\ states[h] # None /\ states[h].password # None => HasRotated(h)

Told(h) ==
    /\ states[h] # None /\ states[h].ok
    /\ \A w \in Worker : ~(worker[w].sent /\ worker[w].host = h)

Matches(h) == h \notin doubted /\ Told(h) => \A u \in Rotated : Shown(h, u) = dev[h][u]

HostInv(h) ==
    /\ AloneOn(h) /\ Recalls(h) /\ Matches(h)
    /\ \A w \in Worker : RotatesOn(w, h) => Confirms(worker[w])

ConfirmInv == \A h \in Host \ mixed : HostInv(h)

(* A step that leaves the rotations of h, and one that takes place elsewhere. *)
LeavesRotations(h) ==
    /\ Alike(h)
    /\ h \in doubted => h \in doubted'
    /\ \A v \in Worker : RotatesOn(v, h)' =>
          /\ RotatesOn(v, h)
          /\ worker'[v].pc = worker[v].pc /\ worker'[v].sent = worker[v].sent
          /\ worker'[v].initial = worker[v].initial /\ worker'[v].alone = worker[v].alone
          /\ worker'[v].password = worker[v].password
    /\ \A v \in Worker : worker[v].sent /\ worker[v].host = h =>
          (worker'[v].sent /\ worker'[v].host = h) \/ h \in doubted'

Elsewhere(h) == LeavesRotations(h) /\ states'[h] = states[h]

LEMMA ShownStill ==
    ASSUME NEW h, NEW u \in Rotated, states'[h] = states[h], SamePassword(creds'[h][u], creds[h][u])
    PROVE  Shown(h, u)' = Shown(h, u)
BY DEF Shown, SamePassword

LEMMA MatchesStill ==
    ASSUME NEW h \in Host, Matches(h), Alike(h), states'[h] = states[h],
           h \in doubted => h \in doubted',
           h \notin doubted' /\ Told(h)' => Told(h)
    PROVE  Matches(h)'
<1>1. \A u \in Rotated : Shown(h, u)' = Shown(h, u) BY ShownStill DEF Alike
<1> QED BY <1>1 DEF Matches, Alike

LEMMA HostLeft ==
    ASSUME NEW h \in Host, HostInv(h), LeavesRotations(h), Recalls(h)', Matches(h)'
    PROVE  HostInv(h)'
<1>1. AloneOn(h)' BY DEF HostInv, LeavesRotations, AloneOn
<1>2. HasRotated(h)' <=> HasRotated(h) BY DEF LeavesRotations, Alike, HasRotated
<1>3. ASSUME NEW v \in Worker, RotatesOn(v, h)' PROVE Confirms(worker[v])'
  <2>1. /\ RotatesOn(v, h) /\ worker'[v].host = h /\ worker[v].host = h
        /\ worker'[v].pc = worker[v].pc /\ worker'[v].sent = worker[v].sent
        /\ worker'[v].initial = worker[v].initial /\ worker'[v].alone = worker[v].alone
        /\ worker'[v].password = worker[v].password
    BY <1>3 DEF LeavesRotations, RotatesOn
  <2>2. Confirms(worker[v]) BY <2>1 DEF HostInv
  <2>3. \A u \in Rotated : dev'[h][u] = dev[h][u] /\ SamePassword(creds'[h][u], creds[h][u])
    BY DEF LeavesRotations, Alike
  <2> QED BY <1>2, <2>1, <2>2, <2>3 DEF Confirms, SamePassword
<1> QED BY <1>1, <1>3 DEF HostInv

LEMMA HostElsewhere ==
    ASSUME NEW h \in Host, HostInv(h), Elsewhere(h)
    PROVE  HostInv(h)'
<1>1. LeavesRotations(h) /\ states'[h] = states[h] BY DEF Elsewhere
<1>2. HasRotated(h)' <=> HasRotated(h) BY <1>1 DEF LeavesRotations, Alike, HasRotated
<1>3. Recalls(h)' BY <1>1, <1>2 DEF HostInv, Recalls
<1>4. h \notin doubted' /\ Told(h)' => Told(h) BY <1>1 DEF LeavesRotations, Told
<1>5. Matches(h)' BY <1>1, <1>4, MatchesStill DEF HostInv, LeavesRotations
<1> QED BY <1>1, <1>3, <1>5, HostLeft

(* A step of a goroutine that rotates h.                                   *)
LEMMA HostMoves ==
    ASSUME TInv, NEW h \in Host, HostInv(h), NEW w \in Worker, RotatesOn(w, h),
           NEW m \in WorkerRecord, worker' = [worker EXCEPT ![w] = m],
           m.pc = "host" \/ SameHost(m, worker[w]),
           h \in doubted => h \in doubted' \/ worker[w].alone,
           HasRotated(h) => HasRotated(h)', m.pc \in RotatingPc => Confirms(m)',
           Recalls(h)', Matches(h)'
    PROVE  HostInv(h)'
<1>1. worker'[w] = m /\ \A v \in Worker \ {w} : worker'[v] = worker[v] BY DEF TInv
<1>2. AloneOn(h)'
  <2>1. SUFFICES ASSUME NEW v \in Worker, RotatesOn(v, h)'
        PROVE  /\ worker'[v].alone => \A x \in Worker : RotatesOn(x, h)' => x = v
               /\ ~worker'[v].alone => h \in doubted'
    BY DEF AloneOn
  <2>2. \A x \in Worker : RotatesOn(x, h)' => RotatesOn(x, h) /\ worker'[x].alone = worker[x].alone
    BY <1>1 DEF RotatesOn, SameHost, RotatingPc, Dials
  <2>3. worker'[v].alone => \A x \in Worker : RotatesOn(x, h)' => x = v
    BY <2>1, <2>2 DEF HostInv, AloneOn
  <2>4. CASE ~worker'[v].alone
    <3>1. ~worker[v].alone /\ RotatesOn(v, h) BY <2>1, <2>2, <2>4
    <3>2. h \in doubted BY <3>1 DEF HostInv, AloneOn
    <3>3. ~worker[w].alone BY <3>1 DEF HostInv, AloneOn
    <3> QED BY <2>4, <3>2, <3>3
  <2> QED BY <2>3, <2>4
<1>3. ASSUME NEW v \in Worker, RotatesOn(v, h)' PROVE Confirms(worker[v])'
  <2>1. CASE v = w BY <1>1, <1>3, <2>1 DEF RotatesOn, Confirms
  <2>2. CASE v # w
    <3>1. worker'[v] = worker[v] BY <1>1, <2>2
    <3>2. RotatesOn(v, h) /\ worker[v].host = h BY <1>3, <3>1 DEF RotatesOn
    <3>3. Confirms(worker[v]) BY <3>2 DEF HostInv
    <3>4. ~worker[v].alone BY <2>2, <3>2 DEF HostInv, AloneOn
    <3> QED BY <3>1, <3>2, <3>3, <3>4 DEF Confirms
  <2> QED BY <2>1, <2>2
<1> QED BY <1>2, <1>3 DEF HostInv
(* It is given up: its state says so, or the host is in doubt if commands  *)
(* were sent.                                                              *)
LEMMA GivenUp ==
    ASSUME TInv, StateInv, NEW h \in Host, HostInv(h), NEW w \in Worker, RotatesOn(w, h),
           GiveUp(w), UNCHANGED dev,
           \/ \A u \in Rotated : SamePassword(creds'[h][u], creds[h][u])
           \/ worker[w].pc \in {"credentials", "state"}
    PROVE  HostInv(h)'
<1>1. At(w) \in RotatingPc /\ worker[w].host = h BY DEF RotatesOn, At
<1>2. PICK m \in WorkerRecord :
             /\ worker' = [worker EXCEPT ![w] = m] /\ m.pc = "host" /\ ~m.sent
             /\ doubted \subseteq doubted'
  BY <1>1, GiveUpStep
<1>3. HasRotated(h)' <=> HasRotated(h) BY DEF HasRotated
<1>4. worker'[w] = m /\ \A v \in Worker \ {w} : worker'[v] = worker[v] BY <1>2 DEF TInv
<1>5. Recalls(h)' /\ Matches(h)'
  <2>1. CASE states' = [states EXCEPT ![h].ok = FALSE]
    <3>1. states[h] # None BY <1>1 DEF StateInv, At
    <3>2. PICK g : g = states' OBVIOUS
    <3>3. g = NotOk(states, h) BY <2>1, <3>2 DEF NotOk
    <3>4. g[h] # None /\ ~g[h].ok /\ g[h].password = states[h].password
      BY <3>1, <3>3, MarkedNotOk DEF StateInv
    <3> QED BY <1>3, <3>1, <3>2, <3>4 DEF HostInv, Recalls, Matches, Told
  <2>2. CASE UNCHANGED states /\ doubted' = IF worker[w].sent THEN doubted \cup {h} ELSE doubted
    <3>1. Recalls(h)' BY <1>3, <2>2 DEF HostInv, Recalls
    <3>2. CASE worker[w].sent BY <2>2, <3>1, <3>2 DEF Matches
    <3>3. CASE ~worker[w].sent
      <4>1. worker[w].pc \notin {"credentials", "state"}
        BY <1>1, <3>3 DEF HostInv, Confirms
      <4>2. Alike(h) BY <4>1 DEF Alike
      <4>3. Told(h)' => Told(h) BY <1>4, <2>2, <3>3 DEF Told
      <4> QED BY <2>2, <3>1, <3>3, <4>2, <4>3, MatchesStill DEF HostInv
    <3> QED BY <3>2, <3>3
  <2> QED BY <1>1, <2>1, <2>2 DEF GiveUp
<1>6. m.pc \notin RotatingPc BY <1>2 DEF RotatingPc, Dials
<1> QED BY <1>2, <1>3, <1>5, <1>6, HostMoves

(* It goes on to m, and neither host nor tables change.                    *)
LEMMA GoneOn ==
    ASSUME TInv, NEW h \in Host, HostInv(h), NEW w \in Worker, RotatesOn(w, h),
           NEW m \in WorkerRecord, worker' = [worker EXCEPT ![w] = m],
           m.pc \in Dials \cup {"host", "managed"}, m.pc = "host" \/ SameHost(m, worker[w]),
           m.sent = worker[w].sent, m.pc \in {"host", "managed"} => ~m.sent,
           Alike(h), UNCHANGED <<states, doubted>>
    PROVE  HostInv(h)'
<1>1. worker[w].pc \in RotatingPc /\ worker[w].host = h BY DEF RotatesOn
<1>2. HasRotated(h)' <=> HasRotated(h) BY DEF HasRotated, Alike
<1>3. worker'[w] = m /\ \A v \in Worker \ {w} : worker'[v] = worker[v] BY DEF TInv
<1>4. Recalls(h)' BY <1>2 DEF HostInv, Recalls
<1>5. worker[w].sent => m.sent /\ m.host = h BY <1>1 DEF SameHost
<1>6. Told(h)' => Told(h) BY <1>3, <1>5 DEF Told
<1>7. Matches(h)' BY <1>6, MatchesStill DEF HostInv
<1>8. ASSUME m.pc \in RotatingPc PROVE Confirms(m)'
  <2>1. m.pc # "host" BY <1>8 DEF RotatingPc, Dials
  <2>2. m.host = h /\ m.initial = worker[w].initial BY <1>1, <2>1 DEF SameHost
  <2>3. Confirms(worker[w]) BY DEF HostInv
  <2>4. m.pc \notin {"credentials", "state"} BY <2>1 DEF Dials
  <2> QED BY <1>1, <1>2, <2>2, <2>3, <2>4 DEF Confirms
<1> QED BY <1>2, <1>4, <1>7, <1>8, HostMoves

(* Commands were sent: until they are confirmed nothing is told.           *)
LEMMA SentOn ==
    ASSUME TInv, NEW h \in Host, HostInv(h), NEW w \in Worker, RotatesOn(w, h),
           NEW m \in WorkerRecord, worker' = [worker EXCEPT ![w] = m],
           SameHost(m, worker[w]), m.sent, HasRotated(h) => HasRotated(h)',
           m.pc \in {"admin", "credentials", "state"}, UNCHANGED <<states, doubted>>,
           m.pc \in {"credentials", "state"} => HasRotated(h)',
           m.pc \in {"credentials", "state"} /\ m.alone =>
              \A u \in Rotated : dev'[h][u] = m.password,
           m.pc = "state" =>
              \A u \in Rotated : creds'[h][u] # None /\ creds'[h][u].password = m.password
    PROVE  HostInv(h)'
<1>1. worker[w].pc \in RotatingPc /\ worker[w].host = h BY DEF RotatesOn
<1>2. m.host = h /\ m.initial = worker[w].initial BY <1>1 DEF SameHost
<1>3. worker'[w] = m BY DEF TInv
<1>4. Recalls(h)' BY DEF HostInv, Recalls
<1>5. ~Told(h)' BY <1>2, <1>3 DEF Told
<1>6. Matches(h)' BY <1>5 DEF Matches
<1>7. Confirms(m)'
  <2>1. Confirms(worker[w]) BY DEF HostInv
  <2> QED BY <1>1, <1>2, <2>1 DEF Confirms
<1> QED BY <1>4, <1>6, <1>7, HostMoves

LEMMA CommandsOn ==
    ASSUME TInv, NEW h \in Host, HostInv(h), NEW w \in Worker, RotatesOn(w, h), SendCommands(w)
    PROVE  HostInv(h)'
<1>1. At(w) \in RotatingPc /\ worker[w].host = h BY DEF RotatesOn, At
<1>2. worker[w].password \in Password /\ worker[w].pc \in RotatingPc BY <1>1, RotatingWorker
<1>3. PICK x \in Password : x = worker[w].password /\ x # None BY <1>2, NoneApart
<1>4. PICK m \in WorkerRecord :
         /\ worker' = [worker EXCEPT ![w] = m] /\ InHand(m)
         /\ Commanded(w, m) \/ Broken(w, m) \/ Refused(w, m)
  BY SendCommandsStep
<1>5. UNCHANGED <<states, doubted, creds>> BY DEF SendCommands, tables, history
<1>6. ASSUME NEW G \in SUBSET Rotated, dev' = AfterCommands(w, Removed(w), G)
      PROVE  /\ HasRotated(h) => HasRotated(h)'
             /\ \A u \in G : dev'[h][u] = x
  <2>1. PICK d, R : d = dev' /\ R = Removed(w) OBVIOUS
  <2>2. d = AfterCommands(w, R, G) BY <1>6, <2>1
  <2>3. \A u \in User : d[h][u] = IF u \in G THEN x ELSE IF u \in R THEN None ELSE dev[h][u]
    BY <1>1, <1>3, <2>2, AfterCommandsOf
  <2>4. R \cap Rotated = {} BY <2>1 DEF Removed, ProtectedUsernames
  <2>5. \A u \in Rotated : d[h][u] = IF u \in G THEN x ELSE dev[h][u]
    BY <2>3, <2>4, RotatedUsers
  <2> QED BY <1>3, <2>1, <2>5 DEF HasRotated
<1>7. CASE Commanded(w, m)
  <2>1. PICK G \in SUBSET Rotated : G = Given(w) BY DEF Given
  <2>2. dev' = AfterCommands(w, Removed(w), G) BY <1>7, <2>1 DEF Commanded
  <2>3. G = Rotated
    <3>1. Confirms(worker[w]) BY DEF HostInv
    <3>2. h \notin Mikrotik \/ worker[w].initial \/ HasRotated(h) BY <1>1, <3>1 DEF Confirms
    <3> QED BY <1>1, <2>1, <3>2 DEF Given, HasRotated
  <2>4. \A u \in Rotated : dev'[h][u] = x BY <1>6, <2>2, <2>3
  <2>5. HasRotated(h)' BY <1>3, <2>4 DEF HasRotated
  <2>6. SameHost(m, worker[w]) /\ m.sent /\ m.pc = "credentials" BY <1>7 DEF Commanded
  <2>7. m.password = x BY <1>3, <2>6 DEF SameHost, SameRun
  <2> QED BY <1>4, <1>5, <2>4, <2>5, <2>6, <2>7, SentOn
<1>8. CASE Broken(w, m)
  <2>1. PICK G : /\ G \in {Given(w), Given(w) \cap {Fiberx}, {}}
                 /\ dev' = AfterCommands(w, Removed(w), G)
    BY <1>8 DEF Broken
  <2>2. G \subseteq Rotated BY <2>1 DEF Given
  <2>3. HasRotated(h) => HasRotated(h)' BY <1>6, <2>1, <2>2
  <2>4. SameHost(m, worker[w]) /\ m.sent /\ m.pc = "admin" BY <1>8 DEF Broken, TriesNext
  <2> QED BY <1>4, <1>5, <2>3, <2>4, SentOn
<1>9. CASE Refused(w, m)
  <2>1. Alike(h) BY <1>5, <1>9, SameAlike DEF Refused
  <2>2. SameHost(m, worker[w]) /\ m.sent = worker[w].sent /\ m.pc = "admin"
    BY <1>9 DEF Refused, TriesNext
  <2>3. m.pc \in Dials BY <2>2 DEF Dials
  <2> QED BY <1>4, <1>5, <2>1, <2>2, <2>3, GoneOn
<1> QED BY <1>4, <1>7, <1>8, <1>9

LEMMA CredentialsOn ==
    ASSUME TInv, StateInv, NEW h \in Host, HostInv(h), NEW w \in Worker, RotatesOn(w, h),
           SaveConfirmedCredentials(w)
    PROVE  HostInv(h)'
<1>1. At(w) \in RotatingPc /\ worker[w].host = h BY DEF RotatesOn, At
<1>2. worker[w].pc = "credentials" /\ UNCHANGED dev BY DEF SaveConfirmedCredentials, At
<1>3. PICK m \in WorkerRecord :
         /\ worker' = [worker EXCEPT ![w] = m]
         /\ \/ /\ SameHost(m, worker[w]) /\ m.pc = "state" /\ m.sent = worker[w].sent
               /\ creds' = Confirmed(w, Rotated) /\ UNCHANGED <<states, doubted>>
            \/ GiveUp(w)
  BY SaveConfirmedCredentialsStep
<1>4. CASE GiveUp(w) BY <1>2, <1>4, GivenUp
<1>5. CASE /\ SameHost(m, worker[w]) /\ m.pc = "state" /\ m.sent = worker[w].sent
           /\ creds' = Confirmed(w, Rotated) /\ UNCHANGED <<states, doubted>>
  <2>1. PICK c, U : c = creds' /\ U = Rotated OBVIOUS
  <2>2. c = Confirmed(w, U) BY <1>5, <2>1
  <2>3. PICK x : x = [password |-> worker[w].password, ok |-> TRUE] OBVIOUS
  <2>4. \A u \in User : c[h][u] = IF u \in U THEN x ELSE creds[h][u]
    BY <1>1, <2>2, <2>3, ConfirmedOf
  <2>5. x \in Credential BY <1>1, <2>3, RotatingWorker DEF Credential
  <2>6. x.password = m.password BY <1>5, <2>3 DEF SameHost, SameRun
  <2>7. \A u \in Rotated : creds'[h][u] # None /\ creds'[h][u].password = m.password
    BY <2>1, <2>4, <2>5, <2>6, RotatedUsers, NoneApart
  <2>8. Confirms(worker[w]) BY DEF HostInv
  <2>9. m.alone = worker[w].alone /\ m.password = worker[w].password
    BY <1>5 DEF SameHost, SameRun
  <2>10. /\ HasRotated(h) /\ worker[w].sent
         /\ m.alone => \A u \in Rotated : dev'[h][u] = m.password
    BY <1>1, <1>2, <2>8, <2>9 DEF Confirms
  <2>11. HasRotated(h)' BY <1>2, <2>10 DEF HasRotated
  <2> QED BY <1>3, <1>5, <2>7, <2>10, <2>11, SentOn
<1> QED BY <1>3, <1>4, <1>5
LEMMA StateOn ==
    ASSUME TInv, StateInv, NEW h \in Host, HostInv(h), NEW w \in Worker, RotatesOn(w, h),
           UpdateAfterApply(w)
    PROVE  HostInv(h)'
<1>1. At(w) \in RotatingPc /\ worker[w].host = h BY DEF RotatesOn, At
<1>2. worker[w].pc = "state" /\ UNCHANGED <<dev, creds>> BY DEF UpdateAfterApply, At
<1>3. PICK m \in WorkerRecord :
         worker' = [worker EXCEPT ![w] = m] /\ (Recorded(w, m) \/ Unrecorded(w, m))
  BY UpdateAfterApplyStep
<1>4. Confirms(worker[w]) BY DEF HostInv
<1>5. HasRotated(h) /\ HasRotated(h)' BY <1>1, <1>2, <1>4 DEF Confirms, HasRotated
<1>6. /\ ~worker[w].alone => h \in doubted
      /\ worker[w].alone => \A u \in Rotated : Shown(h, u)' = dev'[h][u]
  <2>1. worker[w].alone =>
           \A u \in Rotated : /\ dev'[h][u] = worker[w].password
                              /\ creds'[h][u] # None /\ creds'[h][u].password = worker[w].password
    BY <1>1, <1>2, <1>4 DEF Confirms
  <2> QED BY <2>1 DEF HostInv, AloneOn, Shown
<1>7. Recalls(h)' BY <1>5 DEF Recalls
<1>8. ~worker[w].alone => h \in doubted'
  BY <1>3, <1>6 DEF Recorded, Unrecorded
<1>9. Matches(h)' BY <1>6, <1>8 DEF Matches
<1>10. h \in doubted => h \in doubted' \/ worker[w].alone
  BY <1>8
<1>11. m.pc = "host" \/ (m.pc = "managed" /\ ~m.sent /\ SameHost(m, worker[w]))
  BY <1>3 DEF Recorded, Unrecorded, GoesOn
<1>12. m.pc \in RotatingPc => Confirms(m)'
  <2>1. "host" \notin RotatingPc BY DEF RotatingPc, Dials
  <2> QED BY <1>1, <1>5, <1>11, <2>1 DEF Confirms, SameHost
<1> QED BY <1>3, <1>5, <1>7, <1>9, <1>10, <1>11, <1>12, HostMoves

LEMMA SavedOn ==
    ASSUME TInv, NEW h \in Host, h \notin mixed', HostInv(h), NEW w \in Worker,
           RotatesOn(w, h), ApplySavedUsers(w)
    PROVE  HostInv(h)'
<1>1. worker[w].pc \in RotatingPc /\ worker[w].host = h BY DEF RotatesOn
<1>2. worker[w].pc = "managed" /\ UNCHANGED <<states, doubted>>
  BY DEF ApplySavedUsers, At, history
<1>3. PICK m \in WorkerRecord :
         /\ worker' = [worker EXCEPT ![w] = m]
         /\ GoesOn(w, m) \/ Manages(w, m)
  BY ApplySavedUsersStep
<1>4. Confirms(worker[w]) BY <1>1 DEF HostInv
<1>5. ~worker[w].sent /\ ~m.sent BY <1>2, <1>3, <1>4 DEF Confirms, GoesOn, Manages
<1>6. worker[w] \in WorkerRecord BY Worked
<1>7. m.sent = worker[w].sent BY <1>5, <1>6 DEF WorkerRecord
<1>8. Alike(h)
  <2>1. \/ UNCHANGED <<dev, creds>>
        \/ \E u \in User : \E ok \in BOOLEAN : u \notin Rotated /\ GiveUser(h, u, ok)
    BY <1>1, ApplySavedUsersStep
  <2> QED BY <2>1, SameAlike, GiveUserAlike
<1>9. m.pc = "host" \/ (m.pc = "managed" /\ SameHost(m, worker[w]))
  BY <1>3 DEF GoesOn, Manages
<1> QED BY <1>2, <1>3, <1>5, <1>7, <1>8, <1>9, GoneOn

LEMMA FailureOn ==
    ASSUME TInv, StateInv, NEW h \in Host, HostInv(h), NEW w \in Worker, RotatesOn(w, h),
           MarkCredentialFailure(w)
    PROVE  HostInv(h)'
<1>1. At(w) \in RotatingPc /\ worker[w].host = h BY DEF RotatesOn, At
<1>2. UNCHANGED dev BY DEF MarkCredentialFailure
<1>3. \A u \in Rotated : SamePassword(creds'[h][u], creds[h][u])
  <2>1. \A u \in User :
           /\ creds'[h][u] = None <=> creds[h][u] = None
           /\ creds[h][u] # None => creds'[h][u].password = creds[h][u].password
    BY MarkCredentialFailureStep
  <2> QED BY <2>1, RotatedUsers DEF SamePassword
<1>4. CASE GiveUp(w) BY <1>2, <1>3, <1>4, GivenUp
<1>5. CASE states' = [states EXCEPT ![h].ok = FALSE] /\ UNCHANGED doubted
  <2>1. PICK m \in WorkerRecord : worker' = [worker EXCEPT ![w] = m] /\ m.pc = "host"
    BY MarkCredentialFailureStep DEF GoesOn
  <2>2. states[h] # None BY <1>1 DEF StateInv, At
  <2>3. PICK g : g = states' OBVIOUS
  <2>4. g = NotOk(states, h) BY <1>5, <2>3 DEF NotOk
  <2>5. g[h] # None /\ ~g[h].ok /\ g[h].password = states[h].password
    BY <2>2, <2>4, MarkedNotOk DEF StateInv
  <2>6. HasRotated(h)' <=> HasRotated(h) BY <1>2 DEF HasRotated
  <2>7. Recalls(h)' /\ Matches(h)'
    BY <2>2, <2>3, <2>5, <2>6 DEF HostInv, Recalls, Matches, Told
  <2>8. m.pc \notin RotatingPc BY <2>1 DEF RotatingPc, Dials
  <2> QED BY <1>5, <2>1, <2>6, <2>7, <2>8, HostMoves
<1> QED BY <1>1, <1>4, <1>5, MarkCredentialFailureStep

(* The step of a goroutine that rotates h.                                 *)
LEMMA HostRotation ==
    ASSUME TInv, StateInv, NEW h \in Host, h \notin mixed', HostInv(h), NEW w \in Worker,
           RotatesOn(w, h), Rotation(w)
    PROVE  HostInv(h)'
<1>1. worker[w].pc # "host" BY DEF RotatesOn, RotatingPc, Dials
<1>2. ~BeginHost(w) BY <1>1 DEF BeginHost, At
<1>3. CASE ListProtectedKeepUsers(w)
  <2>1. UNCHANGED <<dev, creds>> BY <1>3 DEF ListProtectedKeepUsers
  <2>2. CASE GiveUp(w) BY <2>1, <2>2, GivenUp DEF SamePassword
  <2>3. CASE ~GiveUp(w)
    <3>1. PICK m \in WorkerRecord :
             /\ worker' = [worker EXCEPT ![w] = m]
             /\ Discovers(w, m) /\ UNCHANGED <<states, doubted>>
      BY <1>3, <2>3, ListProtectedKeepUsersStep
    <3>2. m.pc = "discover" /\ SameHost(m, worker[w]) /\ m.sent = worker[w].sent
      BY <3>1 DEF Discovers
    <3>3. Alike(h) BY <2>1, SameAlike
    <3> QED BY <3>1, <3>2, <3>3, GoneOn DEF Dials
  <2> QED BY <2>2, <2>3
<1>4. CASE DiscoverExistingUsers(w)
  <2>1. UNCHANGED <<dev, creds, states, doubted>>
    BY <1>4 DEF DiscoverExistingUsers, tables, history
  <2>2. PICK m \in WorkerRecord :
             /\ worker' = [worker EXCEPT ![w] = m]
             /\ Sends(w, m) \/ (TriesNext(w, m) /\ m.sent = worker[w].sent)
    BY <1>4, DiscoverExistingUsersStep
  <2>3. m.pc \in {"send", "admin"} /\ SameHost(m, worker[w]) /\ m.sent = worker[w].sent
    BY <2>2 DEF Sends, TriesNext
  <2>4. Alike(h) BY <2>1, SameAlike
  <2> QED BY <2>1, <2>2, <2>3, <2>4, GoneOn DEF Dials
<1> QED BY <1>2, <1>3, <1>4, CommandsOn, CredentialsOn, StateOn, SavedOn, FailureOn DEF Rotation
(* What it does to another host h.                                         *)
LEMMA AlikeElsewhere ==
    ASSUME TInv, NEW h \in Host, NEW w \in Worker, Rotation(w), ~BeginHost(w),
           worker[w].pc \in RotatingPc, worker[w].host # h
    PROVE  Alike(h)
<1>1. At(w) \in RotatingPc /\ worker[w].host \in Host BY RotatingWorker DEF At
<1>2. CASE SendCommands(w)
  <2>1. UNCHANGED creds BY <1>2 DEF SendCommands, tables
  <2>2. UNCHANGED dev \/ \E G : dev' = AfterCommands(w, Removed(w), G) BY <1>2 DEF SendCommands
  <2>3. ASSUME NEW G, dev' = AfterCommands(w, Removed(w), G) PROVE dev'[h] = dev[h]
    <3>1. PICK d, R : d = dev' /\ R = Removed(w) OBVIOUS
    <3>2. d = AfterCommands(w, R, G) BY <2>3, <3>1
    <3>3. \A g \in Host : g # worker[w].host => d[g] = dev[g] BY <1>1, <3>2, AfterCommandsOf
    <3> QED BY <3>1, <3>3
  <2> QED BY <2>1, <2>2, <2>3 DEF Alike, SamePassword
<1>3. CASE SaveConfirmedCredentials(w)
  <2>1. UNCHANGED dev BY <1>3 DEF SaveConfirmedCredentials
  <2>2. UNCHANGED creds \/ \E U : creds' = Confirmed(w, U) BY <1>3 DEF SaveConfirmedCredentials
  <2>3. ASSUME NEW U, creds' = Confirmed(w, U) PROVE creds'[h] = creds[h]
    <3>1. PICK c : c = creds' OBVIOUS
    <3>2. c = Confirmed(w, U) BY <2>3, <3>1
    <3>3. PICK x : x = [password |-> worker[w].password, ok |-> TRUE] OBVIOUS
    <3>4. /\ \A g \in Host : g # worker[w].host => c[g] = creds[g]
          /\ \A u \in User : c[worker[w].host][u] = IF u \in U THEN x
                                                   ELSE creds[worker[w].host][u]
      BY <1>1, <3>2, <3>3, ConfirmedOf
    <3> QED BY <3>1, <3>4
  <2> QED BY <2>1, <2>2, <2>3 DEF Alike, SamePassword
<1>4. CASE MarkCredentialFailure(w)
  <2>1. UNCHANGED dev BY <1>4 DEF MarkCredentialFailure
  <2>2. \A u \in User :
           /\ creds'[h][u] = None <=> creds[h][u] = None
           /\ creds[h][u] # None => creds'[h][u].password = creds[h][u].password
    BY <1>4, MarkCredentialFailureStep
  <2> QED BY <2>1, <2>2, RotatedUsers DEF Alike, SamePassword
<1>5. CASE ApplySavedUsers(w)
  <2>1. \/ UNCHANGED <<dev, creds>>
        \/ \E u \in User : \E ok \in BOOLEAN : GiveUser(worker[w].host, u, ok)
    BY <1>5, ApplySavedUsersStep
  <2> QED BY <1>1, <2>1, SameAlike, GiveUserAlike
<1>6. CASE ListProtectedKeepUsers(w) \/ DiscoverExistingUsers(w) \/ UpdateAfterApply(w)
  BY <1>6, SameAlike DEF ListProtectedKeepUsers, DiscoverExistingUsers, UpdateAfterApply, tables
<1> QED BY <1>2, <1>3, <1>4, <1>5, <1>6 DEF Rotation

LEMMA RotationElsewhere ==
    ASSUME TInv, StateInv, NEW h \in Host, NEW w \in Worker, Rotation(w),
           ~BeginHost(w), ~RotatesOn(w, h)
    PROVE  Elsewhere(h)
<1>1. PICK m \in WorkerRecord :
         /\ worker' = [worker EXCEPT ![w] = m] /\ worker[w].pc \in RotatingPc
         /\ m.pc = "host" \/ SameHost(m, worker[w])
  BY RotationMoves
<1>2. PICK k : k = worker[w].host /\ k # h BY <1>1 DEF RotatesOn
<1>3. Alike(h) BY <1>1, <1>2, AlikeElsewhere
<1>4. states'[h] = states[h] /\ (h \in doubted => h \in doubted')
  <2>1. \/ UNCHANGED states \/ states' = [states EXCEPT ![k].ok = FALSE]
        \/ states' = [states EXCEPT ![k] = [password |-> worker[w].password, ok |-> TRUE]]
    BY <1>2 DEF Rotation, ListProtectedKeepUsers, DiscoverExistingUsers, SendCommands,
       SaveConfirmedCredentials, UpdateAfterApply, ApplySavedUsers, MarkCredentialFailure, GiveUp,
       tables
  <2>2. doubted' \in {doubted, doubted \cup {k}, doubted \ {k}}
    BY <1>2 DEF Rotation, ListProtectedKeepUsers, DiscoverExistingUsers, SendCommands,
       SaveConfirmedCredentials, UpdateAfterApply, ApplySavedUsers, MarkCredentialFailure, GiveUp,
       history
  <2> QED BY <1>2, <2>1, <2>2 DEF StateInv
<1>5. worker'[w] = m /\ \A v \in Worker \ {w} : worker'[v] = worker[v] BY <1>1 DEF TInv
<1>6. ~RotatesOn(w, h)'
  BY <1>1, <1>2, <1>5 DEF RotatesOn, SameHost, RotatingPc, Dials
<1> QED BY <1>2, <1>3, <1>4, <1>5, <1>6 DEF Elsewhere, LeavesRotations, RotatesOn

(* Goroutine w begins with a host, or skips it.                            *)
LEMMA BeginOn ==
    ASSUME TInv, StateInv, NEW h \in Host, HostInv(h), NEW w \in Worker, BeginHost(w),
           NEW m \in WorkerRecord, Begins(w, m, h), Others(w, h), worker'[w] = m
    PROVE  HostInv(h)'
<1>1. worker[w].pc = "host" BY DEF BeginHost, At
<1>2. "host" \notin RotatingPc /\ "admin" \in RotatingPc BY DEF RotatingPc, Dials
<1>3. UNCHANGED <<dev, creds>> BY DEF BeginHost
<1>4. HasRotated(h)' <=> HasRotated(h) BY <1>3 DEF HasRotated
<1>5. ASSUME NEW v \in Worker, v # w
      PROVE  /\ SameButAlone(worker'[v], worker[v])
             /\ RotatesOn(v, h) => ~worker'[v].alone
  <2>1. \A v2 \in Worker \ {w} : SameButAlone(worker'[v2], worker[v2])
    BY RotationMoves DEF Rotation
  <2>2. worker'[v] = [worker[v] EXCEPT !.alone = @ /\ v \notin RotatingElsewhere(w, h)]
    BY <1>5 DEF Others
  <2>3. RotatesOn(v, h) => v \in RotatingElsewhere(w, h)
    BY <1>5 DEF RotatesOn, RotatingElsewhere, Rotating, At, RotatingPc, Dials
  <2>4. worker[v] \in WorkerRecord BY Worked
  <2> QED BY <1>5, <2>1, <2>2, <2>3, <2>4 DEF WorkerRecord
<1>6. RotatingElsewhere(w, h) = {} <=> \A v \in Worker \ {w} : ~RotatesOn(v, h)
  BY DEF RotatesOn, RotatingElsewhere, Rotating, At, RotatingPc, Dials
<1>7. \A v \in Worker \ {w} : RotatesOn(v, h)' <=> RotatesOn(v, h)
  BY <1>5 DEF SameButAlone, RotatesOn
<1>8. (h \in doubted => h \in doubted') /\ (RotatingElsewhere(w, h) # {} => h \in doubted')
  BY DEF Begins
<1>9. AloneOn(h)'
  <2>1. SUFFICES ASSUME NEW v \in Worker, RotatesOn(v, h)'
        PROVE  /\ worker'[v].alone => \A x \in Worker : RotatesOn(x, h)' => x = v
               /\ ~worker'[v].alone => h \in doubted'
    BY DEF AloneOn
  <2>2. CASE v = w
    <3>1. worker'[v].alone = (RotatingElsewhere(w, h) = {}) BY <2>2 DEF Begins
    <3> QED BY <1>6, <1>7, <1>8, <2>2, <3>1
  <2>3. CASE v # w
    <3>1. RotatesOn(v, h) BY <1>7, <2>1, <2>3
    <3> QED BY <1>5, <1>6, <1>8, <2>3, <3>1
  <2> QED BY <2>2, <2>3
<1>10. PICK t : t = states' /\ t = Touched(h) BY DEF Begins
<1>11. /\ t[h] # None
       /\ states[h] # None => t[h] = states[h]
       /\ states[h] = None => t[h].password = None /\ ~t[h].ok
  BY <1>10, TouchedState
<1>12. Recalls(h)' BY <1>4, <1>10, <1>11 DEF HostInv, Recalls
<1>13. Matches(h)'
  <2>1. CASE states[h] = None BY <1>10, <1>11, <2>1 DEF Matches, Told
  <2>2. CASE states[h] # None
    <3>1. states'[h] = states[h] BY <1>10, <1>11, <2>2
    <3>2. ~worker[w].sent BY <1>1, <1>2, Worked DEF InHand
    <3>3. Told(h)' => Told(h) BY <1>5, <3>1, <3>2 DEF Told, SameButAlone
    <3> QED BY <1>3, <1>8, <3>1, <3>3, SameAlike, MatchesStill DEF HostInv
  <2> QED BY <2>1, <2>2
<1>14. ASSUME NEW v \in Worker, RotatesOn(v, h)' PROVE Confirms(worker[v])'
  <2>1. CASE v = w
    <3>1. /\ m.pc = "admin" /\ m.host = h
          /\ m.initial = (states[h] = None \/ states[h].password = None)
      BY DEF Begins
    <3>2. ~m.initial /\ h \in Mikrotik => HasRotated(h) BY <3>1 DEF HostInv, Recalls
    <3> QED BY <1>4, <2>1, <3>1, <3>2 DEF Confirms
  <2>2. CASE v # w
    <3>1. RotatesOn(v, h) /\ worker[v].host = h BY <1>7, <1>14, <2>2 DEF RotatesOn
    <3>2. Confirms(worker[v]) BY <3>1 DEF HostInv
    <3>3. SameButAlone(worker'[v], worker[v]) /\ ~worker'[v].alone BY <1>5, <2>2, <3>1
    <3> QED BY <1>4, <3>1, <3>2, <3>3 DEF Confirms, SameButAlone
  <2> QED BY <2>1, <2>2
<1> QED BY <1>9, <1>12, <1>13, <1>14 DEF HostInv

LEMMA BeginElsewhere ==
    ASSUME TInv, StateInv, NEW h \in Host, NEW g \in Host \ {h}, NEW w \in Worker, BeginHost(w),
           NEW m \in WorkerRecord, Begins(w, m, g), Others(w, g), worker'[w] = m
    PROVE  Elsewhere(h)
<1>1. worker[w].pc = "host" /\ UNCHANGED <<dev, creds>> BY DEF BeginHost, At
<1>2. "host" \notin RotatingPc BY DEF RotatingPc, Dials
<1>3. Alike(h) BY <1>1, SameAlike
<1>4. states'[h] = states[h]
  <2>1. PICK t : t = states' /\ t = Touched(g) BY DEF Begins
  <2>2. t[h] = states[h] BY <2>1, TouchedState
  <2> QED BY <2>1, <2>2
<1>5. h \in doubted => h \in doubted' BY DEF Begins
<1>6. ASSUME NEW v \in Worker, v # w
      PROVE  /\ SameButAlone(worker'[v], worker[v])
             /\ worker[v].host = h => worker'[v].alone = worker[v].alone
  <2>1. \A v2 \in Worker \ {w} : SameButAlone(worker'[v2], worker[v2])
    BY RotationMoves DEF Rotation
  <2>2. worker'[v] = [worker[v] EXCEPT !.alone = @ /\ v \notin RotatingElsewhere(w, g)]
    BY <1>6 DEF Others
  <2>3. worker[v].host = h => v \notin RotatingElsewhere(w, g) BY DEF RotatingElsewhere
  <2>4. worker[v] \in WorkerRecord BY Worked
  <2> QED BY <1>6, <2>1, <2>2, <2>3, <2>4 DEF WorkerRecord
<1>7. ~RotatesOn(w, h)' BY DEF RotatesOn, Begins
<1>8. ~worker[w].sent BY <1>1, <1>2, Worked DEF InHand
<1> QED BY <1>3, <1>4, <1>5, <1>6, <1>7, <1>8 DEF Elsewhere, LeavesRotations, RotatesOn, SameButAlone
LEMMA SkipOn ==
    ASSUME TInv, StateInv, NEW h \in Host, HostInv(h), NEW w \in Worker, BeginHost(w),
           NEW g \in Host, NEW m \in WorkerRecord, InHand(m), Skips(w, m, g),
           worker' = [worker EXCEPT ![w] = m]
    PROVE  HostInv(h)'
<1>1. worker[w].pc = "host" /\ UNCHANGED <<dev, creds>> BY DEF BeginHost, At
<1>2. "host" \notin RotatingPc BY DEF RotatingPc, Dials
<1>3. Alike(h) BY <1>1, SameAlike
<1>4. m.pc = "host" /\ UNCHANGED doubted BY DEF Skips
<1>5. worker'[w] = m /\ \A v \in Worker \ {w} : worker'[v] = worker[v] BY DEF TInv
<1>6. ~worker[w].sent BY <1>1, <1>2, Worked DEF InHand
<1>7. LeavesRotations(h) BY <1>2, <1>3, <1>4, <1>5, <1>6 DEF LeavesRotations, RotatesOn
<1>8. PICK t \in [Host -> HostState \cup {None}] :
         /\ t = Touched(g) /\ t[g] # None
         /\ states[g] # None => t = states
         /\ states[g] = None => t[g].password = None /\ ~t[g].ok
         /\ \A k \in Host \ {g} : t[k] = states[k]
  BY TouchedState
<1>9. CASE states'[h] = states[h] BY <1>7, <1>9, HostElsewhere DEF Elsewhere
<1>10. CASE states' = [t EXCEPT ![g].ok = FALSE]
  <2>1. PICK s : s = states' OBVIOUS
  <2>2. s = NotOk(t, g) BY <1>10, <2>1 DEF NotOk
  <2>3. /\ s[g] # None /\ ~s[g].ok /\ s[g].password = t[g].password
        /\ \A k \in Host \ {g} : s[k] = t[k]
    BY <1>8, <2>2, MarkedNotOk
  <2>4. CASE h # g BY <1>8, <1>9, <2>1, <2>3, <2>4
  <2>5. CASE h = g
    <3>1. HasRotated(h)' <=> HasRotated(h) BY <1>1 DEF HasRotated
    <3>2. states[h] = None => s[h].password = None BY <1>8, <2>3, <2>5
    <3>3. states[h] # None => s[h].password = states[h].password BY <1>8, <2>3, <2>5
    <3>4. Recalls(h)' BY <2>1, <3>1, <3>2, <3>3 DEF HostInv, Recalls
    <3>5. Matches(h)' BY <2>1, <2>3, <2>5 DEF Matches, Told
    <3> QED BY <1>7, <3>4, <3>5, HostLeft
  <2> QED BY <2>4, <2>5
<1> QED BY <1>8, <1>9, <1>10 DEF Skips

LEMMA HostBegins ==
    ASSUME TInv, StateInv, NEW h \in Host, HostInv(h), NEW w \in Worker, BeginHost(w)
    PROVE  HostInv(h)'
<1>1. PICK g \in Host, m \in WorkerRecord :
             /\ InHand(m) /\ Refers(m, policies)
             /\ \/ /\ Begins(w, m, g) /\ Others(w, g) /\ worker'[w] = m
                   /\ worker' = [v \in Worker |-> worker'[v]]
                \/ Skips(w, m, g) /\ worker' = [worker EXCEPT ![w] = m]
  BY BeginHostStep
<1>2. CASE Skips(w, m, g) /\ worker' = [worker EXCEPT ![w] = m] BY <1>1, <1>2, SkipOn
<1>3. CASE Begins(w, m, g) /\ Others(w, g) /\ worker'[w] = m
  <2>1. CASE g = h BY <1>3, <2>1, BeginOn
  <2>2. CASE g # h
    <3>1. g \in Host \ {h} BY <2>2
    <3> QED BY <1>3, <3>1, BeginElsewhere, HostElsewhere
  <2> QED BY <2>1, <2>2
<1> QED BY <1>1, <1>2, <1>3

LEMMA RestElsewhere ==
    ASSUME TInv, [Next]_vars, \A w \in Worker : ~Rotation(w), NEW h \in Host, h \notin mixed'
    PROVE  Elsewhere(h)
<1>1. RotationsGoOn BY RotationOrNot
<1>2. Alike(h) BY RestAlike
<1>3. ASSUME NEW v \in Worker, worker[v].sent, worker[v].host = h
      PROVE  (worker'[v].sent /\ worker'[v].host = h) \/ h \in doubted'
  <2>1. CASE worker[v].host \in doubted' BY <1>3, <2>1
  <2>2. CASE worker'[v].sent
    <3>1. TInv' BY TInvStep
    <3>2. InHand(worker'[v]) BY <3>1 DEF TInv, InHand
    <3>3. worker'[v].pc \in RotatingPc BY <2>2, <3>2 DEF InHand
    <3> QED BY <1>1, <1>3, <2>2, <3>3 DEF RotationsGoOn, SameRotation
  <2> QED BY <1>1, <1>3, <2>1, <2>2 DEF RotationsGoOn
<1> QED BY <1>1, <1>2, <1>3 DEF Elsewhere, LeavesRotations, RotationsGoOn, SameRotation, RotatesOn

LEMMA ConfirmStep == TInv /\ StateInv /\ ConfirmInv /\ [Next]_vars => ConfirmInv'
<1> SUFFICES ASSUME TInv, StateInv, ConfirmInv, [Next]_vars, NEW h \in Host, h \notin mixed'
             PROVE  HostInv(h)'
  BY DEF ConfirmInv
<1>1. HostInv(h) BY MixedStep DEF ConfirmInv
<1>2. CASE \A w \in Worker : ~Rotation(w) BY <1>1, <1>2, RestElsewhere, HostElsewhere
<1>3. ASSUME NEW w \in Worker, Rotation(w) PROVE HostInv(h)'
  <2>1. CASE BeginHost(w) BY <1>1, <2>1, HostBegins
  <2>2. CASE RotatesOn(w, h) BY <1>1, <1>3, <2>2, HostRotation
  <2>3. CASE ~BeginHost(w) /\ ~RotatesOn(w, h)
    BY <1>1, <1>3, <2>3, RotationElsewhere, HostElsewhere
  <2> QED BY <2>1, <2>2, <2>3
<1> QED BY <1>2, <1>3

LEMMA ConfirmInit == Init => ConfirmInv
<1> SUFFICES ASSUME Init PROVE ConfirmInv OBVIOUS
<1>1. \A w \in Worker : worker[w] = Idle BY DEF Init
<1>2. Idle.pc = "idle" /\ ~Idle.sent BY DEF Idle
<1>3. \A w \in Worker : worker[w].pc \notin RotatingPc /\ ~worker[w].sent
  BY <1>1, <1>2 DEF RotatingPc, Dials
<1>4. ASSUME NEW h \in Host PROVE HostInv(h)
  <2>1. PICK s : s = [password |-> Earlier, ok |-> TRUE] OBVIOUS
  <2>2. Earlier \in Password BY DEF Password
  <2>3. s \in Credential BY <2>1, <2>2 DEF Credential
  <2>4. CASE h \notin RotatedBefore
    <3>1. states[h] = None BY <2>4 DEF Init
    <3> QED BY <1>3, <3>1 DEF HostInv, AloneOn, RotatesOn, Recalls, Matches, Told
  <2>5. CASE h \in RotatedBefore
    <3>1. \A u \in Rotated : dev[h][u] = Earlier BY <2>5, RotatedUsers DEF Init
    <3>2. \A u \in Rotated : creds[h][u] = s BY <2>1, <2>5, RotatedUsers DEF Init
    <3>3. HasRotated(h) BY <2>2, <3>1, NoneApart DEF HasRotated
    <3>4. ASSUME NEW u \in Rotated PROVE Shown(h, u) = dev[h][u]
      <4>1. s # None /\ s.password = Earlier BY <2>1, <2>3, NoneApart
      <4>2. creds[h][u] = s /\ dev[h][u] = Earlier BY <3>1, <3>2
      <4> QED BY <4>1, <4>2 DEF Shown
    <3> QED BY <1>3, <3>3, <3>4 DEF HostInv, AloneOn, RotatesOn, Recalls, Matches
  <2> QED BY <2>4, <2>5
<1> QED BY <1>4 DEF ConfirmInv

(* What the page of all devices shows for FIBERX and SUPPORT is what the   *)
(* device has, when its state says the rotation succeeded and none is      *)
(* under way: whatever calls failed, whichever commands of a broken        *)
(* session ran, and whatever other users were given or taken meanwhile     *)
(* (ApplyToNocDataDevice, saveConfirmedCredential, UpdateAfterApply).      *)
THEOREM ConfirmedPasswordsAreActual == Spec => []ConfirmedIsActual
<1>1. Spec => []ConfirmInv BY ConfirmInit, ConfirmStep, TInvAlways, StateAlways, PTL DEF Spec
<1>2. TInv /\ ConfirmInv => ConfirmedIsActual
  <2> SUFFICES ASSUME TInv, ConfirmInv, NEW h \in Host \ (doubted \cup mixed), states[h] # None, states[h].ok,
                      \A w \in Worker : ~(Rotating(w) /\ worker[w].host = h)
               PROVE  \A u \in Rotated : Shown(h, u) = dev[h][u]
    BY DEF ConfirmedIsActual
  <2>1. \A w \in Worker : worker[w].sent => Rotating(w)
    BY Worked DEF InHand, Rotating, At, RotatingPc, Dials
  <2>2. Told(h) BY <2>1 DEF Told
  <2> QED BY <2>2 DEF ConfirmInv, HostInv, Matches
<1> QED BY <1>1, <1>2, TInvAlways, PTL
=============================================================================
