--------------------------- MODULE BetterStack_proofs ---------------------------
(***************************************************************************)
(* Proofs about BetterStack, for every set of incidents and every           *)
(* interval, lookback and bound: type correctness and EachLossExplained.    *)
(***************************************************************************)
EXTENDS BetterStack, SequenceTheorems, FiniteSetTheorems, TLAPS

(* What the worker keeps of the calls before: an incident it posts has no   *)
(* row, and the message in hand is about it and is no row's.                *)
WorkerKnows ==
    /\ \A i, j \in worker.cur : i = j
    /\ worker.pc \in {"post", "instruct", "save"} => worker.cur \cap DOMAIN rows = {}
    /\ worker.pc \in {"instruct", "save"} =>
         /\ worker.ts \in DOMAIN parents
         /\ \A i \in worker.cur : parents[worker.ts] = i
         /\ \A i \in DOMAIN rows : rows[i].ts # worker.ts

BSInv == TypeOK /\ WorkerKnows

-----------------------------------------------------------------------------
(* What a step does to the goroutine                                        *)

Pc == {"idle", "list", "find", "post", "instruct", "save", "open", "get", "mark",
       "due", "remind", "bump"}

LEMMA GotoMoves ==
    ASSUME worker \in WorkerRecord, NEW pc \in Pc, Goto(pc)
    PROVE  /\ worker' \in WorkerRecord /\ worker'.pc = pc
           /\ worker'.at = worker.at /\ worker'.todo = worker.todo
           /\ worker'.cur = worker.cur /\ worker'.ts = worker.ts
  BY DEF Goto, WorkerRecord, Pc

LEMMA OverMoves ==
    ASSUME worker \in WorkerRecord, NEW pc \in Pc, NEW list \in SUBSET Incident, Over(pc, list)
    PROVE  /\ worker' \in WorkerRecord /\ worker'.pc = pc
           /\ worker'.at = worker.at /\ worker'.todo = list
           /\ worker'.cur = {} /\ worker'.ts = worker.ts
  BY DEF Over, WorkerRecord, Pc

LEMMA TakeMoves ==
    ASSUME worker \in WorkerRecord, NEW pc \in Pc, NEW i \in Incident, Take(pc, i)
    PROVE  /\ worker' \in WorkerRecord /\ worker'.pc = pc
           /\ worker'.at = worker.at /\ worker'.todo = worker.todo \ {i}
           /\ worker'.cur = {i} /\ worker'.ts = worker.ts
<1> DEFINE rest == worker.todo \ {i}
           r == [worker EXCEPT !.pc = pc, !.todo = rest, !.cur = {i}]
<1>1. worker' = r BY DEF Take
<1>2. rest \in SUBSET Incident BY DEF WorkerRecord
<1>3. {i} \in SUBSET Incident OBVIOUS
<1> HIDE DEF rest
<1>4. /\ r \in WorkerRecord /\ r.pc = pc /\ r.at = worker.at /\ r.todo = rest
      /\ r.cur = {i} /\ r.ts = worker.ts
  BY <1>2, <1>3 DEF WorkerRecord, Pc
<1> HIDE DEF r
<1> QED BY <1>1, <1>4 DEF rest

LEMMA IdleWorker ==
    Idle \in WorkerRecord /\ Idle.pc = "idle" /\ Idle.at = 0 /\ Idle.todo = {} /\ Idle.cur = {}
  BY DEF Idle, WorkerRecord

LEMMA FaultsType ==
    ASSUME faults \in 0..MaxFaults, Succeeds \/ Fails PROVE faults' \in 0..MaxFaults
<1>1. MaxFaults \in Nat BY BetterStackAssumption
<1> QED BY <1>1 DEF Succeeds, Fails

-----------------------------------------------------------------------------
(* Type correctness and what the worker knows                               *)

(* A step that changes no row, message or thread.                           *)
LEMMA QuietStep ==
    ASSUME BSInv, UNCHANGED <<status, started, ended, rows, parents, thread, now, crashes>>,
           polled' \in BOOLEAN, faults' \in 0..MaxFaults, worker' \in WorkerRecord, WorkerKnows'
    PROVE  BSInv'
  BY DEF BSInv, TypeOK

LEMMA InitInv == ASSUME Init PROVE BSInv
<1>1. TypeOK
  <2>1. <<>> \in Seq(Incident) /\ <<>> \in Seq(Nat) BY EmptySeq
  <2>2. thread \in [Incident -> Seq(Nat)] BY <2>1 DEF Init
  <2>3. 0 \in 0..MaxTime /\ 0 \in 0..MaxFaults /\ 0 \in 0..MaxCrashes
    BY BetterStackAssumption
  <2>4. DOMAIN rows = {} BY DEF Init
  <2>5. status \in [Incident -> {"none", "open", "resolved"}]
        /\ started \in [Incident -> Nat] /\ ended \in [Incident -> Nat]
    BY DEF Init
  <2>6. parents \in Seq(Incident) /\ now \in 0..MaxTime /\ polled \in BOOLEAN
        /\ worker \in WorkerRecord /\ faults \in 0..MaxFaults /\ crashes \in 0..MaxCrashes
    BY <2>1, <2>3, IdleWorker DEF Init
  <2> QED BY <2>2, <2>4, <2>5, <2>6 DEF TypeOK
<1>2. WorkerKnows BY IdleWorker DEF WorkerKnows, Init
<1> QED BY <1>1, <1>2 DEF BSInv

(* Better Stack and the clock, which leave the worker alone.                *)
LEMMA WorldStep ==
    ASSUME BSInv, Tick \/ \E i \in Incident : Open(i) \/ Resolve(i)
    PROVE  BSInv'
<1>1. UNCHANGED <<rows, parents, thread, worker, faults, crashes>>
  BY DEF Tick, Open, Resolve
<1>2. now \in Nat /\ now' \in 0..MaxTime
  <2>1. now \in 0..MaxTime /\ MaxTime \in Nat BY BetterStackAssumption DEF BSInv, TypeOK
  <2>2. CASE Tick BY <2>1, <2>2 DEF Tick
  <2>3. CASE \E i \in Incident : Open(i) \/ Resolve(i) BY <2>1, <2>3 DEF Open, Resolve
  <2> QED BY <2>2, <2>3
<1>3. TypeOK'
  <2>1. /\ status' \in [Incident -> {"none", "open", "resolved"}]
        /\ started' \in [Incident -> Nat] /\ ended' \in [Incident -> Nat]
        /\ polled' \in BOOLEAN
    <3>1. /\ status \in [Incident -> {"none", "open", "resolved"}]
          /\ started \in [Incident -> Nat] /\ ended \in [Incident -> Nat]
          /\ polled \in BOOLEAN
      BY DEF BSInv, TypeOK
    <3>2. CASE Tick BY <3>1, <3>2 DEF Tick
    <3>3. ASSUME NEW i \in Incident, Open(i)
          PROVE  /\ status' \in [Incident -> {"none", "open", "resolved"}]
                 /\ started' \in [Incident -> Nat] /\ ended' \in [Incident -> Nat]
                 /\ polled' \in BOOLEAN
      BY <1>2, <3>1, <3>3 DEF Open
    <3>4. ASSUME NEW i \in Incident, Resolve(i)
          PROVE  /\ status' \in [Incident -> {"none", "open", "resolved"}]
                 /\ started' \in [Incident -> Nat] /\ ended' \in [Incident -> Nat]
                 /\ polled' \in BOOLEAN
      BY <1>2, <3>1, <3>4 DEF Resolve
    <3> QED BY <3>2, <3>3, <3>4
  <2> QED BY <1>1, <1>2, <2>1 DEF BSInv, TypeOK
<1>4. WorkerKnows' BY <1>1 DEF BSInv, WorkerKnows
<1> QED BY <1>3, <1>4 DEF BSInv

LEMMA RestartStep == ASSUME BSInv, Crash PROVE BSInv'
<1>1. worker' = Idle /\ polled' = FALSE /\ crashes' \in 0..MaxCrashes
  <2>1. crashes \in 0..MaxCrashes /\ MaxCrashes \in Nat
    BY BetterStackAssumption DEF BSInv, TypeOK
  <2> QED BY <2>1 DEF Crash
<1>2. UNCHANGED <<status, started, ended, rows, parents, thread, now, faults>> BY DEF Crash
<1>3. TypeOK' BY <1>1, <1>2, IdleWorker DEF BSInv, TypeOK
<1>4. WorkerKnows' BY <1>1, IdleWorker DEF WorkerKnows
<1> QED BY <1>3, <1>4 DEF BSInv

(* A call of the worker that changes no row, message or thread.             *)
LEMMA CallStep ==
    ASSUME BSInv, Outside, UNCHANGED <<rows, parents, thread>>, Succeeds \/ Fails,
           worker' \in WorkerRecord, WorkerKnows'
    PROVE  BSInv'
<1>1. faults' \in 0..MaxFaults BY FaultsType DEF BSInv, TypeOK
<1>2. polled' \in BOOLEAN BY DEF Outside, BSInv, TypeOK
<1>3. UNCHANGED <<status, started, ended, now, crashes>> BY DEF Outside
<1> QED BY <1>1, <1>2, <1>3, QuietStep

(* The calls that put no message in hand and have none.                     *)
LEMMA NoMessageInHand ==
    ASSUME BSInv, worker'.pc \notin {"post", "instruct", "save"},
           worker'.cur \in {{}, worker.cur} \/ \E i \in Incident : worker'.cur = {i}
    PROVE  WorkerKnows'
  BY DEF BSInv, WorkerKnows

LEMMA WorkerType == ASSUME BSInv PROVE worker \in WorkerRecord /\ worker.todo \in SUBSET Incident
  BY DEF BSInv, TypeOK, WorkerRecord

LEMMA TickBeginsStep == ASSUME BSInv, TickBegins PROVE BSInv'
<1> DEFINE r == [Idle EXCEPT !.pc = "list", !.at = now]
<1>1. now \in Nat
  <2>1. now \in 0..MaxTime BY DEF BSInv, TypeOK
  <2> QED BY <2>1, BetterStackAssumption
<1>2. r \in WorkerRecord /\ r.pc = "list" /\ r.cur = {}
  BY <1>1 DEF Idle, WorkerRecord
<1>3. worker' = r /\ polled' = TRUE
      /\ UNCHANGED <<status, started, ended, rows, parents, thread, now, faults, crashes>>
  BY DEF TickBegins
<1> HIDE DEF r
<1>4. WorkerKnows' BY <1>2, <1>3 DEF WorkerKnows
<1>5. faults' \in 0..MaxFaults BY <1>3 DEF BSInv, TypeOK
<1> QED BY <1>2, <1>3, <1>4, <1>5, QuietStep

LEMMA ListUnresolvedStep == ASSUME BSInv, ListUnresolved PROVE BSInv'
<1> DEFINE L == {i \in Incident : status[i] = "open" /\ InLookback(i)}
<1>1. Over("find", L) \/ Goto("open") BY DEF ListUnresolved
<1>2. L \in SUBSET Incident BY DEF L
<1> HIDE DEF L
<1>3. /\ worker' \in WorkerRecord /\ worker'.pc \in {"find", "open"}
      /\ worker'.cur \in {{}, worker.cur}
  BY <1>1, <1>2, WorkerType, OverMoves, GotoMoves DEF Pc
<1>4. WorkerKnows' BY <1>3, NoMessageInHand
<1>5. Outside /\ UNCHANGED <<rows, parents, thread>> /\ (Succeeds \/ Fails)
  BY DEF ListUnresolved
<1> QED BY <1>3, <1>4, <1>5, CallStep

LEMMA FindStep == ASSUME BSInv, NEW i \in Incident, Find(i) PROVE BSInv'
<1>1. Take("find", i) \/ (Take("post", i) /\ i \notin DOMAIN rows) BY DEF Find
<1>2. /\ worker' \in WorkerRecord /\ worker'.cur = {i}
      /\ \/ worker'.pc = "find"
         \/ worker'.pc = "post" /\ i \notin DOMAIN rows
  BY <1>1, WorkerType, TakeMoves DEF Pc
<1>3. Outside /\ UNCHANGED <<rows, parents, thread>> /\ (Succeeds \/ Fails)
  BY DEF Find
<1>4. WorkerKnows' BY <1>2, <1>3 DEF WorkerKnows
<1> QED BY <1>2, <1>3, <1>4, CallStep

LEMMA InstructStep == ASSUME BSInv, Instruct PROVE BSInv'
<1>1. /\ worker' \in WorkerRecord /\ worker'.cur = worker.cur
      /\ worker'.pc = "save" /\ worker'.ts = worker.ts
  BY WorkerType, GotoMoves DEF Instruct, Pc
<1>2. /\ Outside /\ UNCHANGED <<rows, parents, thread>> /\ (Succeeds \/ Fails)
      /\ worker.pc = "instruct"
  BY DEF Instruct
<1>3. WorkerKnows' BY <1>1, <1>2 DEF BSInv, WorkerKnows
<1> QED BY <1>1, <1>2, <1>3, CallStep

LEMMA RowsType == ASSUME BSInv PROVE OpenRows \in SUBSET Incident /\ DueRows \in SUBSET Incident
  BY DEF BSInv, TypeOK, OpenRows, DueRows

(* The calls between one message and the next that write nothing.           *)
LEMMA BetweenSteps ==
    ASSUME BSInv, AllFound \/ ListOpen \/ AllChecked \/ ListDue \/ TickEnds
    PROVE  BSInv'
<1>1. \/ \E pc \in {"open", "get", "due", "remind"} :
           \E list \in SUBSET Incident : Over(pc, list)
      \/ worker' = Idle
  BY RowsType DEF AllFound, ListOpen, AllChecked, ListDue, TickEnds
<1>2. /\ worker' \in WorkerRecord /\ worker'.cur = {}
      /\ worker'.pc \in {"idle", "open", "get", "due", "remind"}
  BY <1>1, WorkerType, OverMoves, IdleWorker DEF Pc
<1>3. WorkerKnows' BY <1>2, NoMessageInHand
<1>4. Outside /\ UNCHANGED <<rows, parents, thread>> /\ (Succeeds \/ Fails)
  BY DEF AllFound, ListOpen, AllChecked, ListDue, TickEnds
<1> QED BY <1>2, <1>3, <1>4, CallStep

(* What the worker asks and says of one tracked incident.                   *)
LEMMA TrackedSteps ==
    ASSUME BSInv, NEW i \in Incident,
           GetIncident(i) \/ MarkResolved(i) \/ Remind(i) \/ Bump(i)
    PROVE  BSInv'
<1>1. \/ \E pc \in {"get", "mark", "remind", "bump"} : Take(pc, i)
      \/ \E pc \in {"get", "remind"} : Goto(pc)
  BY DEF GetIncident, MarkResolved, Remind, Bump
<1>2. /\ worker' \in WorkerRecord /\ worker'.cur \in {worker.cur, {i}}
      /\ worker'.pc \in {"get", "mark", "remind", "bump"}
  BY <1>1, WorkerType, TakeMoves, GotoMoves DEF Pc
<1>3. WorkerKnows' BY <1>2, NoMessageInHand
<1>4. Outside /\ UNCHANGED <<rows, parents>> /\ (Succeeds \/ Fails)
      /\ (UNCHANGED thread \/ Say(i))
  BY DEF GetIncident, MarkResolved, Remind, Bump
<1>5. CASE UNCHANGED thread BY <1>2, <1>3, <1>4, <1>5, CallStep
<1>6. CASE Say(i)
  <2>1. thread[i] \in Seq(Nat) /\ worker.at \in Nat BY DEF BSInv, TypeOK, WorkerRecord
  <2>2. Append(thread[i], worker.at) \in Seq(Nat) BY <2>1, AppendProperties
  <2>3. thread' \in [Incident -> Seq(Nat)] BY <1>6, <2>2 DEF Say, BSInv, TypeOK
  <2>4. faults' \in 0..MaxFaults BY <1>4, FaultsType DEF BSInv, TypeOK
  <2>5. TypeOK' BY <1>2, <1>4, <2>3, <2>4 DEF BSInv, TypeOK, Outside
  <2> QED BY <1>3, <2>5 DEF BSInv
<1> QED BY <1>4, <1>5, <1>6

-----------------------------------------------------------------------------
(* Messages and rows                                                        *)

(* A step of the worker that changes messages or rows.                      *)
LEMMA WriteStep ==
    ASSUME BSInv, Outside, Succeeds \/ Fails, worker' \in WorkerRecord,
           DOMAIN rows' \subseteq Incident,
           \A i \in DOMAIN rows' :
               /\ rows'[i] \in Row
               /\ rows'[i].ts \in DOMAIN parents' /\ parents'[rows'[i].ts] = i,
           parents' \in Seq(Incident), UNCHANGED thread, WorkerKnows'
    PROVE  BSInv'
<1>1. faults' \in 0..MaxFaults BY FaultsType DEF BSInv, TypeOK
<1>2. UNCHANGED <<status, started, ended, now, polled, crashes>> BY DEF Outside
<1>3. TypeOK' BY <1>1, <1>2 DEF BSInv, TypeOK
<1> QED BY <1>3 DEF BSInv

LEMMA RowsAre ==
    ASSUME BSInv
    PROVE  /\ DOMAIN rows \subseteq Incident
           /\ \A i \in DOMAIN rows : /\ rows[i] \in Row /\ rows[i].ts \in DOMAIN parents
                                     /\ parents[rows[i].ts] = i
           /\ parents \in Seq(Incident)
  BY DEF BSInv, TypeOK

LEMMA PostNewStep == ASSUME BSInv, NEW i \in Incident, PostNew(i) PROVE BSInv'
<1> DEFINE n == Len(parents) + 1
           r == [worker EXCEPT !.pc = "instruct", !.ts = n]
<1>1. /\ worker \in WorkerRecord /\ parents \in Seq(Incident) /\ worker.pc = "post"
      /\ i \in worker.cur /\ worker.cur = {i} /\ i \notin DOMAIN rows
  BY WorkerType, RowsAre DEF PostNew, BSInv, WorkerKnows
<1>2. n \in Nat /\ DOMAIN parents = 1..Len(parents) /\ Len(parents) \in Nat /\ n \notin DOMAIN parents
  BY <1>1, LenProperties
<1>3. r \in WorkerRecord /\ r.pc = "instruct" /\ r.ts = n /\ r.cur = {i} /\ r.at = worker.at
  <2> HIDE DEF n
  <2> QED BY <1>1, <1>2 DEF WorkerRecord
<1>4. \/ parents' = Append(parents, i) /\ worker' = r
      \/ parents' = parents /\ Goto("find")
  BY DEF PostNew
<1>5. Outside /\ UNCHANGED <<rows, thread>> /\ (Succeeds \/ Fails)
  BY DEF PostNew
<1>6. CASE parents' = Append(parents, i) /\ worker' = r
  <2>1. /\ parents' \in Seq(Incident) /\ DOMAIN parents' = 1..n /\ parents'[n] = i
        /\ \A m \in DOMAIN parents : parents'[m] = parents[m]
    BY <1>1, <1>6, AppendProperties, LenProperties
  <2>2. \A j \in DOMAIN rows : /\ rows[j] \in Row /\ rows[j].ts \in DOMAIN parents'
                               /\ parents'[rows[j].ts] = j /\ rows[j].ts # n
    BY <1>2, <2>1, RowsAre, SMTT(60)
  <2>3. WorkerKnows' BY <1>1, <1>2, <1>3, <1>5, <1>6, <2>1, <2>2 DEF WorkerKnows
  <2> QED BY <1>1, <1>3, <1>5, <1>6, <2>1, <2>2, <2>3, RowsAre, WriteStep
<1>7. CASE parents' = parents /\ Goto("find")
  <2>1. worker' \in WorkerRecord /\ worker'.pc = "find" /\ worker'.at = worker.at
        /\ worker'.cur = worker.cur
    BY <1>1, <1>7, GotoMoves DEF Pc
  <2>2. WorkerKnows' BY <1>1, <2>1 DEF WorkerKnows
  <2> QED BY <1>1, <1>5, <1>7, <2>1, <2>2, CallStep
<1> QED BY <1>4, <1>6, <1>7

(* What Save writes: a row for the message posted last, of an incident that *)
(* had none.                                                                *)
LEMMA SavedRow ==
    ASSUME BSInv, NEW i \in Incident, Save(i), Succeeds, ~Fails
    PROVE  /\ i \notin DOMAIN rows /\ DOMAIN rows' = DOMAIN rows \cup {i}
           /\ \A j \in DOMAIN rows : rows'[j] = rows[j]
           /\ rows'[i] \in Row /\ rows'[i].ts = worker.ts
<1> DEFINE r == [ts |-> worker.ts, due |-> worker.at + ReminderInterval]
<1>1. i \notin DOMAIN rows BY DEF Save, BSInv, WorkerKnows
<1>2. rows' = [j \in DOMAIN rows \cup {i} |-> IF j \in DOMAIN rows THEN rows[j] ELSE r]
  BY DEF Save
<1>3. r \in Row /\ r.ts = worker.ts
  BY WorkerType, BetterStackAssumption DEF Row, WorkerRecord
<1> HIDE DEF r
<1> QED BY <1>1, <1>2, <1>3

LEMMA SaveStep == ASSUME BSInv, NEW i \in Incident, Save(i) PROVE BSInv'
<1>1. /\ worker.pc = "save" /\ i \in worker.cur /\ Goto("find") /\ Outside
      /\ UNCHANGED <<parents, thread>> /\ (Succeeds \/ Fails)
  BY DEF Save
<1>2. /\ worker' \in WorkerRecord /\ worker'.pc = "find" /\ worker'.at = worker.at
      /\ worker'.cur = worker.cur
  BY <1>1, WorkerType, GotoMoves DEF Pc
<1>3. WorkerKnows' BY <1>2 DEF BSInv, WorkerKnows
<1>4. CASE rows' = rows BY <1>1, <1>2, <1>3, <1>4, CallStep
<1>5. CASE rows' # rows
  <2>1. Succeeds BY <1>5 DEF Save
  <2>2. ~Fails
    <3>1. faults \in Nat
      <4>1. faults \in 0..MaxFaults BY DEF BSInv, TypeOK
      <4> QED BY <4>1, BetterStackAssumption
    <3> QED BY <2>1, <3>1 DEF Succeeds, Fails
  <2>3. /\ i \notin DOMAIN rows /\ DOMAIN rows' = DOMAIN rows \cup {i}
        /\ \A j \in DOMAIN rows : rows'[j] = rows[j]
        /\ rows'[i] \in Row /\ rows'[i].ts = worker.ts
    BY <2>1, <2>2, SavedRow
  <2>4. worker.ts \in DOMAIN parents /\ parents[worker.ts] = i
    BY <1>1 DEF BSInv, WorkerKnows
  <2>5. \A j \in DOMAIN rows' : /\ rows'[j] \in Row /\ rows'[j].ts \in DOMAIN parents'
                                /\ parents'[rows'[j].ts] = j
    BY <1>1, <2>3, <2>4, RowsAre
  <2> QED BY <1>1, <1>2, <1>3, <2>3, <2>5, RowsAre, WriteStep
<1> QED BY <1>4, <1>5

LEMMA RestStep == ASSUME BSInv, UNCHANGED vars PROVE BSInv'
  BY ZenonT(120) DEF BSInv, TypeOK, WorkerKnows, vars

LEMMA BSNext == ASSUME BSInv, [Next]_vars PROVE BSInv'
  BY WorldStep, RestartStep, TickBeginsStep, ListUnresolvedStep, FindStep, PostNewStep,
     InstructStep, SaveStep, BetweenSteps, TrackedSteps, RestStep
     DEF Next, WorkerStep, AtRest

LEMMA BSAlways == Spec => []BSInv
  BY InitInv, BSNext, PTL DEF Spec

(* Type correctness and the unique indexes: each row has a message of its   *)
(* own, about its incident (worker.go:145).                                 *)
THEOREM TypeCorrect == Spec => []TypeOK
<1>1. BSInv => TypeOK BY DEF BSInv
<1> QED BY <1>1, BSAlways, PTL

-----------------------------------------------------------------------------
(* Messages that no row follows up                                          *)

LEMMA Counters ==
    ASSUME BSInv
    PROVE  faults \in Nat /\ crashes \in Nat /\ now \in Nat /\ IsFiniteSet(Untracked)
<1>1. faults \in 0..MaxFaults /\ crashes \in 0..MaxCrashes /\ now \in 0..MaxTime
  BY DEF BSInv, TypeOK
<1>2. Untracked \subseteq 1..Len(parents) /\ Len(parents) \in Nat
  BY RowsAre, LenProperties DEF Untracked
<1>3. IsFiniteSet(1..Len(parents)) BY <1>2, FS_Interval
<1>4. IsFiniteSet(Untracked) BY <1>2, <1>3, FS_Subset
<1> QED BY <1>1, <1>4, BetterStackAssumption

(* At most one element more.                                                *)
LEMMA OneMore ==
    ASSUME NEW S, NEW T, NEW x, IsFiniteSet(S), T \subseteq S \cup {x}
    PROVE  /\ IsFiniteSet(T) /\ Cardinality(T) \in Nat /\ Cardinality(S) \in Nat
           /\ Cardinality(T) <= Cardinality(S) + 1
           /\ T \subseteq S => Cardinality(T) <= Cardinality(S)
<1>1. Cardinality(S) \in Nat BY FS_CardinalityType
<1>2. IsFiniteSet(S \cup {x}) BY FS_AddElement
<1>3. Cardinality(S \cup {x}) = IF x \in S THEN Cardinality(S) ELSE Cardinality(S) + 1
  BY FS_AddElement
<1>4. IsFiniteSet(T) /\ Cardinality(T) <= Cardinality(S \cup {x}) BY <1>2, FS_Subset
<1>5. Cardinality(T) \in Nat BY <1>4, FS_CardinalityType
<1>6. T \subseteq S => Cardinality(T) <= Cardinality(S) BY FS_Subset
<1>7. Cardinality(T) <= Cardinality(S) + 1 BY <1>1, <1>3, <1>4, <1>5
<1> QED BY <1>1, <1>4, <1>5, <1>6, <1>7

LEMMA StaysBounded ==
    ASSUME NEW s \in Nat, NEW t \in Nat, NEW f \in Nat, NEW c \in Nat,
           NEW g \in Nat, NEW d \in Nat, s <= f + c,
           \/ t <= s /\ f + c <= g + d
           \/ t <= s + 1 /\ f + c < g + d
    PROVE  t <= g + d
  OBVIOUS

(* A step explains what it leaves behind if it loses nothing, or one        *)
(* message to a failed call or a restart.                                   *)
LEMMA LossPaid ==
    ASSUME BSInv, BSInv', EachLossExplained, NEW n, Untracked' \subseteq Untracked \cup {n},
           \/ Untracked' \subseteq Untracked /\ faults + crashes <= faults' + crashes'
           \/ faults + crashes < faults' + crashes'
    PROVE  EachLossExplained'
<1>1. PICK S, T : S = Untracked /\ T = Untracked' OBVIOUS
<1>2. /\ Cardinality(T) \in Nat /\ Cardinality(S) \in Nat
      /\ Cardinality(T) <= Cardinality(S) + 1
      /\ T \subseteq S => Cardinality(T) <= Cardinality(S)
  BY <1>1, Counters, OneMore
<1>3. PICK g, d : g = faults' /\ d = crashes' OBVIOUS
<1>4. g \in Nat /\ d \in Nat
  <2>1. g \in 0..MaxFaults /\ d \in 0..MaxCrashes BY <1>3 DEF BSInv, TypeOK
  <2> QED BY <2>1, BetterStackAssumption
<1>5. Cardinality(S) <= faults + crashes BY <1>1 DEF EachLossExplained
<1>6. \/ T \subseteq S /\ faults + crashes <= g + d
      \/ faults + crashes < g + d
  BY <1>1, <1>3
<1>7. Cardinality(T) <= g + d BY <1>2, <1>4, <1>5, <1>6, Counters, StaysBounded
<1> QED BY <1>1, <1>3, <1>7 DEF EachLossExplained

LEMMA LossKept ==
    ASSUME BSInv, BSInv', EachLossExplained, Untracked' \subseteq Untracked,
           faults + crashes <= faults' + crashes'
    PROVE  EachLossExplained'
  BY LossPaid

(* Rows that keep their messages lose none, unless the worker drops the     *)
(* message it has in hand.                                                  *)
LEMMA MessagesKept ==
    ASSUME parents' = parents, DOMAIN rows' = DOMAIN rows,
           \A i \in DOMAIN rows : rows'[i].ts = rows[i].ts
    PROVE  /\ Untracked' \subseteq Untracked \cup {worker.ts}
           /\ \/ worker.pc \notin {"instruct", "save"}
              \/ worker'.pc \in {"instruct", "save"} /\ worker'.ts = worker.ts
              => Untracked' \subseteq Untracked
  BY DEF Untracked

LEMMA LossWorld ==
    ASSUME BSInv, BSInv', EachLossExplained,
           \/ Tick \/ TickBegins \/ UNCHANGED vars
           \/ \E i \in Incident : Open(i) \/ Resolve(i)
    PROVE  EachLossExplained'
<1>1. UNCHANGED <<rows, parents, faults, crashes>>
  BY DEF Tick, TickBegins, Open, Resolve, vars
<1>2. worker.pc \notin {"instruct", "save"} \/ worker' = worker
  BY DEF Tick, TickBegins, Open, Resolve, vars
<1>3. Untracked' \subseteq Untracked BY <1>1, <1>2, MessagesKept
<1>4. faults + crashes <= faults' + crashes' BY <1>1, Counters
<1> QED BY <1>3, <1>4, LossKept

LEMMA FaultsGrow ==
    ASSUME BSInv, Succeeds \/ Fails
    PROVE  faults <= faults' /\ (Fails => faults < faults')
  BY Counters DEF Succeeds, Fails

LEMMA LossCalls ==
    ASSUME BSInv, BSInv', EachLossExplained,
           \/ ListUnresolved \/ Instruct \/ AllFound \/ ListOpen \/ AllChecked
           \/ ListDue \/ TickEnds
           \/ \E i \in Incident : Find(i) \/ GetIncident(i) \/ MarkResolved(i) \/ Remind(i) \/ Bump(i)
    PROVE  EachLossExplained'
<1>1. UNCHANGED <<rows, parents, crashes>> /\ (Succeeds \/ Fails)
  BY DEF ListUnresolved, Instruct, AllFound, ListOpen, AllChecked, ListDue, TickEnds, Find,
         GetIncident, MarkResolved, Remind, Bump, Outside
<1>2. worker.pc \notin {"instruct", "save"} \/ Instruct
  BY DEF ListUnresolved, AllFound, ListOpen, AllChecked, ListDue, TickEnds, Find,
         GetIncident, MarkResolved, Remind, Bump
<1>3. Instruct => worker'.pc = "save" /\ worker'.ts = worker.ts
  BY WorkerType, GotoMoves DEF Instruct, Pc
<1>4. Untracked' \subseteq Untracked BY <1>1, <1>2, <1>3, MessagesKept
<1>5. faults + crashes <= faults' + crashes'
  <2>1. faults' \in Nat BY <1>1, Counters DEF Succeeds, Fails
  <2> QED BY <1>1, <2>1, FaultsGrow, Counters
<1> QED BY <1>4, <1>5, LossKept

LEMMA LossPostNew ==
    ASSUME BSInv, BSInv', EachLossExplained, NEW i \in Incident, PostNew(i)
    PROVE  EachLossExplained'
<1>1. parents \in Seq(Incident) /\ worker.pc = "post" /\ UNCHANGED <<rows, crashes>>
      /\ (Succeeds \/ Fails)
  BY RowsAre DEF PostNew, Outside
<1>2. faults' \in Nat BY <1>1, Counters DEF Succeeds, Fails
<1>3. faults + crashes <= faults' + crashes' BY <1>1, <1>2, FaultsGrow, Counters
<1>4. CASE parents' = parents
  <2>1. Untracked' \subseteq Untracked BY <1>1, <1>4, MessagesKept
  <2> QED BY <1>3, <2>1, LossKept
<1>5. CASE parents' # parents
  <2> DEFINE n == Len(parents) + 1
             r == [worker EXCEPT !.pc = "instruct", !.ts = n]
  <2>1. parents' = Append(parents, i) /\ worker' = r BY <1>5 DEF PostNew
  <2>2. n \in Nat BY <1>1, LenProperties
  <2>3. r.pc = "instruct" /\ r.ts = n
    <3> HIDE DEF n
    <3> QED BY <2>2, WorkerType DEF WorkerRecord
  <2>4. DOMAIN parents' = 1..n /\ DOMAIN parents = 1..Len(parents) /\ Len(parents) \in Nat
    BY <1>1, <2>1, AppendProperties, LenProperties
  <2>5. \A m \in DOMAIN parents' : m = n \/ m \in DOMAIN parents BY <2>4
  <2> HIDE DEF n, r
  <2>6. Untracked' \subseteq Untracked BY <1>1, <2>1, <2>3, <2>5 DEF Untracked
  <2> QED BY <1>3, <2>6, LossKept
<1> QED BY <1>4, <1>5

LEMMA LossSave ==
    ASSUME BSInv, BSInv', EachLossExplained, NEW i \in Incident, Save(i)
    PROVE  EachLossExplained'
<1>1. /\ worker.pc = "save" /\ UNCHANGED <<parents, crashes>>
      /\ Succeeds \/ Fails
  BY DEF Save, Outside
<1>2. worker'.pc = "find" BY WorkerType, GotoMoves DEF Save, Pc
<1>3. faults' \in Nat BY <1>1, Counters DEF Succeeds, Fails
<1>4. faults + crashes <= faults' + crashes' /\ (Fails => faults + crashes < faults' + crashes')
  BY <1>1, <1>3, FaultsGrow, Counters
<1>5. CASE Fails /\ rows' = rows
  <2>1. Untracked' \subseteq Untracked \cup {worker.ts} BY <1>1, <1>5, MessagesKept
  <2> QED BY <1>4, <1>5, <2>1, LossPaid
<1>6. CASE ~Fails
  <2>1. /\ DOMAIN rows' = DOMAIN rows \cup {i} /\ rows'[i].ts = worker.ts
        /\ \A j \in DOMAIN rows : rows'[j] = rows[j]
    BY <1>1, <1>6, SavedRow
  <2>2. Untracked' \subseteq Untracked BY <1>1, <2>1 DEF Untracked
  <2> QED BY <1>4, <2>2, LossKept
<1>7. CASE Fails /\ rows' # rows
  <2>1. Succeeds BY <1>7 DEF Save
  <2> QED BY <1>7, <2>1, Counters DEF Succeeds, Fails
<1> QED BY <1>5, <1>6, <1>7

LEMMA LossCrash ==
    ASSUME BSInv, BSInv', EachLossExplained, Crash PROVE EachLossExplained'
<1>1. UNCHANGED <<rows, parents, faults>> /\ crashes' = crashes + 1 BY DEF Crash
<1>2. Untracked' \subseteq Untracked \cup {worker.ts} BY <1>1, MessagesKept
<1>3. faults + crashes < faults' + crashes' BY <1>1, Counters
<1> QED BY <1>2, <1>3, LossPaid

(* Each message that no row follows up is the trace of a save that failed   *)
(* or that a restart prevented: nothing else posts an incident twice        *)
(* (worker.go:146).                                                         *)
THEOREM LossesAreExplained == Spec => []EachLossExplained
<1>1. Init => EachLossExplained
  <2> SUFFICES ASSUME Init PROVE EachLossExplained OBVIOUS
  <2>1. Untracked = {} BY DEF Init, Untracked
  <2>2. faults = 0 /\ crashes = 0 BY DEF Init
  <2> QED BY <2>1, <2>2, FS_EmptySet DEF EachLossExplained
<1>2. BSInv /\ BSInv' /\ EachLossExplained /\ [Next]_vars => EachLossExplained'
  BY LossWorld, LossCalls, LossPostNew, LossSave, LossCrash
     DEF Next, WorkerStep, AtRest
<1> QED BY <1>1, <1>2, BSAlways, PTL DEF Spec
=============================================================================
