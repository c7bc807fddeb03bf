----------------------------- MODULE BetterStack -----------------------------
(***************************************************************************)
(* The Better Stack worker: one goroutine that, at every poll, asks Better *)
(* Stack for unresolved incidents and posts the new ones to Slack, asks    *)
(* about the incidents it tracks, and posts reminders in their threads.    *)
(* Better Stack changes between any two of its calls, calls fail, and the  *)
(* process is restarted.                                                   *)
(*                                                                         *)
(* BetterStackRepository gives the condition "id = ? AND ..." of its two   *)
(* guarded updates no id, and PostgreSQL refuses both statements: no row   *)
(* is ever marked resolved or due later, and the worker never announces a  *)
(* resolution (worker.go:179-187).                                         *)
(*                                                                         *)
(* A definition named for a defect (...Forgotten, ...OneLess) is a faulty  *)
(* variant of the definition that follows it, for the properties to reject.*)
(***************************************************************************)
EXTENDS Naturals, Sequences, FiniteSets

CONSTANTS
    Incident,          \* incidents Better Stack may report
    ReminderInterval,  \* cfg.BetterStackReminderInterval, in polls
    Lookback,          \* cfg.BetterStackLookbackDays, in polls
    MaxTime,           \* bound: polls
    MaxFaults,         \* bound: calls that fail
    MaxCrashes         \* bound: restarts

ASSUME BetterStackAssumption ==
    /\ ReminderInterval \in Nat \ {0} /\ Lookback \in Nat
    /\ MaxTime \in Nat /\ MaxFaults \in Nat /\ MaxCrashes \in Nat

VARIABLES
    status,   \* Better Stack: [Incident -> {"none", "open", "resolved"}]
    started,  \* Better Stack: [Incident -> Nat], started_at
    ended,    \* Better Stack: [Incident -> Nat], resolved_at
    rows,     \* the table: a function from the incidents tracked to their row
    parents,  \* Slack: the incident each parent message is about, in order
    thread,   \* Slack: [Incident -> the times of the reminders in its thread]
    now,
    polled,   \* TRUE once the tick of the current poll has begun
    worker,   \* the goroutine
    faults,
    crashes

vars == <<status, started, ended, rows, parents, thread, now, polled, worker, faults, crashes>>

Row == [ts : Nat, due : Nat]

(* pc: the next call; todo: what is left of the list the loop runs over.    *)
WorkerRecord ==
    [pc : {"idle", "list", "find", "post", "instruct", "save", "open", "get", "mark",
           "due", "remind", "bump"},
     at : Nat, todo : SUBSET Incident, cur : SUBSET Incident, ts : Nat]
Idle == [pc |-> "idle", at |-> 0, todo |-> {}, cur |-> {}, ts |-> 0]

(* Types; and the unique indexes of the table: a row's message exists, is   *)
(* about the row's incident, and has no other row.                          *)
TypeOK ==
    /\ status \in [Incident -> {"none", "open", "resolved"}]
    /\ started \in [Incident -> Nat] /\ ended \in [Incident -> Nat]
    /\ DOMAIN rows \subseteq Incident /\ \A i \in DOMAIN rows : rows[i] \in Row
    /\ parents \in Seq(Incident)
    /\ thread \in [Incident -> Seq(Nat)]
    /\ now \in 0..MaxTime /\ polled \in BOOLEAN
    /\ worker \in WorkerRecord
    /\ faults \in 0..MaxFaults /\ crashes \in 0..MaxCrashes
    /\ \A i \in DOMAIN rows : rows[i].ts \in DOMAIN parents /\ parents[rows[i].ts] = i

Init ==
    /\ status = [i \in Incident |-> "none"]
    /\ started = [i \in Incident |-> 0] /\ ended = [i \in Incident |-> 0]
    /\ rows = <<>>
    /\ parents = <<>>
    /\ thread = [i \in Incident |-> <<>>]
    /\ now = 0 /\ polled = FALSE
    /\ worker = Idle
    /\ faults = 0 /\ crashes = 0

-----------------------------------------------------------------------------
(* Better Stack and the clock *)

Open(i) ==
    /\ status[i] = "none"
    /\ status' = [status EXCEPT ![i] = "open"]
    /\ started' = [started EXCEPT ![i] = now]
    /\ UNCHANGED <<ended, rows, parents, thread, now, polled, worker, faults, crashes>>

Resolve(i) ==
    /\ status[i] = "open"
    /\ status' = [status EXCEPT ![i] = "resolved"]
    /\ ended' = [ended EXCEPT ![i] = now]
    /\ UNCHANGED <<started, rows, parents, thread, now, polled, worker, faults, crashes>>

(* The ticker: the tick of a poll is over before the next one is due.       *)
Tick ==
    /\ now < MaxTime /\ polled /\ worker.pc = "idle"
    /\ now' = now + 1
    /\ polled' = FALSE
    /\ UNCHANGED <<status, started, ended, rows, parents, thread, worker, faults, crashes>>

-----------------------------------------------------------------------------
(* The worker.  Step(...) is what a step does to the goroutine.             *)

Outside == UNCHANGED <<status, started, ended, now, polled, crashes>>
Succeeds == UNCHANGED faults
Fails == faults < MaxFaults /\ faults' = faults + 1

Goto(pc) == worker' = [worker EXCEPT !.pc = pc]
Over(pc, list) == worker' = [worker EXCEPT !.pc = pc, !.todo = list, !.cur = {}]
Take(pc, i) == worker' = [worker EXCEPT !.pc = pc, !.todo = @ \ {i}, !.cur = {i}]

TickBegins ==
    /\ worker.pc = "idle" /\ ~polled
    /\ polled' = TRUE
    /\ worker' = [Idle EXCEPT !.pc = "list", !.at = now]
    /\ UNCHANGED <<status, started, ended, rows, parents, thread, now, faults, crashes>>

(* The list asked for reaches back over the lookback.                       *)
InLookbackOneLess(i) == started[i] + Lookback > worker.at
InLookback(i) == started[i] + Lookback >= worker.at

(* A failed list skips to the incidents that are tracked.                   *)
ListUnresolved ==
    /\ worker.pc = "list"
    /\ \/ Succeeds /\ Over("find", {i \in Incident : status[i] = "open" /\ InLookback(i)})
       \/ Fails /\ Goto("open")
    /\ Outside /\ UNCHANGED <<rows, parents, thread>>

(* A tracked incident only gets new texts; if the row cannot be looked up,  *)
(* the incident waits for the next poll.                                    *)
FindForgotten(i) ==
    /\ worker.pc = "find" /\ i \in worker.todo
    /\ Succeeds
    /\ Take("post", i)
    /\ Outside /\ UNCHANGED <<rows, parents, thread>>
Find(i) ==
    /\ worker.pc = "find" /\ i \in worker.todo
    /\ \/ Succeeds /\ IF i \in DOMAIN rows THEN Take("find", i) ELSE Take("post", i)
       \/ Fails /\ Take("find", i)
    /\ Outside /\ UNCHANGED <<rows, parents, thread>>

PostNew(i) ==
    /\ worker.pc = "post" /\ i \in worker.cur
    /\ \/ /\ Succeeds
          /\ parents' = Append(parents, i)
          /\ worker' = [worker EXCEPT !.pc = "instruct", !.ts = Len(parents) + 1]
       \/ Fails /\ Goto("find") /\ UNCHANGED parents
    /\ Outside /\ UNCHANGED <<rows, thread>>

(* Whether or not the instruction can be posted.                            *)
Instruct ==
    /\ worker.pc = "instruct"
    /\ Succeeds \/ Fails
    /\ Goto("save")
    /\ Outside /\ UNCHANGED <<rows, parents, thread>>

(* INSERT ... ON CONFLICT DO NOTHING *)
Save(i) ==
    /\ worker.pc = "save" /\ i \in worker.cur
    /\ \/ /\ Succeeds
          /\ rows' = [j \in DOMAIN rows \cup {i} |->
                        IF j \in DOMAIN rows THEN rows[j]
                        ELSE [ts |-> worker.ts, due |-> worker.at + ReminderInterval]]
       \/ Fails /\ UNCHANGED rows
    /\ Goto("find")
    /\ Outside /\ UNCHANGED <<parents, thread>>

AllFound ==
    /\ worker.pc = "find" /\ worker.todo = {}
    /\ Over("open", {}) /\ Succeeds
    /\ Outside /\ UNCHANGED <<rows, parents, thread>>

(* WHERE resolved_at_utc IS NULL                                            *)
OpenRows == DOMAIN rows

ListOpen ==
    /\ worker.pc = "open"
    /\ \/ Succeeds /\ Over("get", OpenRows)
       \/ Fails /\ Over("due", {})
    /\ Outside /\ UNCHANGED <<rows, parents, thread>>

GetIncident(i) ==
    /\ worker.pc = "get" /\ i \in worker.todo
    /\ \/ Succeeds /\ IF status[i] = "resolved" THEN Take("mark", i) ELSE Take("get", i)
       \/ Fails /\ Take("get", i)
    /\ Outside /\ UNCHANGED <<rows, parents, thread>>

(* The statement is refused, and the worker goes on to the next incident.   *)
MarkResolved(i) ==
    /\ worker.pc = "mark" /\ i \in worker.cur
    /\ Goto("get") /\ Succeeds
    /\ Outside /\ UNCHANGED <<rows, parents, thread>>

AllChecked ==
    /\ worker.pc = "get" /\ worker.todo = {}
    /\ Over("due", {}) /\ Succeeds
    /\ Outside /\ UNCHANGED <<rows, parents, thread>>

DueRows == {i \in OpenRows : rows[i].due <= worker.at}

ListDue ==
    /\ worker.pc = "due"
    /\ \/ Succeeds /\ Over("remind", DueRows)
       \/ Fails /\ worker' = Idle
    /\ Outside /\ UNCHANGED <<rows, parents, thread>>

Say(i) == thread' = [thread EXCEPT ![i] = Append(@, worker.at)]

Remind(i) ==
    /\ worker.pc = "remind" /\ i \in worker.todo
    /\ \/ Succeeds /\ Say(i) /\ Take("bump", i)
       \/ Fails /\ Take("remind", i) /\ UNCHANGED thread
    /\ Outside /\ UNCHANGED <<rows, parents>>

(* The statement is refused: the row stays due.                             *)
Bump(i) ==
    /\ worker.pc = "bump" /\ i \in worker.cur
    /\ Goto("remind") /\ Succeeds
    /\ Outside /\ UNCHANGED <<rows, parents, thread>>

TickEnds ==
    /\ worker.pc = "remind" /\ worker.todo = {}
    /\ worker' = Idle /\ Succeeds
    /\ Outside /\ UNCHANGED <<rows, parents, thread>>

(* A new process polls as soon as it is up.                                 *)
Crash ==
    /\ crashes < MaxCrashes
    /\ crashes' = crashes + 1
    /\ worker' = Idle
    /\ polled' = FALSE
    /\ UNCHANGED <<status, started, ended, rows, parents, thread, now, faults>>

WorkerStep ==
    \/ TickBegins \/ ListUnresolved \/ Instruct \/ AllFound \/ ListOpen \/ AllChecked
    \/ ListDue \/ TickEnds
    \/ \E i \in Incident :
         \/ Find(i) \/ PostNew(i) \/ Save(i) \/ GetIncident(i) \/ MarkResolved(i)
         \/ Remind(i) \/ Bump(i)

(* The last poll is over. *)
AtRest == now = MaxTime /\ polled /\ worker.pc = "idle" /\ UNCHANGED vars

Next ==
    \/ \E i \in Incident : Open(i) \/ Resolve(i)
    \/ Tick
    \/ WorkerStep
    \/ Crash
    \/ AtRest

Spec == Init /\ [][Next]_vars

(* The goroutine runs, its calls return, and the ticker ticks.              *)
FairSpec == Spec /\ WF_vars(WorkerStep) /\ WF_vars(Tick)

-----------------------------------------------------------------------------
(* Properties *)

(* A parent message is followed up as long as its incident is unresolved:   *)
(* each message without a row is the trace of a save that failed or that a  *)
(* restart prevented (worker.go:146), and nothing else posts an incident    *)
(* twice.                                                                   *)
Untracked == {n \in DOMAIN parents :
                /\ \A i \in DOMAIN rows : rows[i].ts # n
                /\ worker.pc \in {"instruct", "save"} => worker.ts # n}
EachLossExplained == Cardinality(Untracked) <= faults + crashes

(* An incident that Better Stack resolved before a tick began gets no       *)
(* reminder from that tick (slack.go:88 "Reminders every ... until Better   *)
(* Stack resolves it."): each one it gets is the trace of a call that       *)
(* failed and so kept the worker from learning of it.                       *)
Late(i) == {n \in DOMAIN thread[i] : status[i] = "resolved" /\ ended[i] < thread[i][n]}
NoReminderOnceResolved == \A i \in Incident : Cardinality(Late(i)) <= faults

(* An open incident is posted and tracked however many calls fail and       *)
(* restarts come on the way, if it stays in the lookback for as many polls  *)
(* as calls still fail, and one more: a failed list, look-up, post or save  *)
(* costs it no more than its poll (worker.go:105-155).                      *)
StillToFail == MaxFaults - faults
OpenIsTracked ==
    \A i \in Incident :
        (/\ status[i] = "open" /\ now + StillToFail < MaxTime
         /\ now + 1 + StillToFail <= started[i] + Lookback)
            ~> (i \in DOMAIN rows \/ status[i] = "resolved")
=============================================================================
