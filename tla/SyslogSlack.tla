----------------------------- MODULE SyslogSlack -----------------------------
(***************************************************************************)
(* SlackSyslogBatcher: alerts the poller stored are collected per alarm    *)
(* fingerprint and flushed to Slack by timer goroutines, as a new parent   *)
(* message with an incident row, or as a reply in the thread of the        *)
(* incident that is open.  Composed with the reminder worker and the event *)
(* handlers of SlackReactions, and with a process that stops and crashes.  *)
(*                                                                         *)
(* Alerts with one fingerprint come from one device, so the batch key      *)
(* device + fingerprint is the fingerprint.  How long a batch waits is     *)
(* left open: a flush may start at any time after the first Enqueue.       *)
(***************************************************************************)
EXTENDS SlackReactions

CONSTANTS
    Alert,        \* alerts the poller may store
    Fp,           \* [Alert -> Fingerprint]: the column dedup_fingerprint
    Flusher,      \* goroutines that run flush: the timers' and Main
    Main,         \* the goroutine that stops the program, one of Flusher
    MayStop,      \* bound: whether the program may be asked to stop
    MaxCrashes    \* bound: times the process dies

ASSUME BatcherAssumption ==
    /\ Fp \in [Alert -> Fingerprint]
    /\ Main \in Flusher /\ MayStop \in BOOLEAN
    /\ MaxCrashes \in Nat

VARIABLES
    stored,    \* alerts with a row in es_syslog_alerts
    link,      \* [Alert -> Nat]: slack_incident_id, NotFound for NULL
    pending,   \* [Fingerprint -> SUBSET Alert]: the batches that wait
    flush,     \* [Flusher -> record]: a goroutine inside flush
    main,      \* "run", "stopping" (stopCh is closed), "flushing", "stopped"
    stopKeys,  \* the keys Stop read and has not flushed yet
    shown,     \* [Alert -> SUBSET Message]: parent messages whose post or
               \* thread shows the alert
    posts,     \* [Alert -> Nat]: Slack posts that show the alert
    crashes

batcherVars == <<stored, link, pending, flush, main, stopKeys, shown, posts, crashes>>
vars == <<reactionVars, batcherVars>>

(* pc is the next call: find, append (thread reply), post (parent message), *)
(* instruct, create (incident row), link.                                   *)
FlushRecord ==
    [pc : {"idle", "find", "append", "post", "instruct", "create", "link"},
     batch : SUBSET Alert, id : Nat, ts : 0..MaxMessages]

NoFlush == [pc |-> "idle", batch |-> {}, id |-> NotFound, ts |-> 0]

BatcherTypeOK ==
    /\ stored \in SUBSET Alert
    /\ link \in [Alert -> Nat]
    /\ pending \in [Fingerprint -> SUBSET Alert]
    /\ flush \in [Flusher -> FlushRecord]
    /\ main \in {"run", "stopping", "flushing", "stopped"}
    /\ stopKeys \in SUBSET Fingerprint
    /\ shown \in [Alert -> SUBSET Message]
    /\ posts \in [Alert -> Nat]
    /\ crashes \in 0..MaxCrashes

(* Every variable of the batcher, the reminder worker and the event         *)
(* handlers has its type: flush carries only alerts, incident ids and       *)
(* message timestamps, and the incident table only well-formed rows.        *)
TypeOK == ReactionsTypeOK /\ BatcherTypeOK

BatcherInit ==
    /\ stored = {}
    /\ link = [a \in Alert |-> NotFound]
    /\ pending = [k \in Fingerprint |-> {}]
    /\ flush = [f \in Flusher |-> NoFlush]
    /\ main = "run"
    /\ stopKeys = {}
    /\ shown = [a \in Alert |-> {}]
    /\ posts = [a \in Alert |-> 0]
    /\ crashes = 0

Init == ReactionsInit /\ BatcherInit

FlushUnchanged == UNCHANGED <<stored, pending, main, stopKeys, crashes>>
SlackUnchanged == UNCHANGED <<now, closed, hourglass, events, seen, reminder>>

-----------------------------------------------------------------------------

(* The pending batches after Enqueue(a): dropped once stopCh is closed.     *)
EnqueuedOverwrites(a) ==
    IF main = "run" THEN [pending EXCEPT ![Fp[a]] = {a}] ELSE pending
Enqueued(a) ==
    IF main = "run" THEN [pending EXCEPT ![Fp[a]] = @ \cup {a}] ELSE pending

(* The poller stores a new alert and enqueues it.  A crash between the two  *)
(* leaves a row that is never enqueued: SyslogPipeline has the two steps.   *)
StoreAndEnqueue(a) ==
    /\ main = "run"
    /\ a \notin stored
    /\ stored' = stored \cup {a}
    /\ pending' = Enqueued(a)
    /\ UNCHANGED <<reactionVars, link, flush, main, stopKeys, shown, posts, crashes>>

-----------------------------------------------------------------------------
(* flush *)

FlushTakeLeavesBatch(f, k) ==
    /\ flush[f].pc = "idle"
    /\ pending[k] # {}
    /\ f = Main => main = "flushing" /\ k \in stopKeys
    /\ flush' = [flush EXCEPT ![f] = [NoFlush EXCEPT !.pc = "find", !.batch = pending[k]]]
    /\ stopKeys' = IF f = Main THEN stopKeys \ {k} ELSE stopKeys
    /\ UNCHANGED <<reactionVars, stored, link, pending, main, shown, posts, crashes>>

(* The batch leaves pending under the mutex; from here on nothing else in   *)
(* memory refers to its alerts.                                             *)
FlushTake(f, k) ==
    /\ flush[f].pc = "idle"
    /\ pending[k] # {}
    /\ f = Main => main = "flushing" /\ k \in stopKeys
    /\ flush' = [flush EXCEPT ![f] = [NoFlush EXCEPT !.pc = "find", !.batch = pending[k]]]
    /\ pending' = [pending EXCEPT ![k] = {}]
    /\ stopKeys' = IF f = Main THEN stopKeys \ {k} ELSE stopKeys
    /\ UNCHANGED <<reactionVars, stored, link, main, shown, posts, crashes>>

(* A batch that a timer took between Stop's snapshot and its flush.         *)
FlushNothing(k) ==
    /\ main = "flushing" /\ flush[Main].pc = "idle"
    /\ k \in stopKeys /\ pending[k] = {}
    /\ stopKeys' = stopKeys \ {k}
    /\ UNCHANGED <<reactionVars, stored, link, pending, flush, main, shown, posts, crashes>>

(* full[0].DedupFingerprint *)
BatchFp(batch) == Fp[CHOOSE a \in batch : TRUE]

(* The open incident is looked up outside the mutex, and only here.         *)
FlushFind(f) ==
    /\ flush[f].pc = "find"
    /\ LET id == FindOpen(incidents, BatchFp(flush[f].batch)) IN
         flush' = [flush EXCEPT ![f] =
                     [@ EXCEPT !.pc = IF id = NotFound THEN "post" ELSE "append", !.id = id]]
    /\ FlushUnchanged
    /\ UNCHANGED <<reactionVars, link, shown, posts>>

(* The error returns of flush: the batch is dropped.                   *)
FlushFails(f) ==
    /\ Fails
    /\ flush[f].pc \in {"find", "append", "post", "create"}
    /\ flush' = [flush EXCEPT ![f] = NoFlush]
    /\ FlushUnchanged /\ SlackUnchanged
    /\ UNCHANGED <<incidents, parents, thread, link, shown, posts>>

(* A post with the alerts of batch in parent message m or its thread.       *)
Shows(batch, m) ==
    /\ shown' = [a \in Alert |-> IF a \in batch THEN shown[a] \cup {m} ELSE shown[a]]
    /\ posts' = [a \in Alert |-> IF a \in batch THEN posts[a] + 1 ELSE posts[a]]

FlushAppend(f) ==
    /\ Succeeds
    /\ flush[f].pc = "append"
    /\ LET m == incidents[flush[f].id].ts IN
         /\ Shows(flush[f].batch, m)
         /\ Say(m, "followup", now)
    /\ flush' = [flush EXCEPT ![f].pc = "link"]
    /\ FlushUnchanged /\ SlackUnchanged
    /\ UNCHANGED <<incidents, parents, link>>

FlushPost(f) ==
    /\ Succeeds
    /\ flush[f].pc = "post"
    /\ parents < MaxMessages
    /\ parents' = parents + 1
    /\ Shows(flush[f].batch, parents + 1)
    /\ flush' = [flush EXCEPT ![f] = [@ EXCEPT !.pc = "instruct", !.ts = parents + 1]]
    /\ FlushUnchanged /\ SlackUnchanged
    /\ UNCHANGED <<incidents, thread, link>>

(* The first reply tells people how to resolve the alarm.                   *)
FlushInstruct(f) ==
    /\ flush[f].pc = "instruct"
    /\ \/ Succeeds /\ Say(flush[f].ts, "instructions", now)
       \/ Fails /\ UNCHANGED thread
    /\ flush' = [flush EXCEPT ![f].pc = "create"]
    /\ FlushUnchanged /\ SlackUnchanged
    /\ UNCHANGED <<incidents, parents, link, shown, posts>>

FlushCreateWrongId(f) ==
    /\ flush[f].pc = "create" /\ Succeeds
    /\ incidents' = Append(incidents,
         NewRow(BatchFp(flush[f].batch), flush[f].ts, now + ReminderInterval))
    /\ flush' = [flush EXCEPT ![f] = [@ EXCEPT !.pc = "link", !.id = flush[f].ts]]
    /\ FlushUnchanged /\ SlackUnchanged
    /\ UNCHANGED <<parents, thread, link, shown, posts>>

FlushCreateLatestMessage(f) ==
    /\ flush[f].pc = "create" /\ Succeeds
    /\ incidents' = Append(incidents,
         NewRow(BatchFp(flush[f].batch), parents, now + ReminderInterval))
    /\ flush' = [flush EXCEPT ![f] = [@ EXCEPT !.pc = "link", !.id = Len(incidents) + 1]]
    /\ FlushUnchanged /\ SlackUnchanged
    /\ UNCHANGED <<parents, thread, link, shown, posts>>

FlushCreate(f) ==
    /\ flush[f].pc = "create" /\ Succeeds
    /\ incidents' = Append(incidents,
         NewRow(BatchFp(flush[f].batch), flush[f].ts, now + ReminderInterval))
    /\ flush' = [flush EXCEPT ![f] = [@ EXCEPT !.pc = "link", !.id = Len(incidents) + 1]]
    /\ FlushUnchanged /\ SlackUnchanged
    /\ UNCHANGED <<parents, thread, link, shown, posts>>

(* UPDATE es_syslog_alerts SET slack_incident_id = id WHERE id IN batch     *)
FlushLink(f) ==
    /\ flush[f].pc = "link"
    /\ \/ /\ Succeeds
          /\ link' = [a \in Alert |-> IF a \in flush[f].batch \cap stored
                                   THEN flush[f].id ELSE link[a]]
       \/ Fails /\ UNCHANGED link
    /\ flush' = [flush EXCEPT ![f] = NoFlush]
    /\ FlushUnchanged /\ SlackUnchanged
    /\ UNCHANGED <<incidents, parents, thread, shown, posts>>

-----------------------------------------------------------------------------
(* EsSyslogPoller.Stop and SlackSyslogBatcher.Stop: the poller has ended,   *)
(* stopCh is closed, the pending keys are read under the mutex and flushed  *)
(* one after the other.  Timers' flushes in progress are not waited for.    *)

CloseStopCh ==
    /\ MayStop
    /\ main = "run"
    /\ main' = "stopping"
    /\ UNCHANGED <<reactionVars, stored, link, pending, flush, stopKeys, shown, posts, crashes>>

ReadStopKeys ==
    /\ main = "stopping"
    /\ main' = "flushing"
    /\ stopKeys' = {k \in Fingerprint : pending[k] # {}}
    /\ UNCHANGED <<reactionVars, stored, link, pending, flush, shown, posts, crashes>>

StopReturnsEarly ==
    /\ main = "flushing" /\ flush[Main].pc = "idle"
    /\ main' = "stopped"
    /\ UNCHANGED <<reactionVars, stored, link, pending, flush, stopKeys, shown, posts, crashes>>

StopReturns ==
    /\ main = "flushing" /\ stopKeys = {} /\ flush[Main].pc = "idle"
    /\ main' = "stopped"
    /\ UNCHANGED <<reactionVars, stored, link, pending, flush, stopKeys, shown, posts, crashes>>

(* The process ends, killed or by returning from main, and is started again:*)
(* what was in memory is gone, the database and Slack stay.                 *)
Crash ==
    /\ crashes < MaxCrashes
    /\ crashes' = crashes + 1
    /\ pending' = [k \in Fingerprint |-> {}]
    /\ flush' = [f \in Flusher |-> NoFlush]
    /\ main' = "run"
    /\ stopKeys' = {}
    /\ ReactionsCrash
    /\ UNCHANGED <<stored, link, shown, posts>>

FlushStep(f) ==
    \/ FlushFind(f) \/ FlushFails(f) \/ FlushAppend(f) \/ FlushPost(f)
    \/ FlushInstruct(f) \/ FlushCreate(f) \/ FlushLink(f)

BatcherNext ==
    \/ \E f \in Flusher, k \in Fingerprint : FlushTake(f, k)
    \/ \E f \in Flusher : FlushStep(f)
    \/ \E k \in Fingerprint : FlushNothing(k)
    \/ CloseStopCh
    \/ ReadStopKeys
    \/ StopReturns
    \/ Crash

(* Every goroutine is at rest and the bounds are used up; anything else     *)
(* that cannot move is a deadlock.                                          *)
AtRest ==
    /\ \A f \in Flusher : flush[f].pc = "idle"
    /\ \A k \in Fingerprint : pending[k] = {}
    /\ \A k \in DOMAIN events : events[k].pc = "done"
    /\ reminder.pc = "idle"
    /\ main \in {"run", "stopped"}
    /\ UNCHANGED vars

Next ==
    \/ \E a \in Alert : StoreAndEnqueue(a)
    \/ BatcherNext
    \/ ReactionsNext /\ UNCHANGED batcherVars
    \/ AtRest

Spec == Init /\ [][Next]_vars

(* Goroutines that can run are scheduled, and calls to Slack and PostgreSQL *)
(* return.  Nothing obliges people to react, or the program to stop or to   *)
(* crash.                                                                   *)
Fairness ==
    /\ \A k \in Fingerprint : WF_vars(\E f \in Flusher : FlushTake(f, k))
    /\ \A f \in Flusher : WF_vars(FlushStep(f))
    /\ WF_vars((\E k \in Fingerprint : FlushNothing(k)) \/ ReadStopKeys \/ StopReturns)
    /\ \A k \in 1..MaxEvents :
         WF_vars(/\ k \in DOMAIN events
                 /\ ReceiveEvent(k) \/ HandleUpdate(k) \/ HandleReply(k)
                 /\ UNCHANGED batcherVars)
    /\ WF_vars(/\ RemindList \/ RemindBump \/ RemindDone
                  \/ \E i \in DOMAIN incidents : RemindPost(i)
               /\ UNCHANGED batcherVars)

FairSpec == Spec /\ Fairness

-----------------------------------------------------------------------------
(* Properties *)

(* An alert is in at most one Slack post, whatever crashes, failed calls    *)
(* and racing flushes do: a batch is removed from pending before it is      *)
(* posted (slack_batcher.go:99), and nothing puts an alert back.            *)
ShownAtMostOnce == \A a \in Alert : posts[a] <= 1

(* slack_incident_id never points people to a thread without the alert: it  *)
(* is written after the post and names the incident of that very message,   *)
(* which is about the alert's own fingerprint.                              *)
LinkedWhereShown ==
    \A a \in Alert : link[a] # NotFound =>
        /\ link[a] \in DOMAIN incidents
        /\ incidents[link[a]].ts \in shown[a]
        /\ incidents[link[a]].fp = Fp[a]

(* GetSlackIncidentByMessage reads "the" incident of a message: concurrent  *)
(* flushes, failed saves and restarts never give one message two rows, nor  *)
(* a row to a message that was not posted.                                  *)
OneIncidentPerMessage ==
    \A i, j \in DOMAIN incidents :
        /\ incidents[i].ts \in 1..parents
        /\ incidents[i].ts = incidents[j].ts => i = j

(* A message rewritten as resolved belongs to an incident that is resolved, *)
(* however many check marks and hourglasses raced for it.                   *)
ClosedIsResolved ==
    \A m \in closed : \E i \in DOMAIN incidents :
        incidents[i].ts = m /\ incidents[i].resolved

Reminders(m) == {n \in DOMAIN thread[m] : thread[m][n].post = "reminder"}
SaysStopped(m) == {n \in DOMAIN thread[m] : thread[m][n].post = "resolved"}

(* "Reminders stopped." can be followed by one reminder, from the tick that *)
(* listed the incident before it was resolved, and by no second one: the    *)
(* bump of that tick undoes the far-off due time, so only the resolved_at   *)
(* condition of the query keeps the incident out of the next tick.          *)
AtMostOneLateReminder ==
    \A m \in Message : \A n \in SaysStopped(m) :
        Cardinality({r \in Reminders(m) : r > n}) <= 1

(* Two reminders of one incident come from ticks at least one interval      *)
(* apart, over pauses and unpauses too, as long as no call fails and no     *)
(* restart comes between a reminder and its bump.                           *)
RemindersSpaced ==
    faults = 0 /\ crashes = 0 =>
        \A m \in Message : \A r, q \in Reminders(m) :
            r < q => thread[m][q].at >= thread[m][r].at + ReminderInterval

(* When Stop has returned, no alert is left waiting for a timer that the    *)
(* exit would kill: each stored one was taken by a flush.                   *)
StopLeavesNothingPending ==
    main = "stopped" => \A k \in Fingerprint : pending[k] = {}

(* Every stored alert reaches Slack, through a timer or through Stop, unless*)
(* a call failed or the process died with the alert in memory.              *)
EveryAlertShown ==
    \A a \in Alert : (a \in stored) ~> (shown[a] # {} \/ faults + crashes > 0)

(* A check mark on a message whose incident was already saved resolves it,  *)
(* also when hourglasses, reminders and other check marks run at the same   *)
(* time.                                                                    *)
TrackedCheckMark(k) ==
    k \in DOMAIN events /\ events[k].kind = "check" /\ events[k].tracked
IncidentResolved(k) ==
    /\ k \in DOMAIN events
    /\ \E i \in DOMAIN incidents :
         incidents[i].ts = events[k].ts /\ incidents[i].resolved
CheckMarkResolves == \A k \in 1..MaxEvents : TrackedCheckMark(k) ~> IncidentResolved(k)

(* A reminder that is due goes out or is called off: no incident stays due  *)
(* for ever, although a tick takes only ReminderLimit rows.                 *)
DueIsReminded ==
    \A i \in 1..MaxMessages :
        (i \in DueRows(incidents, now)) ~> (i \notin DueRows(incidents, now))

RowsOf(m) == {i \in DOMAIN incidents : incidents[i].ts = m}

StatusOf(m) ==
    IF m > parents THEN "none"
    ELSE IF RowsOf(m) = {} THEN "posted"
    ELSE IF \E i \in RowsOf(m) : incidents[i].resolved THEN "resolved"
    ELSE IF \E i \in RowsOf(m) : incidents[i].snoozed THEN "paused" ELSE "open"

AlertStatus(a) ==
    IF a \notin stored THEN "new"
    ELSE IF shown[a] = {} THEN "stored"
    ELSE IF link[a] = NotFound THEN "shown" ELSE "linked"

HomeOf(a) == IF shown[a] = {} THEN 0 ELSE CHOOSE m \in shown[a] : TRUE

alertNow == [a \in Alert |-> AlertStatus(a)]
homeNow == [a \in Alert |-> HomeOf(a)]
statusNow == [m \in Message |-> StatusOf(m)]

Delivery == INSTANCE AlarmDelivery WITH
    Message <- Message, alert <- alertNow, home <- homeNow, status <- statusNow

(* The batcher, the reaction handlers and the reminder worker together      *)
(* implement AlarmDelivery: alerts are shown once and in a message of their *)
(* own alarm, and an incident is resolved for good.                         *)
ImplementsDelivery == Delivery!Spec

-----------------------------------------------------------------------------
(* What the program tells people, and does not keep *)

(* slack_blocks.go:189 "Add a :white_check_mark: reaction to the main alert *)
(* message ... when resolved. Reminders every ... until then.": a check     *)
(* mark that was handled leaves no open incident behind.                    *)
CheckMarkStopsReminders ==
    \A k \in DOMAIN events :
        events[k].kind = "check" /\ events[k].pc = "done" =>
            \A i \in DOMAIN incidents :
                incidents[i].ts = events[k].ts => incidents[i].resolved
=============================================================================
