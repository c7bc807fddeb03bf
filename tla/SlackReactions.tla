---------------------------- MODULE SlackReactions ----------------------------
(***************************************************************************)
(* What happens to a syslog incident once it has a row: the goroutine of   *)
(* SlackReminderWorker posts reminders in its Slack thread, and one HTTP   *)
(* goroutine per Slack event resolves it (a check mark) or pauses its      *)
(* reminders (an hourglass).  The actions are composed with the batcher in *)
(* SyslogSlack.                                                            *)
(*                                                                         *)
(* Each action ends at a call that lets another goroutine in: a statement  *)
(* of the repository or a request to Slack.                                *)
(***************************************************************************)
EXTENDS IncidentTable, FiniteSets

CONSTANTS
    User,              \* people who react to messages in the channel
    MaxMessages,       \* bound: parent messages posted to the channel
    MaxEvents,         \* bound: reaction events Slack sends
    MaxTime,           \* bound: the clock, in units of the shortest interval
    ReminderInterval,  \* cfg.SlackReminderInterval
    ReminderLimit,     \* LIMIT of the reminder query (50 in the code)
    MaxFaults          \* bound: calls to Slack and PostgreSQL that fail

ASSUME ReactionsAssumption ==
    /\ MaxMessages \in Nat /\ MaxEvents \in Nat /\ MaxTime \in Nat
    /\ ReminderInterval \in Nat \ {0} /\ ReminderLimit \in Nat \ {0}
    /\ MaxFaults \in Nat
    /\ Far > MaxTime + ReminderInterval

VARIABLES
    incidents,   \* the incident table
    now,         \* wall clock
    parents,     \* Slack: number of parent messages posted, their ts are 1..parents
    thread,      \* Slack: what each parent message's thread shows, in order
    closed,      \* Slack: parent messages rewritten to show the alarm as resolved
    hourglass,   \* Slack: users whose hourglass is on each parent message
    events,      \* Slack: reaction events in the order of the reactions
    seen,        \* handler: event ids already received (h.seen)
    reminder,    \* reminder worker: its pc, tick time, rows still to post, row to bump
    faults       \* calls that failed so far

reactionVars == <<incidents, now, parents, thread, closed, hourglass, events, seen, reminder,
                  faults>>

Message == 1..MaxMessages

ThreadPost == {"instructions", "followup", "reminder", "resolved", "paused", "active"}
Post(kind, at) == [post |-> kind, at |-> at]

(* pc: sent = not yet received by the running process; writing = the row    *)
(* was read and the update is next; replying = updated, the thread reply is *)
(* next.  tracked records whether the message had an incident row when the  *)
(* reaction was made; acked whether Slack has its 200.                      *)
EventRecord ==
    [kind : {"check", "pause", "unpause"}, ts : Message,
     pc : {"sent", "writing", "replying", "done"}, id : Nat,
     acked : BOOLEAN, tracked : BOOLEAN]

Idle == [pc |-> "idle", at |-> 0, todo |-> {}, cur |-> NotFound]
ReminderRecord ==
    [pc : {"idle", "list", "bump"}, at : Nat, todo : SUBSET Nat, cur : Nat]

ReactionsTypeOK ==
    /\ incidents \in Seq(Row)
    /\ now \in 0..MaxTime
    /\ parents \in 0..MaxMessages
    /\ thread \in [Message -> Seq([post : ThreadPost, at : Nat])]
    /\ closed \in SUBSET Message
    /\ hourglass \in [Message -> SUBSET User]
    /\ events \in Seq(EventRecord)
    /\ seen \in SUBSET Nat
    /\ reminder \in ReminderRecord
    /\ faults \in 0..MaxFaults

ReactionsInit ==
    /\ incidents = <<>>
    /\ now = 0
    /\ parents = 0
    /\ thread = [m \in Message |-> <<>>]
    /\ closed = {}
    /\ hourglass = [m \in Message |-> {}]
    /\ events = <<>>
    /\ seen = {}
    /\ reminder = Idle
    /\ faults = 0

Say(m, kind, at) == thread' = [thread EXCEPT ![m] = Append(@, Post(kind, at))]

(* A call that is answered, and one that is not. *)
Succeeds == UNCHANGED faults
Fails == faults < MaxFaults /\ faults' = faults + 1

Tick ==
    /\ now < MaxTime
    /\ now' = now + 1
    /\ UNCHANGED <<incidents, parents, thread, closed, hourglass, events, seen, reminder, faults>>

-----------------------------------------------------------------------------
(* People in the channel.  Slack turns each reaction into one event.        *)

SendEvent(kind, m) ==
    /\ Len(events) < MaxEvents
    /\ events' = Append(events,
         [kind |-> kind, ts |-> m, pc |-> "sent", id |-> NotFound, acked |-> FALSE,
          tracked |-> ByMessage(incidents, m) # NotFound])
    /\ UNCHANGED <<incidents, now, parents, thread, closed, seen, reminder, faults>>

AddCheckMark(m) ==
    /\ m <= parents
    /\ SendEvent("check", m)
    /\ UNCHANGED hourglass

AddHourglass(m, u) ==
    /\ m <= parents
    /\ u \notin hourglass[m]
    /\ hourglass' = [hourglass EXCEPT ![m] = @ \cup {u}]
    /\ SendEvent("pause", m)

RemoveHourglass(m, u) ==
    /\ u \in hourglass[m]
    /\ hourglass' = [hourglass EXCEPT ![m] = @ \ {u}]
    /\ SendEvent("unpause", m)

-----------------------------------------------------------------------------
(* SlackEventsHandler: Handle, dedupe, resolveSyslogIncident and            *)
(* setSyslogIncidentSnoozed.                                                *)

(* Does the row read for event e call for an update?  (The early returns.)  *)
NeedsUpdateUnlessPaused(e, id) ==
    /\ id # NotFound
    /\ ~incidents[id].resolved
    /\ e.kind \in {"check", "pause"} => ~incidents[id].snoozed
    /\ e.kind = "unpause" => incidents[id].snoozed
NeedsUpdate(e, id) ==
    /\ id # NotFound
    /\ ~incidents[id].resolved
    /\ e.kind = "pause" => ~incidents[id].snoozed
    /\ e.kind = "unpause" => incidents[id].snoozed

(* The first delivery of the event: its id is recorded as seen before       *)
(* anything is done about it; then the row is read.  A failed read also     *)
(* answers 200.                                                             *)
ReceiveEvent(k) ==
    /\ events[k].pc = "sent" /\ ~events[k].acked
    /\ k \notin seen
    /\ seen' = seen \cup {k}
    /\ LET id == ByMessage(incidents, events[k].ts) IN
         \/ /\ NeedsUpdate(events[k], id) /\ Succeeds
            /\ events' = [events EXCEPT ![k] = [@ EXCEPT !.pc = "writing", !.id = id]]
         \/ /\ (~NeedsUpdate(events[k], id) /\ Succeeds) \/ Fails
            /\ events' = [events EXCEPT ![k] = [@ EXCEPT !.pc = "done", !.acked = TRUE]]
    /\ UNCHANGED <<incidents, now, parents, thread, closed, hourglass, reminder>>

(* Slack repeats a request it had no answer to within its time limit; the   *)
(* repeat is answered 200 at once, whatever became of the first.            *)
RepeatEvent(k) ==
    /\ ~events[k].acked
    /\ k \in seen
    /\ events' = [events EXCEPT ![k] = [@ EXCEPT !.acked = TRUE]]
    /\ UNCHANGED <<incidents, now, parents, thread, closed, hourglass, seen, reminder, faults>>

UpdateFor(e) ==
    CASE e.kind = "check"   -> MarkResolved(incidents, e.id)
      [] e.kind = "pause"   -> Snooze(incidents, e.id)
      [] e.kind = "unpause" -> Unsnooze(incidents, e.id, now + ReminderInterval)

(* The update, after the row was read and the user's name was fetched from  *)
(* Slack: nothing of what was read is checked again in the code, only the   *)
(* WHERE clause of the statement protects the row.                          *)
HandleUpdate(k) ==
    /\ events[k].pc = "writing"
    /\ \/ /\ Succeeds
          /\ incidents' = UpdateFor(events[k])
          /\ events' = [events EXCEPT ![k] = [@ EXCEPT !.pc = "replying"]]
       \/ /\ Fails
          /\ events' = [events EXCEPT ![k] = [@ EXCEPT !.pc = "done", !.acked = TRUE]]
          /\ UNCHANGED incidents
    /\ UNCHANGED <<now, parents, thread, closed, hourglass, seen, reminder>>

ReplyTo(kind) ==
    CASE kind = "check" -> "resolved" [] kind = "pause" -> "paused" [] kind = "unpause" -> "active"

(* A resolved alarm's parent message is rewritten, then the thread reply is *)
(* posted and Slack has its 200.  A request that fails is left at that; if  *)
(* the alerts of the resolved incident cannot be read, none is made.        *)
HandleReply(k) ==
    /\ events[k].pc = "replying"
    /\ LET m == events[k].ts
           rewritten == closed \cup (IF events[k].kind = "check" THEN {m} ELSE {})
           reply == ReplyTo(events[k].kind)
       IN \/ Succeeds /\ closed' = rewritten /\ Say(m, reply, now)
          \/ Fails /\ closed' = rewritten /\ UNCHANGED thread
          \/ Fails /\ UNCHANGED closed /\ Say(m, reply, now)
          \/ Fails /\ events[k].kind = "check" /\ UNCHANGED <<closed, thread>>
    /\ events' = [events EXCEPT ![k] = [@ EXCEPT !.pc = "done", !.acked = TRUE]]
    /\ UNCHANGED <<incidents, now, parents, hourglass, seen, reminder>>

-----------------------------------------------------------------------------
(* SlackReminderWorker.tick: one goroutine, one tick at a time.             *)

(* The rows of the query: at most ReminderLimit, earliest due first.        *)
DueBatchesBelowLimit ==
    LET due == DueRows(incidents, now) IN
    {S \in SUBSET due :
        /\ Cardinality(S) = IF Cardinality(due) < ReminderLimit
                            THEN Cardinality(due) ELSE ReminderLimit - 1
        /\ \A i \in S, j \in due \ S : incidents[i].due <= incidents[j].due}
DueBatches ==
    LET due == DueRows(incidents, now) IN
    {S \in SUBSET due :
        /\ Cardinality(S) = IF Cardinality(due) <= ReminderLimit
                            THEN Cardinality(due) ELSE ReminderLimit
        /\ \A i \in S, j \in due \ S : incidents[i].due <= incidents[j].due}

RemindList ==
    /\ reminder.pc = "idle"
    /\ \E S \in DueBatches \ {{}} :
         reminder' = [pc |-> "list", at |-> now, todo |-> S, cur |-> NotFound]
    /\ UNCHANGED <<incidents, now, parents, thread, closed, hourglass, events, seen, faults>>

(* The reminder goes out on the strength of the list; a failed post leaves  *)
(* the row as it was.                                                       *)
RemindPost(i) ==
    /\ reminder.pc = "list" /\ i \in reminder.todo
    /\ \/ /\ Succeeds
          /\ Say(incidents[i].ts, "reminder", reminder.at)
          /\ reminder' = [reminder EXCEPT !.pc = "bump", !.todo = @ \ {i}, !.cur = i]
       \/ /\ Fails
          /\ reminder' = [reminder EXCEPT !.todo = @ \ {i}]
          /\ UNCHANGED thread
    /\ UNCHANGED <<incidents, now, parents, closed, hourglass, events, seen>>

RemindBump ==
    /\ reminder.pc = "bump"
    /\ \/ /\ Succeeds
          /\ incidents' = BumpReminder(incidents, reminder.cur, reminder.at + ReminderInterval)
       \/ Fails /\ UNCHANGED incidents
    /\ reminder' = [reminder EXCEPT !.pc = "list", !.cur = NotFound]
    /\ UNCHANGED <<now, parents, thread, closed, hourglass, events, seen>>

RemindDone ==
    /\ reminder.pc = "list" /\ reminder.todo = {}
    /\ reminder' = Idle
    /\ UNCHANGED <<incidents, now, parents, thread, closed, hourglass, events, seen, faults>>

-----------------------------------------------------------------------------
(* The process dies: the seen set, the handlers and the reminder tick go    *)
(* with it.  Slack repeats an event it has no 200 for.                      *)
ReactionsCrash ==
    /\ seen' = {}
    /\ events' = [k \in DOMAIN events |->
                    IF events[k].acked THEN [events[k] EXCEPT !.pc = "done"]
                    ELSE [events[k] EXCEPT !.pc = "sent", !.id = NotFound]]
    /\ reminder' = Idle
    /\ UNCHANGED <<incidents, now, parents, thread, closed, hourglass, faults>>

ReactionsNext ==
    \/ Tick
    \/ \E m \in Message : AddCheckMark(m)
    \/ \E m \in Message, u \in User : AddHourglass(m, u) \/ RemoveHourglass(m, u)
    \/ \E k \in DOMAIN events :
         ReceiveEvent(k) \/ RepeatEvent(k) \/ HandleUpdate(k) \/ HandleReply(k)
    \/ RemindList
    \/ \E i \in DOMAIN incidents : RemindPost(i)
    \/ RemindBump
    \/ RemindDone
=============================================================================
