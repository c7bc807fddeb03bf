------------------------------ MODULE RuijieMail ------------------------------
(***************************************************************************)
(* Ruijie Cloud alarms: MailPoller (internal/Ruijie/MailCacher.go) reads   *)
(* alarm mails from a mail folder, stores each and posts it to Slack; the  *)
(* ReminderWorker and the half of SlackEventsHandler for Ruijie incidents  *)
(* treat them as syslog's are treated, in tables of their own, and so are  *)
(* the actions of SlackReactions over the table of Ruijie incidents.       *)
(*                                                                         *)
(* What differs: one goroutine looks up and creates incidents, a mail of   *)
(* an alarm whose source or type cannot be read has no fingerprint, and a  *)
(* paused incident takes repeats in silence.                               *)
(*                                                                         *)
(* A definition named for a defect (...Upserts, ...Anyway, ...OneLess) is  *)
(* a faulty variant of the one that follows.                               *)
(***************************************************************************)
EXTENDS SlackReactions

CONSTANTS
    Mail,
    FpOf,          \* the fingerprint of each mail's alarm
    NoFp,          \* the fingerprint "" of a mail without source or type
    Lookback,      \* cfg.RuijieMailLookback
    MaxRestarts    \* bound on restarts

ASSUME RuijieAssumption ==
    /\ FpOf \in [Mail -> Fingerprint] /\ NoFp \in Fingerprint
    /\ Lookback \in Nat /\ MaxRestarts \in Nat /\ MaxMessages # 0

VARIABLES
    received,   \* when each mail reached the folder, Far before it does
    alerts,     \* the rows of ruijie_mail_alerts
    linkOf,     \* their slack_incident_id
    shownIn,    \* history: the posts that show each mail, by their parent message
    held,       \* history: mails a paused incident took in silence
    mailPoller, \* the poller's tick
    mailPolled, \* a tick came in this unit of time
    quiet,      \* history: what each thread showed when its incident was last paused
    restarts

mailVars == <<received, alerts, linkOf, shownIn, held, mailPoller, mailPolled, restarts>>
ruijieVars == <<reactionVars, mailVars, quiet>>
noMailChange == <<received, alerts, linkOf, shownIn, held, quiet, restarts>>

MailPollerIdle == [pc |-> "idle", at |-> 0, todo |-> {}, cur |-> {}, id |-> NotFound, ts |-> 0]
-----------------------------------------------------------------------------
(* Nothing yet, or an alarm that an earlier mail left open.                 *)
RuijieInit ==
    /\ \/ ReactionsInit
       \/ /\ incidents \in {<<NewRow(k, 1, ReminderInterval)>> : k \in Fingerprint \ {NoFp}}
          /\ parents = 1 /\ now = 0 /\ faults = 0
          /\ thread = [m \in Message |-> <<>>] /\ closed = {}
          /\ hourglass = [m \in Message |-> {}]
          /\ events = <<>> /\ seen = {} /\ reminder = Idle
    /\ received = [a \in Mail |-> Far]
    /\ alerts = {} /\ linkOf = [a \in Mail |-> NotFound]
    /\ shownIn = [a \in Mail |-> <<>>] /\ held = {}
    /\ mailPoller = MailPollerIdle /\ mailPolled = FALSE /\ restarts = 0
    /\ quiet = [m \in Message |-> 0]

Arrive(a) ==
    /\ received[a] = Far
    /\ received' = [received EXCEPT ![a] = now]
    /\ UNCHANGED <<reactionVars, alerts, linkOf, shownIn, held, mailPoller, mailPolled, quiet,
                   restarts>>

(* The ticker fires at least once per unit of time.                         *)
RuijieTick ==
    /\ mailPolled /\ mailPoller.pc = "idle"
    /\ Tick
    /\ mailPolled' = FALSE
    /\ UNCHANGED <<noMailChange, mailPoller>>

(* The mails of the lookback; without an answer the tick is over.           *)
InLookbackOneLess(at) == {a \in Mail : received[a] <= at /\ received[a] + Lookback > at}
InLookback(at) == {a \in Mail : received[a] <= at /\ received[a] + Lookback >= at}

PollTick ==
    /\ mailPoller.pc = "idle" /\ ~mailPolled
    /\ mailPolled' = TRUE
    /\ \/ /\ Succeeds
          /\ mailPoller' = IF InLookback(now) = {} THEN MailPollerIdle
                           ELSE [MailPollerIdle EXCEPT !.pc = "insert", !.at = now,
                                                       !.todo = InLookback(now)]
       \/ Fails /\ UNCHANGED mailPoller
    /\ UNCHANGED <<incidents, now, parents, thread, closed, hourglass, events, seen, reminder,
                   noMailChange>>

(* The poller goes to the next mail, newest first, or ends the tick.        *)
NextMail(todo) ==
    IF todo = {} THEN MailPollerIdle
    ELSE [MailPollerIdle EXCEPT !.pc = "insert", !.todo = todo, !.at = mailPoller.at]

(* INSERT ... ON CONFLICT DO NOTHING over the Graph id: only a mail that    *)
(* was not there goes on to Slack, and never again.                         *)
IsNewUpserts(a) == TRUE
IsNew(a) == a \notin alerts

InsertAlertIfNew(a) ==
    /\ mailPoller.pc = "insert" /\ a \in mailPoller.todo
    /\ \A b \in mailPoller.todo : received[b] <= received[a]
    /\ \/ /\ Succeeds
          /\ alerts' = alerts \cup {a}
          /\ mailPoller' = IF IsNew(a)
                           THEN [mailPoller EXCEPT !.pc = "find", !.todo = @ \ {a}, !.cur = {a}]
                           ELSE NextMail(mailPoller.todo \ {a})
       \/ Fails /\ mailPoller' = NextMail(mailPoller.todo \ {a}) /\ UNCHANGED alerts
    /\ UNCHANGED <<incidents, now, parents, thread, closed, hourglass, events, seen, reminder,
                   received, linkOf, shownIn, held, mailPolled, quiet, restarts>>
-----------------------------------------------------------------------------
(* postSlack *)

OpenIncident(a) == IF FpOf[a] = NoFp THEN NotFound ELSE FindOpen(incidents, FpOf[a])

(* Repeats of a paused alarm are filed without a post.                      *)
SilentAnyway(id) == FALSE
Silent(id) == incidents[id].snoozed

FindIncident(a) ==
    /\ mailPoller.pc = "find" /\ a \in mailPoller.cur
    /\ LET id == OpenIncident(a) IN
         \/ /\ Succeeds
            /\ mailPoller' = [mailPoller EXCEPT !.id = id,
                  !.pc = IF id = NotFound THEN "post" ELSE IF Silent(id) THEN "hold" ELSE "append"]
         \/ FpOf[a] # NoFp /\ Fails /\ mailPoller' = NextMail(mailPoller.todo)
    /\ UNCHANGED <<incidents, now, parents, thread, closed, hourglass, events, seen, reminder,
                   noMailChange, mailPolled>>

PostFails ==
    /\ mailPoller.pc \in {"append", "post", "create"}
    /\ Fails
    /\ mailPoller' = NextMail(mailPoller.todo)
    /\ UNCHANGED <<incidents, now, parents, thread, closed, hourglass, events, seen, reminder,
                   noMailChange, mailPolled>>

ShowIn(a, m) == shownIn' = [shownIn EXCEPT ![a] = Append(@, m)]

FollowUp(a) ==
    /\ mailPoller.pc = "append" /\ a \in mailPoller.cur
    /\ Succeeds
    /\ ShowIn(a, incidents[mailPoller.id].ts)
    /\ Say(incidents[mailPoller.id].ts, "followup", now)
    /\ mailPoller' = [mailPoller EXCEPT !.pc = "link"]
    /\ UNCHANGED <<incidents, now, parents, closed, hourglass, events, seen, reminder,
                   received, alerts, linkOf, held, mailPolled, quiet, restarts>>

(* The parent message, then the instructions in its thread, which may fail. *)
PostParent(a) ==
    /\ mailPoller.pc = "post" /\ a \in mailPoller.cur
    /\ parents < MaxMessages
    /\ parents' = parents + 1
    /\ ShowIn(a, parents + 1)
    /\ \/ Succeeds /\ Say(parents + 1, "instructions", now)
       \/ Fails /\ UNCHANGED thread
    /\ mailPoller' = [mailPoller EXCEPT !.pc = "create", !.ts = parents + 1]
    /\ UNCHANGED <<incidents, now, closed, hourglass, events, seen, reminder,
                   received, alerts, linkOf, held, mailPolled, quiet, restarts>>

CreateSlackIncident(a) ==
    /\ mailPoller.pc = "create" /\ a \in mailPoller.cur
    /\ Succeeds
    /\ incidents' = Append(incidents, NewRow(FpOf[a], mailPoller.ts, now + ReminderInterval))
    /\ mailPoller' = [mailPoller EXCEPT !.pc = "link", !.id = Len(incidents) + 1]
    /\ UNCHANGED <<now, parents, thread, closed, hourglass, events, seen, reminder,
                   noMailChange, mailPolled>>

LinkAlert(a) ==
    /\ mailPoller.pc \in {"link", "hold"} /\ a \in mailPoller.cur
    /\ \/ Succeeds /\ linkOf' = [linkOf EXCEPT ![a] = mailPoller.id]
       \/ Fails /\ UNCHANGED linkOf
    /\ held' = IF mailPoller.pc = "hold" THEN held \cup {a} ELSE held
    /\ mailPoller' = NextMail(mailPoller.todo)
    /\ UNCHANGED <<incidents, now, parents, thread, closed, hourglass, events, seen, reminder,
                   received, alerts, shownIn, mailPolled, quiet, restarts>>
-----------------------------------------------------------------------------
(* The half of SlackEventsHandler for Ruijie incidents, and ReminderWorker. *)
(* The incident of message m is paused.                                     *)
Paused(tab, m) == \E i \in DOMAIN tab : tab[i].ts = m /\ tab[i].snoozed

HandleRuijieEvent(k) ==
    /\ ReceiveEvent(k) \/ RepeatEvent(k) \/ HandleUpdate(k) \/ HandleReply(k)
    /\ quiet' = [m \in Message |-> IF Paused(incidents', m) /\ ~Paused(incidents, m)
                                   THEN Len(thread[m]) ELSE quiet[m]]
    /\ UNCHANGED mailVars

React ==
    /\ \E m \in Message : \/ AddCheckMark(m)
                          \/ \E u \in User : AddHourglass(m, u) \/ RemoveHourglass(m, u)
    /\ UNCHANGED <<mailVars, quiet>>

ReminderTick ==
    /\ RemindList \/ (\E i \in DOMAIN incidents : RemindPost(i)) \/ RemindBump \/ RemindDone
    /\ UNCHANGED <<mailVars, quiet>>

RuijieCrash ==
    /\ restarts < MaxRestarts /\ restarts' = restarts + 1
    /\ ReactionsCrash
    /\ mailPoller' = MailPollerIdle /\ mailPolled' = FALSE
    /\ UNCHANGED <<received, alerts, linkOf, shownIn, held, quiet>>

RuijieAtRest ==
    /\ now = MaxTime /\ mailPolled /\ mailPoller.pc = "idle"
    /\ reminder.pc = "idle"
    /\ \A k \in DOMAIN events : events[k].pc = "done"
    /\ UNCHANGED ruijieVars

MailPollerStep ==
    \/ PollTick \/ PostFails
    \/ \E a \in Mail :
          \/ InsertAlertIfNew(a) \/ FindIncident(a) \/ FollowUp(a) \/ PostParent(a)
          \/ CreateSlackIncident(a) \/ LinkAlert(a)

RuijieNext ==
    \/ \E a \in Mail : Arrive(a)
    \/ RuijieTick \/ MailPollerStep
    \/ \E k \in DOMAIN events : HandleRuijieEvent(k)
    \/ React \/ ReminderTick \/ RuijieCrash \/ RuijieAtRest

RuijieSpec == RuijieInit /\ [][RuijieNext]_ruijieVars
-----------------------------------------------------------------------------
RuijieTypeOK ==
    /\ ReactionsTypeOK
    /\ received \in [Mail -> 0 .. MaxTime \cup {Far}]
    /\ alerts \subseteq Mail /\ held \subseteq alerts
    /\ linkOf \in [Mail -> Nat] /\ shownIn \in [Mail -> Seq(Message)]
    /\ mailPoller.todo \subseteq Mail /\ mailPoller.cur \subseteq alerts
    /\ quiet \in [Message -> Nat]

(* README.md:182 "stored by Graph message ID before Slack delivery, so      *)
(* repeat polls do not post duplicates": over polls that overlap, restarts  *)
(* and failed calls a mail is in one post or held by a paused incident, and *)
(* is filed under an incident of its own alarm, the one whose message shows *)
(* it.                                                                      *)
MailShownOnce ==
    \A a \in Mail :
        /\ Len(shownIn[a]) + (IF a \in held THEN 1 ELSE 0) <= 1
        /\ linkOf[a] # NotFound =>
              /\ incidents[linkOf[a]].fp = FpOf[a]
              /\ a \notin held => shownIn[a] = <<incidents[linkOf[a]].ts>>

(* A repeat joins the open incident of its alarm, paused or not: the alarm  *)
(* is never open twice, whatever restarts and failed calls come between.    *)
OneOpenAlarm == \A k \in Fingerprint \ {NoFp} : Cardinality(OpenRows(incidents, k)) <= 1

(* A mail that is older than the lookback is stored, if no call failed and  *)
(* restarts take less than the lookback.                                    *)
NoMailMissed ==
    \A a \in Mail : faults = 0 /\ now > received[a] + Lookback => a \in alerts

(* slack_events.go:299 "Ruijie reminders and repeated thread replies are    *)
(* paused ... until this reaction is removed": from the write that pauses   *)
(* an incident on, its thread gets at most one reply, by a poller that read *)
(* the row before, and one reminder, by a tick that listed it before,       *)
(* however often it is paused, whatever fails or restarts.                  *)
Since(posts, kind, n) == {k \in DOMAIN posts : k > n /\ posts[k].post = kind}

PausedIsQuiet ==
    \A m \in Message :
        Paused(incidents, m) =>
            /\ Cardinality(Since(thread[m], "followup", quiet[m])) <= 1
            /\ Cardinality(Since(thread[m], "reminder", quiet[m])) <= 1
=============================================================================
