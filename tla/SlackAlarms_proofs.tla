-------------------------- MODULE SlackAlarms_proofs --------------------------
(***************************************************************************)
(* Proofs about the alarms in Slack: the incident table with its handlers  *)
(* and reminders (SlackReactions), and its two users, the syslog alarms    *)
(* (SyslogSlack, SyslogPipeline) and the Ruijie mails (RuijieMail), for    *)
(* every set of documents, filters, alerts, mails, goroutines and users    *)
(* and every window, interval, size and bound.                             *)
(*                                                                         *)
(* SlackReactions has lemmas only: what a statement does to the table,     *)
(* that the ids kept between two statements are ids of rows, and that no   *)
(* reaction or reminder does more to the table than update rows.           *)
(*                                                                         *)
(* SyslogSlack: type correctness, ShownAtMostOnce, LinkedWhereShown,       *)
(* OneIncidentPerMessage, ClosedIsResolved, and that it implements         *)
(* AlarmDelivery.  None of the invariants is inductive: they depend on     *)
(* where an alert is on its way through the batcher.  IInv adds what the   *)
(* code maintains at every point of that way, DeliveryInv what the         *)
(* refinement needs besides.  At the end of the module, what the bounds of *)
(* a run do not reach: AtMostOneLateReminder, RemindersSpaced, and         *)
(* StopLeavesNothingPending, with LateInv, SpacedInv and StopReads.        *)
(*                                                                         *)
(* SyslogPipeline: type correctness, the same two properties behind this   *)
(* poller, those of the pipeline run, and ShownOncePerInsert.  The batcher *)
(* may hold alerts whose rows were purged, so its part of the invariant is *)
(* InvOf(used): about the rows that were ever stored.                      *)
(*                                                                         *)
(* RuijieMail: type correctness, MailShownOnce, OneOpenAlarm,              *)
(* PausedIsQuiet, and NoMailMissed where the lookback covers the time      *)
(* between two polls.  MInv says where a mail is on its way through one    *)
(* tick of the poller, QuietInv what may still come to a paused thread.    *)
(***************************************************************************)
EXTENDS SyslogPipeline, RuijieMail, SequenceTheorems, FiniteSetTheorems,
        WellFoundedInduction, TLAPS

-----------------------------------------------------------------------------
(* SlackReactions                                                           *)

(* Ids that are kept between two statements are ids of rows; an event keeps *)
(* that of its message's row, and replies to a check mark once it is        *)
(* resolved.                                                                *)
KeptIdsExist ==
    /\ \A k \in DOMAIN events :
         events[k].pc \in {"writing", "replying"} =>
             /\ events[k].id \in DOMAIN incidents
             /\ incidents[events[k].id].ts = events[k].ts
             /\ events[k].kind = "check" /\ events[k].pc = "replying" =>
                    incidents[events[k].id].resolved
    /\ reminder.todo \subseteq DOMAIN incidents
    /\ reminder.pc = "bump" => reminder.cur \in DOMAIN incidents

-----------------------------------------------------------------------------
(* The table                                                                *)

(* u is table t after updates of its rows: same ids, fingerprints and       *)
(* messages, and what is resolved stays so.                                 *)
RowsUpdated(t, u) ==
    /\ u \in Seq(Row)
    /\ Len(u) = Len(t)
    /\ \A i \in 1..Len(t) : /\ u[i].fp = t[i].fp /\ u[i].ts = t[i].ts
                            /\ t[i].resolved => u[i].resolved

(* Replacing one row by another with the same fingerprint and message.      *)
LEMMA ReplaceRow ==
    ASSUME NEW t \in Seq(Row), NEW i \in 1..Len(t), NEW r \in Row,
           r.fp = t[i].fp, r.ts = t[i].ts, t[i].resolved => r.resolved
    PROVE  RowsUpdated(t, [t EXCEPT ![i] = r])
  BY ExceptSeq DEF RowsUpdated

LEMMA SameTable == ASSUME NEW t \in Seq(Row) PROVE RowsUpdated(t, t)
  BY DEF RowsUpdated

LEMMA MarkResolvedKeys ==
    ASSUME NEW t \in Seq(Row), NEW i \in 1..Len(t)
    PROVE  RowsUpdated(t, MarkResolved(t, i)) /\ MarkResolved(t, i)[i].resolved
<1> DEFINE r == [t[i] EXCEPT !.resolved = TRUE, !.due = Far]
<1>1. t[i] \in Row BY ElementOfSeq
<1>2. r \in Row /\ r.fp = t[i].fp /\ r.ts = t[i].ts /\ r.resolved
  BY <1>1, FarAssumption DEF Row
<1>3. MarkResolved(t, i) = [t EXCEPT ![i] = r] BY DEF MarkResolved
<1> HIDE DEF r
<1>4. MarkResolved(t, i)[i] = r BY <1>3, ExceptSeq
<1> QED BY <1>2, <1>3, <1>4, ReplaceRow, ZenonT(60)

LEMMA BumpReminderKeys ==
    ASSUME NEW t \in Seq(Row), NEW i \in 1..Len(t), NEW next \in Nat
    PROVE  RowsUpdated(t, BumpReminder(t, i, next))
<1> DEFINE r == [t[i] EXCEPT !.due = next]
<1>1. t[i] \in Row BY ElementOfSeq
<1>2. r \in Row /\ r.fp = t[i].fp /\ r.ts = t[i].ts /\ (t[i].resolved => r.resolved)
  BY <1>1 DEF Row
<1>3. BumpReminder(t, i, next) = [t EXCEPT ![i] = r] BY DEF BumpReminder
<1> QED BY <1>2, <1>3, ReplaceRow, ZenonT(60)

LEMMA SnoozeKeys ==
    ASSUME NEW t \in Seq(Row), NEW i \in 1..Len(t)
    PROVE  RowsUpdated(t, Snooze(t, i))
<1> DEFINE r == [t[i] EXCEPT !.snoozed = TRUE, !.due = Far]
<1>1. t[i] \in Row BY ElementOfSeq
<1>2. r \in Row /\ r.fp = t[i].fp /\ r.ts = t[i].ts /\ (t[i].resolved => r.resolved)
  BY <1>1, FarAssumption DEF Row
<1>3. Snooze(t, i) = t \/ Snooze(t, i) = [t EXCEPT ![i] = r] BY DEF Snooze
<1> HIDE DEF r
<1> QED BY <1>2, <1>3, ReplaceRow, SameTable

LEMMA UnsnoozeKeys ==
    ASSUME NEW t \in Seq(Row), NEW i \in 1..Len(t), NEW next \in Nat
    PROVE  RowsUpdated(t, Unsnooze(t, i, next))
<1> DEFINE r == [t[i] EXCEPT !.snoozed = FALSE, !.due = next]
<1>1. t[i] \in Row BY ElementOfSeq
<1>2. r \in Row /\ r.fp = t[i].fp /\ r.ts = t[i].ts /\ (t[i].resolved => r.resolved)
  BY <1>1 DEF Row
<1>3. Unsnooze(t, i, next) = t \/ Unsnooze(t, i, next) = [t EXCEPT ![i] = r]
  BY DEF Unsnooze
<1> HIDE DEF r
<1> QED BY <1>2, <1>3, ReplaceRow, SameTable

(* A non-empty set of row ids has a largest one.                            *)
LEMMA HasLargest ==
    ASSUME NEW n \in Nat, NEW S \in SUBSET (1..n), S # {}
    PROVE  \E i \in S : \A j \in S : j <= i
<1> DEFINE R == OpToRel(<, Nat)
           T == {x \in Nat : \E i \in S : x = n - i}
<1>1. \A j \in S : j \in Nat /\ n - j \in Nat OBVIOUS
<1>2. \A j \in S : n - j \in T BY <1>1
<1>3. T \subseteq Nat /\ T # {} BY <1>2
<1>4. IsWellFoundedOn(R, Nat) BY NatLessThanWellFounded
<1>5. \E x \in T : \A y \in T : ~(<<y, x>> \in R)
  <2> HIDE DEF R, T
  <2> QED BY <1>3, <1>4, WFMin
<1>6. PICK i \in S : \A y \in T : ~(<<y, n - i>> \in R) BY <1>5
<1>7. \A j \in S : ~(n - j < n - i) BY <1>1, <1>2, <1>6 DEF OpToRel
<1> QED BY <1>7, <1>1

(* The lookups return the id of a row that fits, or NotFound.               *)
LEMMA FindOpenFinds ==
    ASSUME NEW t \in Seq(Row), NEW fp
    PROVE  \/ FindOpen(t, fp) = NotFound
           \/ FindOpen(t, fp) \in DOMAIN t /\ t[FindOpen(t, fp)].fp = fp
<1> DEFINE S == OpenRows(t, fp)
<1>1. CASE S = {} BY <1>1 DEF FindOpen
<1>2. CASE S # {}
  <2>1. Len(t) \in Nat /\ S \in SUBSET (1..Len(t)) BY LenProperties DEF OpenRows
  <2>2. \E i \in S : \A j \in S : j <= i
    <3> HIDE DEF S
    <3> QED BY <1>2, <2>1, HasLargest
  <2>3. FindOpen(t, fp) \in S BY <1>2, <2>2 DEF FindOpen
  <2> QED BY <2>3 DEF OpenRows
<1> QED BY <1>1, <1>2

LEMMA ByMessageFinds ==
    ASSUME NEW t \in Seq(Row), NEW m
    PROVE  \/ ByMessage(t, m) = NotFound
           \/ ByMessage(t, m) \in DOMAIN t /\ t[ByMessage(t, m)].ts = m
  BY DEF ByMessage
-----------------------------------------------------------------------------
(* Reactions and reminders                                                  *)

(* What the reactions and reminders need, and keep, of the incidents; and   *)
(* what they do to them.                                                    *)
ReactionsInv == ReactionsTypeOK /\ KeptIdsExist
UpdatesOnly == parents' = parents /\ RowsUpdated(incidents, incidents')

LEMMA SayType ==
    ASSUME ReactionsTypeOK, NEW m, NEW kind \in ThreadPost, NEW at \in Nat, Say(m, kind, at)
    PROVE  thread' \in [Message -> Seq([post : ThreadPost, at : Nat])]
<1>1. thread \in [Message -> Seq([post : ThreadPost, at : Nat])]
  BY DEF ReactionsTypeOK
<1>2. Post(kind, at) \in [post : ThreadPost, at : Nat] BY DEF Post
<1> DEFINE E == [post : ThreadPost, at : Nat]
           p == Post(kind, at)
<1>3. thread \in [Message -> Seq(E)] /\ p \in E BY <1>1, <1>2
<1>4. thread' = [thread EXCEPT ![m] = Append(thread[m], p)] BY DEF Say
<1> HIDE DEF E, p
<1>5. CASE m \in Message
  <2>1. thread[m] \in Seq(E) BY <1>3, <1>5
  <2>2. Append(thread[m], p) \in Seq(E) BY <1>3, <2>1, AppendProperties
  <2>3. thread' \in [Message -> Seq(E)] BY <1>3, <1>4, <2>2
  <2> QED BY <2>3 DEF E
<1>6. CASE m \notin Message
  <2>1. thread' = thread BY <1>3, <1>4, <1>6
  <2> QED BY <1>1, <2>1
<1> QED BY <1>5, <1>6

LEMMA EventUpdate ==
    ASSUME ReactionsTypeOK, NEW k \in DOMAIN events, NEW r \in EventRecord,
           events' = [events EXCEPT ![k] = r]
    PROVE  /\ events' \in Seq(EventRecord)
           /\ DOMAIN events' = DOMAIN events
           /\ \A j \in DOMAIN events : events'[j] = IF j = k THEN r ELSE events[j]
<1>1. events \in Seq(EventRecord) BY DEF ReactionsTypeOK
<1>2. DOMAIN events = 1..Len(events) BY <1>1, LenProperties
<1>3. k \in 1..Len(events) BY <1>2
<1>4. events' \in Seq(EventRecord) /\ Len(events') = Len(events)
  BY <1>1, <1>3, ExceptSeq
<1>5. DOMAIN events' = 1..Len(events') BY <1>4, LenProperties
<1> QED BY <1>1, <1>2, <1>3, <1>4, <1>5, ExceptSeq

LEMMA EventType == ASSUME ReactionsTypeOK, NEW k \in DOMAIN events
                   PROVE  events[k] \in EventRecord /\ k \in Nat
<1>1. events \in Seq(EventRecord) BY DEF ReactionsTypeOK
<1>2. DOMAIN events = 1..Len(events) /\ Len(events) \in Nat BY <1>1, LenProperties
<1> QED BY <1>1, <1>2, ElementOfSeq

LEMMA NoUpdate ==
    ASSUME ReactionsInv, UNCHANGED <<incidents, parents>> PROVE UpdatesOnly
  BY SameTable DEF ReactionsInv, ReactionsTypeOK, UpdatesOnly

LEMMA TickStep == ASSUME ReactionsInv, Tick PROVE ReactionsInv' /\ UpdatesOnly
<1>0. ReactionsTypeOK BY DEF ReactionsInv, ReactionsTypeOK
<1>a. now' \in 0..MaxTime BY <1>0, ReactionsAssumption DEF ReactionsTypeOK, Tick
<1>1. ReactionsTypeOK' BY <1>0, <1>a DEF ReactionsTypeOK, Tick
<1>2. KeptIdsExist' BY DEF ReactionsInv, KeptIdsExist, Tick
<1>3. UpdatesOnly BY NoUpdate DEF Tick
<1> QED BY <1>1, <1>2, <1>3 DEF ReactionsInv

LEMMA SendEventStep ==
    ASSUME ReactionsInv, NEW m \in Message, NEW kind \in {"check", "pause", "unpause"},
           SendEvent(kind, m), hourglass' \in [Message -> SUBSET User]
    PROVE  ReactionsInv' /\ UpdatesOnly
<1> DEFINE r == [kind |-> kind, ts |-> m, pc |-> "sent", id |-> NotFound, acked |-> FALSE,
                 tracked |-> ByMessage(incidents, m) # NotFound]
<1>1. events \in Seq(EventRecord) BY DEF ReactionsInv, ReactionsTypeOK
<1>2. r \in EventRecord BY DEF EventRecord, NotFound
<1>3. events' = Append(events, r) BY DEF SendEvent
<1>4. r.pc = "sent" OBVIOUS
<1> HIDE DEF r
<1>5. /\ events' \in Seq(EventRecord)
      /\ DOMAIN events = 1..Len(events) /\ DOMAIN events' = 1..(Len(events) + 1)
      /\ \A j \in DOMAIN events : events'[j] = events[j]
      /\ events'[Len(events) + 1] = r
      /\ Len(events) \in Nat
  BY <1>1, <1>2, <1>3
<1>6. ReactionsTypeOK' BY <1>5 DEF ReactionsInv, ReactionsTypeOK, SendEvent
<1>7. KeptIdsExist' BY <1>4, <1>5 DEF ReactionsInv, KeptIdsExist, SendEvent
<1>8. UpdatesOnly BY NoUpdate DEF SendEvent
<1> QED BY <1>6, <1>7, <1>8 DEF ReactionsInv

LEMMA AddCheckMarkStep ==
    ASSUME ReactionsInv,
           NEW m \in Message, AddCheckMark(m) PROVE ReactionsInv' /\ UpdatesOnly
<1>1. hourglass' \in [Message -> SUBSET User]
  BY DEF ReactionsInv, ReactionsTypeOK, AddCheckMark
<1> QED BY <1>1, SendEventStep DEF AddCheckMark

LEMMA AddHourglassStep ==
    ASSUME ReactionsInv, NEW m \in Message, NEW u \in User, AddHourglass(m, u)
    PROVE  ReactionsInv' /\ UpdatesOnly
<1>1. hourglass' \in [Message -> SUBSET User]
  BY DEF ReactionsInv, ReactionsTypeOK, AddHourglass
<1> QED BY <1>1, SendEventStep DEF AddHourglass

LEMMA RemoveHourglassStep ==
    ASSUME ReactionsInv, NEW m \in Message, NEW u \in User, RemoveHourglass(m, u)
    PROVE  ReactionsInv' /\ UpdatesOnly
<1>1. hourglass' \in [Message -> SUBSET User]
  BY DEF ReactionsInv, ReactionsTypeOK, RemoveHourglass
<1> QED BY <1>1, SendEventStep DEF RemoveHourglass

LEMMA FaultsType == ASSUME ReactionsTypeOK, Succeeds \/ Fails PROVE faults' \in 0..MaxFaults
  BY ReactionsAssumption DEF ReactionsTypeOK, Succeeds, Fails

(* A handler that moves event k to record r, whose kept id is a row's.      *)
LEMMA EventStep ==
    ASSUME ReactionsInv, NEW k \in DOMAIN events, NEW r \in EventRecord,
           events' = [events EXCEPT ![k] = r], RowsUpdated(incidents, incidents'),
           r.pc \in {"writing", "replying"} =>
               /\ r.id \in DOMAIN incidents
               /\ incidents[r.id].ts = r.ts
               /\ r.kind = "check" /\ r.pc = "replying" => incidents'[r.id].resolved,
           UNCHANGED reminder
    PROVE  KeptIdsExist' /\ events' \in Seq(EventRecord) /\ incidents' \in Seq(Row)
<1>1. ReactionsTypeOK /\ incidents \in Seq(Row) BY DEF ReactionsInv, ReactionsTypeOK
<1>2. /\ incidents' \in Seq(Row) /\ DOMAIN incidents' = DOMAIN incidents
      /\ \A i \in DOMAIN incidents : /\ incidents'[i].ts = incidents[i].ts
                                     /\ incidents[i].resolved => incidents'[i].resolved
  BY <1>1, LenProperties DEF RowsUpdated
<1>3. /\ events' \in Seq(EventRecord)
      /\ DOMAIN events' = DOMAIN events
      /\ \A j \in DOMAIN events : events'[j] = IF j = k THEN r ELSE events[j]
  BY <1>1, EventUpdate
<1> QED BY <1>2, <1>3, SMTT(60) DEF ReactionsInv, KeptIdsExist

LEMMA ReceiveEventStep ==
    ASSUME ReactionsInv, NEW k \in DOMAIN events, ReceiveEvent(k)
    PROVE  ReactionsInv' /\ UpdatesOnly
<1> DEFINE id == ByMessage(incidents, events[k].ts)
           w == [events[k] EXCEPT !.pc = "writing", !.id = id]
           d == [events[k] EXCEPT !.pc = "done", !.acked = TRUE]
           Kept == KeptIdsExist' /\ events' \in Seq(EventRecord) /\ incidents' \in Seq(Row)
<1>1. ReactionsTypeOK /\ incidents \in Seq(Row) /\ DOMAIN incidents = 1..Len(incidents)
  BY LenProperties DEF ReactionsInv, ReactionsTypeOK
<1>2. events[k] \in EventRecord /\ k \in Nat BY <1>1, EventType
<1>3. RowsUpdated(incidents, incidents') /\ UpdatesOnly
  BY <1>1, NoUpdate, SameTable DEF ReceiveEvent
<1>4. seen' \in SUBSET Nat /\ UNCHANGED reminder
  BY <1>1, <1>2 DEF ReactionsTypeOK, ReceiveEvent
<1>5. faults' \in 0..MaxFaults BY <1>1, FaultsType DEF ReceiveEvent
<1>6. ASSUME NeedsUpdate(events[k], id), events' = [events EXCEPT ![k] = w] PROVE Kept
  <2>1. id \in DOMAIN incidents /\ incidents[id].ts = events[k].ts
    BY <1>1, <1>6, ByMessageFinds DEF NeedsUpdate
  <2>2. w \in EventRecord /\ w.id = id /\ w.ts = events[k].ts /\ w.pc = "writing"
    <3> HIDE DEF id
    <3>1. id \in Nat BY <1>1, <2>1
    <3> QED BY <1>2, <3>1 DEF EventRecord
  <2> HIDE DEF w
  <2> QED BY <1>3, <1>4, <1>6, <2>1, <2>2, EventStep
<1>7. ASSUME events' = [events EXCEPT ![k] = d] PROVE Kept
  <2>1. d \in EventRecord /\ d.pc = "done" BY <1>2 DEF EventRecord
  <2> HIDE DEF d
  <2> QED BY <1>3, <1>4, <1>7, <2>1, EventStep
<1>8. Kept
  <2>1. \/ NeedsUpdate(events[k], id) /\ events' = [events EXCEPT ![k] = w]
        \/ events' = [events EXCEPT ![k] = d]
    BY DEF ReceiveEvent
  <2> HIDE DEF w, d, id, Kept
  <2> QED BY <1>6, <1>7, <2>1
<1>9. ReactionsTypeOK'
  BY <1>1, <1>4, <1>5, <1>8 DEF ReactionsTypeOK, ReceiveEvent
<1> QED BY <1>3, <1>8, <1>9 DEF ReactionsInv

LEMMA RepeatEventStep ==
    ASSUME ReactionsInv, NEW k \in DOMAIN events, RepeatEvent(k)
    PROVE  ReactionsInv' /\ UpdatesOnly
<1> DEFINE r == [events[k] EXCEPT !.acked = TRUE]
<1>1. ReactionsTypeOK /\ incidents \in Seq(Row) BY DEF ReactionsInv, ReactionsTypeOK
<1>2. events[k] \in EventRecord BY <1>1, EventType
<1>3. RowsUpdated(incidents, incidents') /\ UpdatesOnly
  BY <1>1, NoUpdate, SameTable DEF RepeatEvent
<1>4. /\ r \in EventRecord /\ r.pc = events[k].pc /\ r.id = events[k].id
      /\ r.ts = events[k].ts /\ r.kind = events[k].kind
  BY <1>2 DEF EventRecord
<1>5. events' = [events EXCEPT ![k] = r] /\ UNCHANGED reminder BY DEF RepeatEvent
<1> HIDE DEF r
<1>6. KeptIdsExist' /\ events' \in Seq(EventRecord) /\ incidents' \in Seq(Row)
  <2>1. r.pc \in {"writing", "replying"} =>
            /\ r.id \in DOMAIN incidents
            /\ incidents[r.id].ts = r.ts
            /\ r.kind = "check" /\ r.pc = "replying" => incidents'[r.id].resolved
    BY <1>4 DEF ReactionsInv, KeptIdsExist, RepeatEvent
  <2> QED BY <1>3, <1>4, <1>5, <2>1, EventStep
<1>7. ReactionsTypeOK' BY <1>1, <1>6 DEF ReactionsTypeOK, RepeatEvent
<1> QED BY <1>3, <1>6, <1>7 DEF ReactionsInv

LEMMA NextDue == ASSUME ReactionsTypeOK PROVE now + ReminderInterval \in Nat
  BY ReactionsAssumption DEF ReactionsTypeOK

LEMMA HandleUpdateStep ==
    ASSUME ReactionsInv, NEW k \in DOMAIN events, HandleUpdate(k)
    PROVE  ReactionsInv' /\ UpdatesOnly
<1> DEFINE e == events[k]
           r == [e EXCEPT !.pc = "replying"]
           d == [e EXCEPT !.pc = "done", !.acked = TRUE]
           Kept == KeptIdsExist' /\ events' \in Seq(EventRecord) /\ incidents' \in Seq(Row)
<1>1. ReactionsTypeOK /\ incidents \in Seq(Row) /\ DOMAIN incidents = 1..Len(incidents)
  BY LenProperties DEF ReactionsInv, ReactionsTypeOK
<1>2. e \in EventRecord BY <1>1, EventType
<1>3. e.id \in 1..Len(incidents) /\ incidents[e.id].ts = e.ts /\ UNCHANGED reminder
  BY <1>1 DEF HandleUpdate, ReactionsInv, KeptIdsExist
<1>4. CASE incidents' = UpdateFor(e) /\ events' = [events EXCEPT ![k] = r]
  <2>1. e.kind \in {"check", "pause", "unpause"} BY <1>2 DEF EventRecord
  <2>2. RowsUpdated(incidents, incidents')
    BY <1>1, <1>3, <1>4, <2>1, NextDue, MarkResolvedKeys, SnoozeKeys, UnsnoozeKeys
       DEF UpdateFor
  <2>3. r \in EventRecord /\ r.id = e.id /\ r.ts = e.ts /\ r.kind = e.kind
    BY <1>2 DEF EventRecord
  <2>4. e.kind = "check" => incidents'[e.id].resolved
    BY <1>1, <1>3, <1>4, MarkResolvedKeys DEF UpdateFor
  <2> HIDE DEF r, e
  <2>5. Kept BY <1>1, <1>3, <1>4, <2>2, <2>3, <2>4, EventStep
  <2>6. ReactionsTypeOK'
    BY <1>1, <2>5, FaultsType DEF ReactionsTypeOK, HandleUpdate
  <2> QED BY <2>2, <2>5, <2>6 DEF ReactionsInv, UpdatesOnly, HandleUpdate
<1>5. CASE UNCHANGED incidents /\ events' = [events EXCEPT ![k] = d]
  <2>1. RowsUpdated(incidents, incidents') BY <1>1, <1>5, SameTable
  <2>2. d \in EventRecord /\ d.pc = "done" BY <1>2 DEF EventRecord
  <2> HIDE DEF d, e
  <2>3. Kept BY <1>3, <1>5, <2>1, <2>2, EventStep
  <2>4. ReactionsTypeOK'
    BY <1>1, <2>3, FaultsType DEF ReactionsTypeOK, HandleUpdate
  <2> QED BY <2>1, <2>3, <2>4 DEF ReactionsInv, UpdatesOnly, HandleUpdate
<1> QED BY <1>4, <1>5 DEF HandleUpdate

LEMMA HandleReplyStep ==
    ASSUME ReactionsInv, NEW k \in DOMAIN events, HandleReply(k)
    PROVE  ReactionsInv' /\ UpdatesOnly
<1> DEFINE e == events[k]
           d == [e EXCEPT !.pc = "done", !.acked = TRUE]
<1>1. ReactionsTypeOK /\ incidents \in Seq(Row) BY DEF ReactionsInv, ReactionsTypeOK
<1>2. e \in EventRecord BY <1>1, EventType
<1>3. RowsUpdated(incidents, incidents') /\ UpdatesOnly
  BY <1>1, NoUpdate, SameTable DEF HandleReply
<1>4. d \in EventRecord /\ d.pc = "done" BY <1>2 DEF EventRecord
<1>5. events' = [events EXCEPT ![k] = d] /\ UNCHANGED reminder BY DEF HandleReply
<1>6. KeptIdsExist' /\ events' \in Seq(EventRecord) /\ incidents' \in Seq(Row)
  <2> HIDE DEF d
  <2> QED BY <1>3, <1>4, <1>5, EventStep
<1>7. closed' \in SUBSET Message /\ thread' \in [Message -> Seq([post : ThreadPost, at : Nat])]
  <2>1. e.ts \in Message /\ ReplyTo(e.kind) \in ThreadPost /\ now \in Nat
    BY <1>1, <1>2, ReactionsAssumption
       DEF EventRecord, ReplyTo, ThreadPost, ReactionsTypeOK
  <2>2. closed' = closed \/ closed' = closed \cup {e.ts}
    BY DEF HandleReply
  <2>3. UNCHANGED thread \/ Say(e.ts, ReplyTo(e.kind), now) BY DEF HandleReply
  <2>4. closed \in SUBSET Message /\ thread \in [Message -> Seq([post : ThreadPost, at : Nat])]
    BY <1>1 DEF ReactionsTypeOK
  <2> HIDE DEF e
  <2>5. closed' \in SUBSET Message BY <2>1, <2>2, <2>4
  <2>6. thread' \in [Message -> Seq([post : ThreadPost, at : Nat])]
    BY <1>1, <2>1, <2>3, <2>4, SayType
  <2> QED BY <2>5, <2>6
<1>8. faults' \in 0..MaxFaults BY <1>1, FaultsType DEF HandleReply
<1>9. ReactionsTypeOK'
  BY <1>1, <1>6, <1>7, <1>8 DEF ReactionsTypeOK, HandleReply
<1> QED BY <1>3, <1>6, <1>9 DEF ReactionsInv

(* A step of the reminder worker.                                           *)
LEMMA ReminderStep ==
    ASSUME ReactionsInv, NEW r \in ReminderRecord, reminder' = r, UNCHANGED events,
           RowsUpdated(incidents, incidents'), r.todo \subseteq DOMAIN incidents,
           r.pc = "bump" => r.cur \in DOMAIN incidents
    PROVE  KeptIdsExist' /\ incidents' \in Seq(Row)
<1>1. incidents \in Seq(Row) BY DEF ReactionsInv, ReactionsTypeOK
<1>2. /\ incidents' \in Seq(Row) /\ DOMAIN incidents' = DOMAIN incidents
      /\ \A i \in DOMAIN incidents : /\ incidents'[i].ts = incidents[i].ts
                                     /\ incidents[i].resolved => incidents'[i].resolved
  BY <1>1, LenProperties DEF RowsUpdated
<1> QED BY <1>2 DEF ReactionsInv, KeptIdsExist

LEMMA RemindListStep == ASSUME ReactionsInv, RemindList PROVE ReactionsInv' /\ UpdatesOnly
<1>1. /\ ReactionsTypeOK /\ incidents \in Seq(Row)
      /\ DOMAIN incidents = 1..Len(incidents) /\ now \in Nat
  <2>1. ReactionsTypeOK /\ incidents \in Seq(Row) /\ now \in 0..MaxTime
    BY DEF ReactionsInv, ReactionsTypeOK
  <2> QED BY <2>1, LenProperties, ReactionsAssumption
<1>2. PICK S \in DueBatches :
        reminder' = [pc |-> "list", at |-> now, todo |-> S, cur |-> NotFound]
  BY DEF RemindList
<1>3. S \subseteq DOMAIN incidents BY DEF DueBatches, DueRows
<1>4. RowsUpdated(incidents, incidents') /\ UpdatesOnly
  BY <1>1, NoUpdate, SameTable DEF RemindList
<1>5. reminder' \in ReminderRecord /\ reminder'.todo = S /\ reminder'.pc # "bump"
  <2>1. S \subseteq Nat BY <1>1, <1>3
  <2> QED BY <1>1, <1>2, <2>1 DEF ReminderRecord, NotFound
<1>6. KeptIdsExist' /\ incidents' \in Seq(Row)
  BY <1>3, <1>4, <1>5, ReminderStep DEF RemindList
<1>7. ReactionsTypeOK' BY <1>1, <1>5, <1>6 DEF ReactionsTypeOK, RemindList
<1> QED BY <1>4, <1>6, <1>7 DEF ReactionsInv

LEMMA RemindPostStep ==
    ASSUME ReactionsInv, NEW i \in DOMAIN incidents, RemindPost(i)
    PROVE  ReactionsInv' /\ UpdatesOnly
<1>1. ReactionsTypeOK /\ incidents \in Seq(Row) /\ DOMAIN incidents = 1..Len(incidents)
  BY LenProperties DEF ReactionsInv, ReactionsTypeOK
<1>2. RowsUpdated(incidents, incidents') /\ UpdatesOnly
  BY <1>1, NoUpdate, SameTable DEF RemindPost
<1>3. reminder \in ReminderRecord /\ reminder.todo \subseteq DOMAIN incidents
  BY DEF ReactionsInv, KeptIdsExist, ReactionsTypeOK
<1>4. /\ reminder' \in ReminderRecord
      /\ reminder'.todo \subseteq DOMAIN incidents
      /\ reminder'.pc = "bump" => reminder'.cur \in DOMAIN incidents
  <2> DEFINE rest == reminder.todo \ {i}
  <2>1. rest \in SUBSET Nat /\ rest \subseteq DOMAIN incidents /\ i \in Nat
    BY <1>1, <1>3 DEF ReminderRecord
  <2>2. \/ reminder' = [reminder EXCEPT !.pc = "bump", !.todo = rest, !.cur = i]
        \/ reminder' = [reminder EXCEPT !.todo = rest]
    BY DEF RemindPost
  <2>3. reminder.pc = "list" BY DEF RemindPost
  <2> HIDE DEF rest
  <2> QED BY <1>3, <2>1, <2>2, <2>3, ZenonT(60) DEF ReminderRecord
<1>5. KeptIdsExist' /\ incidents' \in Seq(Row)
  BY <1>2, <1>4, ReminderStep DEF RemindPost
<1>6. thread' \in [Message -> Seq([post : ThreadPost, at : Nat])]
  <2>1. "reminder" \in ThreadPost /\ reminder.at \in Nat
    BY <1>3 DEF ThreadPost, ReminderRecord
  <2>2. UNCHANGED thread \/ Say(incidents[i].ts, "reminder", reminder.at) BY DEF RemindPost
  <2> QED BY <1>1, <2>1, <2>2, SayType DEF ReactionsTypeOK
<1>7. faults' \in 0..MaxFaults BY <1>1, FaultsType DEF RemindPost
<1>8. ReactionsTypeOK'
  BY <1>1, <1>4, <1>5, <1>6, <1>7 DEF ReactionsTypeOK, RemindPost
<1> QED BY <1>2, <1>5, <1>8 DEF ReactionsInv

LEMMA RemindBumpStep == ASSUME ReactionsInv, RemindBump PROVE ReactionsInv' /\ UpdatesOnly
<1>1. ReactionsTypeOK /\ incidents \in Seq(Row) /\ DOMAIN incidents = 1..Len(incidents)
  BY LenProperties DEF ReactionsInv, ReactionsTypeOK
<1>2. reminder \in ReminderRecord /\ reminder.todo \subseteq DOMAIN incidents
  BY DEF ReactionsInv, KeptIdsExist, ReactionsTypeOK
<1>3. RowsUpdated(incidents, incidents')
  <2>1. reminder.cur \in 1..Len(incidents) BY <1>1 DEF ReactionsInv, KeptIdsExist, RemindBump
  <2>2. reminder.at + ReminderInterval \in Nat
    BY <1>2, ReactionsAssumption DEF ReminderRecord
  <2>3. CASE incidents' = BumpReminder(incidents, reminder.cur, reminder.at + ReminderInterval)
    BY <1>1, <2>1, <2>2, <2>3, BumpReminderKeys
  <2>4. CASE UNCHANGED incidents BY <1>1, <2>4, SameTable
  <2> QED BY <2>3, <2>4 DEF RemindBump
<1>4. /\ reminder' \in ReminderRecord
      /\ reminder'.todo \subseteq DOMAIN incidents
      /\ reminder'.pc # "bump"
  BY <1>2 DEF ReminderRecord, RemindBump, NotFound
<1>5. KeptIdsExist' /\ incidents' \in Seq(Row)
  BY <1>3, <1>4, ReminderStep DEF RemindBump
<1>6. faults' \in 0..MaxFaults BY <1>1, FaultsType DEF RemindBump
<1>7. ReactionsTypeOK'
  BY <1>1, <1>4, <1>5, <1>6 DEF ReactionsTypeOK, RemindBump
<1> QED BY <1>3, <1>5, <1>7 DEF ReactionsInv, UpdatesOnly, RemindBump

LEMMA RemindDoneStep == ASSUME ReactionsInv, RemindDone PROVE ReactionsInv' /\ UpdatesOnly
<1>1. ReactionsTypeOK /\ incidents \in Seq(Row) BY DEF ReactionsInv, ReactionsTypeOK
<1>2. RowsUpdated(incidents, incidents') /\ UpdatesOnly
  BY <1>1, NoUpdate, SameTable DEF RemindDone
<1>3. Idle \in ReminderRecord /\ Idle.todo = {} /\ Idle.pc # "bump"
  BY DEF Idle, ReminderRecord, NotFound
<1>4. KeptIdsExist' /\ incidents' \in Seq(Row)
  BY <1>2, <1>3, ReminderStep DEF RemindDone
<1>5. ReactionsTypeOK' BY <1>1, <1>3, <1>4 DEF ReactionsTypeOK, RemindDone
<1> QED BY <1>2, <1>4, <1>5 DEF ReactionsInv

LEMMA ReactionsStep ==
    ASSUME ReactionsInv, ReactionsNext PROVE ReactionsInv' /\ UpdatesOnly
  BY TickStep, AddCheckMarkStep, AddHourglassStep, RemoveHourglassStep, ReceiveEventStep,
     RepeatEventStep, HandleUpdateStep, HandleReplyStep, RemindListStep, RemindPostStep,
     RemindBumpStep, RemindDoneStep
     DEF ReactionsNext

(* A crash forgets the ids that were kept.                                  *)
LEMMA ReactionsCrashStep == ASSUME ReactionsInv, ReactionsCrash PROVE ReactionsInv' /\ UpdatesOnly
<1>1. events \in Seq(EventRecord) /\ ReactionsTypeOK BY DEF ReactionsInv, ReactionsTypeOK
<1>2. /\ UNCHANGED <<incidents, now, parents, thread, closed, hourglass, faults>>
      /\ seen' = {} /\ reminder' = Idle
  BY DEF ReactionsCrash
<1>3. events' \in Seq(EventRecord) /\ \A k \in DOMAIN events' : events'[k].pc \in {"sent", "done"}
  <2> DEFINE d(e) == [e EXCEPT !.pc = "done"]
             s(e) == [e EXCEPT !.pc = "sent", !.id = NotFound]
             g(e) == IF e.acked THEN d(e) ELSE s(e)
  <2>1. ASSUME NEW e \in EventRecord PROVE g(e) \in EventRecord /\ g(e).pc \in {"sent", "done"}
    <3>1. d(e) \in EventRecord /\ d(e).pc = "done" BY DEF EventRecord
    <3>2. NotFound \in Nat BY DEF NotFound
    <3>3. s(e) \in EventRecord /\ s(e).pc = "sent" BY <3>2 DEF EventRecord
    <3> HIDE DEF d, s
    <3> QED BY <3>1, <3>3
  <2>2. events' = [k \in DOMAIN events |-> g(events[k])] BY DEF ReactionsCrash
  <2> HIDE DEF g
  <2>3. Len(events) \in Nat /\ DOMAIN events = 1..Len(events)
        /\ \A k \in 1..Len(events) : events[k] \in EventRecord
    BY <1>1, LenProperties, ElementOfSeq
  <2>4. events' \in [1..Len(events) -> EventRecord] BY <2>1, <2>2, <2>3
  <2>5. events' \in Seq(EventRecord) BY <2>3, <2>4, SeqDef
  <2> QED BY <2>1, <2>2, <2>3, <2>5
<1>4. Idle \in ReminderRecord /\ Idle.todo = {} /\ Idle.pc = "idle"
  BY DEF Idle, ReminderRecord, NotFound
<1>5. ReactionsTypeOK' BY <1>1, <1>2, <1>3, <1>4 DEF ReactionsTypeOK
<1>6. KeptIdsExist' BY <1>2, <1>3, <1>4 DEF KeptIdsExist
<1>7. UpdatesOnly BY <1>2, NoUpdate
<1> QED BY <1>5, <1>6, <1>7 DEF ReactionsInv

-----------------------------------------------------------------------------
(* For whoever posts messages and creates incidents beside them             *)

(* A call to Slack: the incidents stay as they are.                         *)
LEMMA PostsKeep ==
    ASSUME ReactionsInv, UNCHANGED <<incidents, now, closed, hourglass, events, seen, reminder>>,
           parents' \in 0..MaxMessages, faults' \in 0..MaxFaults,
           thread' \in [Message -> Seq([post : ThreadPost, at : Nat])]
    PROVE  ReactionsInv'
  BY DEF ReactionsInv, ReactionsTypeOK, KeptIdsExist

(* A new row: the ids of the others stay theirs.                            *)
LEMMA RowAdded ==
    ASSUME ReactionsInv, NEW row \in Row, incidents' = Append(incidents, row),
           UNCHANGED <<now, parents, thread, closed, hourglass, events, seen, reminder, faults>>
    PROVE  /\ ReactionsInv'
           /\ Len(incidents) + 1 \in Nat
           /\ DOMAIN incidents = 1..Len(incidents)
           /\ DOMAIN incidents' = 1..(Len(incidents) + 1)
           /\ \A i \in DOMAIN incidents : incidents'[i] = incidents[i]
           /\ incidents'[Len(incidents) + 1] = row
<1>1. incidents \in Seq(Row) BY DEF ReactionsInv, ReactionsTypeOK
<1>2. /\ incidents' \in Seq(Row) /\ Len(incidents) \in Nat
      /\ DOMAIN incidents = 1..Len(incidents) /\ DOMAIN incidents' = 1..(Len(incidents) + 1)
      /\ \A i \in DOMAIN incidents : incidents'[i] = incidents[i]
      /\ incidents'[Len(incidents) + 1] = row
  BY <1>1
<1>3. DOMAIN incidents \subseteq DOMAIN incidents' BY <1>2
<1>4. KeptIdsExist' BY <1>2, <1>3 DEF ReactionsInv, KeptIdsExist
<1>5. ReactionsTypeOK' BY <1>2 DEF ReactionsInv, ReactionsTypeOK
<1> QED BY <1>2, <1>4, <1>5 DEF ReactionsInv

(* Updates open no row, and FindOpen misses none.                           *)
LEMMA UpdatesOpenNone ==
    ASSUME NEW t \in Seq(Row), NEW u, RowsUpdated(t, u), NEW fp
    PROVE  OpenRows(u, fp) \subseteq OpenRows(t, fp)
<1>1. DOMAIN t = 1..Len(t) /\ DOMAIN u = DOMAIN t BY LenProperties DEF RowsUpdated
<1> QED BY <1>1 DEF RowsUpdated, OpenRows

LEMMA NotFoundNoneOpen ==
    ASSUME NEW t \in Seq(Row), NEW fp, FindOpen(t, fp) = NotFound PROVE OpenRows(t, fp) = {}
<1> SUFFICES ASSUME OpenRows(t, fp) # {} PROVE FALSE OBVIOUS
<1> DEFINE S == OpenRows(t, fp)
<1>1. Len(t) \in Nat /\ S \in SUBSET (1..Len(t)) /\ S # {} BY LenProperties DEF OpenRows
<1>2. \E i \in S : \A j \in S : j <= i
  <2> HIDE DEF S
  <2> QED BY <1>1, HasLargest
<1>3. FindOpen(t, fp) \in S BY <1>2 DEF FindOpen
<1> QED BY <1>1, <1>3 DEF NotFound

-----------------------------------------------------------------------------
(* SyslogSlack and SyslogPipeline                                           *)

(* An alert is in one place: one pending batch, its own alarm's, or one     *)
(* flush; until the flush has posted, Slack does not show it.               *)
OnePlace(S) ==
    /\ \A k \in Fingerprint : \A a \in pending[k] :
         a \in S /\ Fp[a] = k /\ posts[a] = 0
    /\ \A f \in Flusher : \A a \in flush[f].batch :
         /\ a \in S
         /\ a \notin pending[Fp[a]]
         /\ flush[f].pc \in {"find", "append", "post"} => posts[a] = 0
    /\ \A f, g \in Flusher : \A a \in Alert :
         a \in flush[f].batch /\ a \in flush[g].batch => f = g
    /\ \A a \in Alert : a \notin S => posts[a] = 0

(* A flush works on a non-empty batch of one alarm, until it is over.       *)
OneAlarmPerBatch ==
    \A f \in Flusher : /\ flush[f].pc = "idle" <=> flush[f].batch = {}
                       /\ \A a, b \in flush[f].batch : Fp[a] = Fp[b]

(* What a flush knows about the message it posted and the incident it found *)
(* or created.                                                              *)
FlushKnows ==
    \A f \in Flusher :
        /\ flush[f].pc = "append" =>
             /\ flush[f].id \in DOMAIN incidents
             /\ \A a \in flush[f].batch : incidents[flush[f].id].fp = Fp[a]
        /\ flush[f].pc \in {"instruct", "create"} =>
             /\ flush[f].ts \in 1..parents
             /\ \A a \in flush[f].batch : flush[f].ts \in shown[a]
             /\ \A i \in DOMAIN incidents : incidents[i].ts # flush[f].ts
             /\ \A g \in Flusher :
                  flush[g].pc \in {"instruct", "create"} /\ flush[g].ts = flush[f].ts => f = g
        /\ flush[f].pc = "link" =>
             /\ flush[f].id \in DOMAIN incidents
             /\ \A a \in flush[f].batch :
                  /\ incidents[flush[f].id].fp = Fp[a]
                  /\ incidents[flush[f].id].ts \in shown[a]

(* The batcher works on alerts of S, those that were ever stored.           *)
InvOf(S) ==
    /\ TypeOK
    /\ KeptIdsExist
    /\ OnePlace(S)
    /\ OneAlarmPerBatch
    /\ FlushKnows
    /\ ShownAtMostOnce
    /\ LinkedWhereShown
    /\ OneIncidentPerMessage

(* In SyslogSlack nothing deletes an alert.                                 *)
IInv == InvOf(stored)

-----------------------------------------------------------------------------
(* Reactions and reminders                                                  *)

LEMMA InvReactions == ASSUME NEW S, InvOf(S) PROVE ReactionsInv
  BY DEF InvOf, TypeOK, ReactionsInv

(* The part of InvOf(S) the batcher maintains.                              *)
BatcherInv(S) ==
    /\ OnePlace(S)
    /\ OneAlarmPerBatch
    /\ FlushKnows
    /\ ShownAtMostOnce
    /\ LinkedWhereShown
    /\ OneIncidentPerMessage

(* A step that leaves the batcher alone and only updates rows preserves it. *)
LEMMA UpdatesKeepBatcherInv ==
    ASSUME NEW S, InvOf(S), UNCHANGED batcherVars, parents' = parents,
           RowsUpdated(incidents, incidents')
    PROVE  BatcherInv(S)'
<1>1. incidents \in Seq(Row) BY DEF InvOf, TypeOK, ReactionsTypeOK
<1>2. /\ DOMAIN incidents = 1..Len(incidents)
      /\ DOMAIN incidents' = DOMAIN incidents
      /\ \A i \in DOMAIN incidents : /\ incidents'[i].fp = incidents[i].fp
                                     /\ incidents'[i].ts = incidents[i].ts
  BY <1>1, LenProperties DEF RowsUpdated
<1>3. OnePlace(S)' BY DEF InvOf, OnePlace, batcherVars
<1>4. OneAlarmPerBatch' BY DEF InvOf, OneAlarmPerBatch, batcherVars
<1>5. FlushKnows' BY <1>2 DEF InvOf, FlushKnows, batcherVars
<1>6. ShownAtMostOnce' BY DEF InvOf, ShownAtMostOnce, batcherVars
<1>7. LinkedWhereShown' BY <1>2 DEF InvOf, LinkedWhereShown, batcherVars
<1>8. OneIncidentPerMessage' BY <1>2 DEF InvOf, OneIncidentPerMessage
<1> QED BY <1>3, <1>4, <1>5, <1>6, <1>7, <1>8 DEF BatcherInv

LEMMA BatcherTypeKept ==
    ASSUME TypeOK, UNCHANGED batcherVars PROVE BatcherTypeOK'
  BY DEF TypeOK, BatcherTypeOK, batcherVars

(* The reminder worker, the event handlers, the clock and the people in the *)
(* channel preserve InvOf(S).                                               *)
LEMMA ReactionsKeepInv ==
    ASSUME NEW S, InvOf(S), ReactionsNext, UNCHANGED batcherVars PROVE InvOf(S)'
<1>1. ReactionsInv' /\ UpdatesOnly BY InvReactions, ReactionsStep
<1>2. BatcherInv(S)' BY <1>1, UpdatesKeepBatcherInv DEF UpdatesOnly
<1>3. TypeOK' BY <1>1, BatcherTypeKept DEF ReactionsInv, TypeOK, InvOf
<1> QED BY <1>1, <1>2, <1>3 DEF InvOf, ReactionsInv, BatcherInv
-----------------------------------------------------------------------------
(* The batcher                                                              *)

LEMMA NoFlushType == NoFlush \in FlushRecord /\ NoFlush.pc = "idle" /\ NoFlush.batch = {}
  BY ReactionsAssumption DEF NoFlush, FlushRecord, NotFound

(* Starting or stopping anything: no alert moves between batches.           *)
LEMMA MainStep ==
    ASSUME NEW S, InvOf(S),
           UNCHANGED <<reactionVars, stored, link, pending, flush, shown, posts, crashes>>,
           main' \in {"run", "stopping", "flushing", "stopped"}, stopKeys' \in SUBSET Fingerprint
    PROVE  InvOf(S)'
<1>1. TypeOK' BY DEF InvOf, TypeOK, ReactionsTypeOK, BatcherTypeOK, reactionVars
<1>2. KeptIdsExist' BY DEF InvOf, KeptIdsExist, reactionVars
<1>3. OnePlace(S)' /\ OneAlarmPerBatch' /\ FlushKnows'
  BY DEF InvOf, OnePlace, OneAlarmPerBatch, FlushKnows, reactionVars
<1>4. ShownAtMostOnce' /\ LinkedWhereShown' /\ OneIncidentPerMessage'
  BY DEF InvOf, ShownAtMostOnce, LinkedWhereShown, OneIncidentPerMessage, reactionVars
<1> QED BY <1>1, <1>2, <1>3, <1>4 DEF InvOf

LEMMA MainSteps ==
    ASSUME NEW S, InvOf(S),
           \/ \E k \in Fingerprint : FlushNothing(k)
           \/ CloseStopCh \/ ReadStopKeys \/ StopReturns
    PROVE  InvOf(S)'
<1>1. stopKeys \in SUBSET Fingerprint /\ main \in {"run", "stopping", "flushing", "stopped"}
  BY DEF InvOf, TypeOK, BatcherTypeOK
<1>2. CASE \E k \in Fingerprint : FlushNothing(k) BY <1>1, <1>2, MainStep DEF FlushNothing
<1>3. CASE CloseStopCh BY <1>1, <1>3, MainStep DEF CloseStopCh
<1>4. CASE ReadStopKeys BY <1>1, <1>4, MainStep DEF ReadStopKeys
<1>5. CASE StopReturns BY <1>1, <1>5, MainStep DEF StopReturns
<1> QED BY <1>2, <1>3, <1>4, <1>5

LEMMA MoreStored == ASSUME NEW S, NEW T, S \subseteq T, InvOf(S) PROVE InvOf(T)
<1>1. OnePlace(T) BY DEF InvOf, OnePlace
<1> QED BY <1>1 DEF InvOf

(* Enqueue of an alert that has not been anywhere.                          *)
LEMMA EnqueueStep ==
    ASSUME NEW S, InvOf(S), NEW a \in Alert, a \in S, posts[a] = 0,
           \A f \in Flusher : a \notin flush[f].batch,
           pending' = [pending EXCEPT ![Fp[a]] = pending[Fp[a]] \cup {a}],
           stored' \in SUBSET Alert, faults' \in 0..MaxFaults,
           UNCHANGED <<incidents, now, parents, thread, closed, hourglass, events, seen,
                       reminder, link, flush, main, stopKeys, shown, posts, crashes>>
    PROVE  InvOf(S)'
<1>1. Fp[a] \in Fingerprint BY BatcherAssumption
<1>2. pending \in [Fingerprint -> SUBSET Alert] BY DEF InvOf, TypeOK, BatcherTypeOK
<1>3. /\ pending' \in [Fingerprint -> SUBSET Alert]
      /\ \A k \in Fingerprint : pending'[k] = IF k = Fp[a] THEN pending[k] \cup {a} ELSE pending[k]
  BY <1>1, <1>2
<1>4. TypeOK' BY <1>3 DEF InvOf, TypeOK, ReactionsTypeOK, BatcherTypeOK
<1>5. KeptIdsExist' BY DEF InvOf, KeptIdsExist
<1>6. OnePlace(S)'
  <2>1. \A f \in Flusher : flush[f].batch \subseteq Alert
    BY DEF InvOf, TypeOK, BatcherTypeOK, FlushRecord
  <2> QED BY <1>3, <2>1, BatcherAssumption DEF InvOf, OnePlace
<1>7. OneAlarmPerBatch' /\ FlushKnows' BY DEF InvOf, OneAlarmPerBatch, FlushKnows
<1>8. ShownAtMostOnce' /\ LinkedWhereShown' /\ OneIncidentPerMessage'
  BY DEF InvOf, ShownAtMostOnce, LinkedWhereShown, OneIncidentPerMessage
<1> QED BY <1>4, <1>5, <1>6, <1>7, <1>8 DEF InvOf

LEMMA StoreStep == ASSUME IInv, NEW a \in Alert, StoreAndEnqueue(a) PROVE IInv'
<1>1. PICK S : S = stored \cup {a} OBVIOUS
<1>2. InvOf(S) BY <1>1, MoreStored DEF IInv
<1>3. a \notin stored /\ posts[a] = 0 /\ \A f \in Flusher : a \notin flush[f].batch
  BY DEF IInv, InvOf, OnePlace, StoreAndEnqueue
<1>4. stored' = S /\ S \in SUBSET Alert
  BY <1>1 DEF IInv, InvOf, TypeOK, BatcherTypeOK, StoreAndEnqueue
<1>5. faults \in 0..MaxFaults BY DEF IInv, InvOf, TypeOK, ReactionsTypeOK
<1>6. InvOf(S)'
  BY <1>1, <1>2, <1>3, <1>4, <1>5, EnqueueStep DEF StoreAndEnqueue, Enqueued, reactionVars
<1> QED BY <1>4, <1>6 DEF IInv

(* Flusher f goes on with record r; no alert enters or leaves pending.      *)
LEMMA FlushUpdate ==
    ASSUME TypeOK, NEW f \in Flusher, NEW r \in FlushRecord, flush' = [flush EXCEPT ![f] = r]
    PROVE  /\ flush' \in [Flusher -> FlushRecord]
           /\ \A g \in Flusher : flush'[g] = IF g = f THEN r ELSE flush[g]
  BY DEF TypeOK, BatcherTypeOK

LEMMA FlushTakeStep ==
    ASSUME NEW S, InvOf(S), NEW f \in Flusher, NEW k \in Fingerprint, FlushTake(f, k)
    PROVE  InvOf(S)'
<1> DEFINE r == [NoFlush EXCEPT !.pc = "find", !.batch = pending[k]]
<1>1. TypeOK /\ pending \in [Fingerprint -> SUBSET Alert] /\ pending[k] \in SUBSET Alert
  BY DEF InvOf, TypeOK, BatcherTypeOK
<1>2. r \in FlushRecord /\ r.pc = "find" /\ r.batch = pending[k]
  <2> DEFINE b == pending[k]
           n == [NoFlush EXCEPT !.pc = "find", !.batch = b]
  <2>1. b \in SUBSET Alert BY <1>1
  <2>2. r = n OBVIOUS
  <2> HIDE DEF b, r
  <2>3. n \in FlushRecord /\ n.pc = "find" /\ n.batch = b
    BY <2>1, NoFlushType DEF FlushRecord
  <2> QED BY <2>2, <2>3 DEF b
<1>3. flush' = [flush EXCEPT ![f] = r] BY DEF FlushTake
<1> HIDE DEF r
<1>4. /\ flush' \in [Flusher -> FlushRecord]
      /\ \A g \in Flusher : flush'[g] = IF g = f THEN r ELSE flush[g]
  BY <1>1, <1>2, <1>3, FlushUpdate
<1>5. /\ pending' \in [Fingerprint -> SUBSET Alert]
      /\ \A j \in Fingerprint : pending'[j] = IF j = k THEN {} ELSE pending[j]
  BY <1>1 DEF FlushTake
<1>6. UNCHANGED <<reactionVars, stored, link, main, shown, posts, crashes>> /\ flush[f].pc = "idle"
      /\ pending[k] # {}
  BY DEF FlushTake
<1>7. TypeOK'
  <2>1. stopKeys' \in SUBSET Fingerprint BY DEF InvOf, TypeOK, BatcherTypeOK, FlushTake
  <2> QED BY <2>1, <1>1, <1>4, <1>5, <1>6
          DEF TypeOK, ReactionsTypeOK, BatcherTypeOK, reactionVars
<1>8. KeptIdsExist' BY <1>6 DEF InvOf, KeptIdsExist, reactionVars
<1>9. \A a \in pending[k] : a \in Alert /\ a \in S /\ Fp[a] = k /\ posts[a] = 0
  BY <1>1 DEF InvOf, OnePlace
<1>10. \A a \in Alert : Fp[a] \in Fingerprint BY BatcherAssumption
<1>11. OnePlace(S)'
  <2>1. \A j \in Fingerprint : \A a \in pending'[j] :
          a \in S /\ Fp[a] = j /\ posts'[a] = 0
    BY <1>5, <1>6 DEF InvOf, OnePlace
  <2>2. ASSUME NEW g \in Flusher, NEW a \in flush'[g].batch
        PROVE  /\ a \in S
               /\ a \notin pending'[Fp[a]]
               /\ flush'[g].pc \in {"find", "append", "post"} => posts'[a] = 0
    <3>1. CASE g = f BY <3>1, <2>2, <1>2, <1>4, <1>5, <1>6, <1>9
    <3>2. CASE g # f
      <4>1. a \in flush[g].batch /\ a \in Alert
        BY <3>2, <2>2, <1>1, <1>4 DEF TypeOK, BatcherTypeOK, FlushRecord
      <4> QED BY <3>2, <4>1, <1>4, <1>5, <1>6, <1>10 DEF InvOf, OnePlace
    <3> QED BY <3>1, <3>2
  <2>3. ASSUME NEW g \in Flusher, NEW h \in Flusher, NEW a \in Alert,
               a \in flush'[g].batch, a \in flush'[h].batch, g # h
        PROVE  FALSE
    <3>1. CASE g # f /\ h # f BY <3>1, <2>3, <1>4 DEF InvOf, OnePlace
    <3>2. CASE g = f \/ h = f
      <4>1. a \in pending[k] /\ \E e \in Flusher : a \in flush[e].batch
        BY <3>2, <2>3, <1>2, <1>4
      <4> QED BY <4>1, <1>9 DEF InvOf, OnePlace
    <3> QED BY <3>1, <3>2
  <2>4. \A a \in Alert : a \notin S => posts'[a] = 0 BY <1>6 DEF InvOf, OnePlace
  <2> QED BY <2>1, <2>2, <2>3, <2>4 DEF OnePlace
<1>12. OneAlarmPerBatch'
  BY <1>2, <1>4, <1>6, <1>9 DEF InvOf, OneAlarmPerBatch
<1>13. FlushKnows'
  BY <1>2, <1>4, <1>6 DEF InvOf, FlushKnows, reactionVars
<1>14. ShownAtMostOnce' /\ LinkedWhereShown' /\ OneIncidentPerMessage'
  BY <1>6 DEF InvOf, ShownAtMostOnce, LinkedWhereShown, OneIncidentPerMessage, reactionVars
<1> QED BY <1>7, <1>8, <1>11, <1>12, <1>13, <1>14 DEF InvOf

(* A step of flush that keeps its batch or ends: no alert changes its       *)
(* place, and only alerts of the batch may be posted.                       *)
LEMMA FlushKeepsPlace ==
    ASSUME NEW S, InvOf(S),
           NEW f \in Flusher, NEW r \in FlushRecord, flush' = [flush EXCEPT ![f] = r],
           UNCHANGED <<stored, pending>>,
           r.batch = flush[f].batch \/ r.batch = {},
           IF r.pc = "idle" THEN r.batch = {} ELSE r.batch = flush[f].batch, flush[f].pc # "idle",
           \A a \in Alert : posts'[a] = posts[a] \/ a \in flush[f].batch,
           r.pc \in {"find", "append", "post"} =>
               posts' = posts /\ flush[f].pc \in {"find", "append", "post"}
    PROVE  OnePlace(S)' /\ OneAlarmPerBatch'
<1>1. \A g \in Flusher : flush'[g] = IF g = f THEN r ELSE flush[g]
  BY FlushUpdate DEF InvOf
<1>2. \A g \in Flusher : flush[g].batch \subseteq Alert
  BY DEF InvOf, TypeOK, BatcherTypeOK, FlushRecord
<1>3. \A k \in Fingerprint : pending[k] \subseteq Alert
  BY DEF InvOf, TypeOK, BatcherTypeOK
<1>4. \A g \in Flusher : flush'[g].batch \subseteq flush[g].batch
  BY <1>1
<1>5. \A k \in Fingerprint : \A a \in pending'[k] : a \in S /\ Fp[a] = k /\ posts'[a] = 0
  BY <1>3 DEF InvOf, OnePlace
<1>6. ASSUME NEW g \in Flusher, NEW a \in flush'[g].batch
      PROVE  /\ a \in S
             /\ a \notin pending'[Fp[a]]
             /\ flush'[g].pc \in {"find", "append", "post"} => posts'[a] = 0
  <2>1. a \in flush[g].batch /\ a \in Alert BY <1>2, <1>4, <1>6
  <2>2. a \in S /\ a \notin pending'[Fp[a]] BY <2>1 DEF InvOf, OnePlace
  <2>3. CASE g = f BY <1>1, <2>1, <2>2, <2>3 DEF InvOf, OnePlace
  <2>4. CASE g # f
    <3>1. a \notin flush[f].batch BY <2>1, <2>4 DEF InvOf, OnePlace
    <3> QED BY <1>1, <2>1, <2>2, <2>4, <3>1 DEF InvOf, OnePlace
  <2> QED BY <2>3, <2>4
<1>7. \A g, h \in Flusher : \A a \in Alert :
        a \in flush'[g].batch /\ a \in flush'[h].batch => g = h
  BY <1>4 DEF InvOf, OnePlace
<1>8. \A a \in Alert : a \notin S => posts'[a] = 0 BY DEF InvOf, OnePlace
<1>9. OnePlace(S)' BY <1>5, <1>6, <1>7, <1>8 DEF OnePlace
<1>10. OneAlarmPerBatch' BY <1>1 DEF InvOf, OneAlarmPerBatch
<1> QED BY <1>9, <1>10

LEMMA BatchOfOneAlarm ==
    ASSUME NEW S, InvOf(S), NEW f \in Flusher, flush[f].pc # "idle"
    PROVE  /\ BatchFp(flush[f].batch) \in Fingerprint
           /\ \A a \in flush[f].batch : a \in Alert /\ Fp[a] = BatchFp(flush[f].batch)
<1>1. flush[f].batch \subseteq Alert BY DEF InvOf, TypeOK, BatcherTypeOK, FlushRecord
<1>2. flush[f].batch # {} BY DEF InvOf, OneAlarmPerBatch
<1>3. PICK b \in flush[f].batch : BatchFp(flush[f].batch) = Fp[b]
  BY <1>2 DEF BatchFp
<1> QED BY <1>1, <1>3, BatcherAssumption DEF InvOf, OneAlarmPerBatch

LEMMA FlushFindStep == ASSUME NEW S, InvOf(S), NEW f \in Flusher, FlushFind(f) PROVE InvOf(S)'
<1> DEFINE id == FindOpen(incidents, BatchFp(flush[f].batch))
           pc == IF id = NotFound THEN "post" ELSE "append"
           r == [flush[f] EXCEPT !.pc = pc, !.id = id]
<1>1. TypeOK /\ incidents \in Seq(Row) /\ flush[f] \in FlushRecord
  BY DEF InvOf, TypeOK, ReactionsTypeOK, BatcherTypeOK
<1>2. DOMAIN incidents = 1..Len(incidents) BY <1>1, LenProperties
<1>3. flush' = [flush EXCEPT ![f] = r] BY DEF FlushFind
<1>4. /\ flush[f].pc = "find"
      /\ UNCHANGED <<reactionVars, link, shown, posts, stored, pending, main, stopKeys, crashes>>
  BY DEF FlushFind, FlushUnchanged
<1>5. \A a \in flush[f].batch : a \in Alert /\ Fp[a] = BatchFp(flush[f].batch)
  BY <1>4, BatchOfOneAlarm
<1>6. id = NotFound \/ (id \in DOMAIN incidents /\ incidents[id].fp = BatchFp(flush[f].batch))
  BY <1>1, FindOpenFinds
<1>7. id \in Nat /\ pc \in {"post", "append"} BY <1>2, <1>6 DEF NotFound
<1>8. /\ pc = "append" => /\ id \in DOMAIN incidents
                          /\ \A a \in flush[f].batch : incidents[id].fp = Fp[a]
  BY <1>5, <1>6
<1>9. r \in FlushRecord /\ r.pc = pc /\ r.id = id /\ r.batch = flush[f].batch
  <2> HIDE DEF id, pc
  <2> QED BY <1>1, <1>7 DEF FlushRecord
<1> HIDE DEF r, pc, id
<1>10. /\ flush' \in [Flusher -> FlushRecord]
       /\ \A g \in Flusher : flush'[g] = IF g = f THEN r ELSE flush[g]
  BY <1>1, <1>3, <1>9, FlushUpdate
<1>11. TypeOK'
  BY <1>1, <1>4, <1>10 DEF TypeOK, ReactionsTypeOK, BatcherTypeOK, reactionVars
<1>12. KeptIdsExist' BY <1>4 DEF InvOf, KeptIdsExist, reactionVars
<1>13. OnePlace(S)' /\ OneAlarmPerBatch'
  BY <1>3, <1>4, <1>7, <1>9, FlushKeepsPlace
<1>14. FlushKnows'
  BY <1>4, <1>7, <1>8, <1>9, <1>10 DEF InvOf, FlushKnows, reactionVars
<1>15. ShownAtMostOnce' /\ LinkedWhereShown' /\ OneIncidentPerMessage'
  BY <1>4 DEF InvOf, ShownAtMostOnce, LinkedWhereShown, OneIncidentPerMessage, reactionVars
<1> QED BY <1>11, <1>12, <1>13, <1>14, <1>15 DEF InvOf

LEMMA FlushFailsStep ==
    ASSUME NEW S, InvOf(S), NEW f \in Flusher, FlushFails(f)
    PROVE  InvOf(S)'
<1>1. TypeOK /\ NoFlush \in FlushRecord BY NoFlushType DEF InvOf
<1>2. /\ flush' = [flush EXCEPT ![f] = NoFlush] /\ flush[f].pc # "idle"
      /\ UNCHANGED <<incidents, parents, thread, now, closed, hourglass, events, seen, reminder>>
      /\ UNCHANGED <<link, shown, posts, stored, pending, main, stopKeys, crashes>>
  BY DEF FlushFails, FlushUnchanged, SlackUnchanged
<1>3. /\ flush' \in [Flusher -> FlushRecord]
      /\ \A g \in Flusher : flush'[g] = IF g = f THEN NoFlush ELSE flush[g]
  BY <1>1, <1>2, FlushUpdate
<1>4. faults' \in 0..MaxFaults BY <1>1, FaultsType DEF TypeOK, FlushFails
<1>5. TypeOK' BY <1>1, <1>2, <1>3, <1>4 DEF TypeOK, ReactionsTypeOK, BatcherTypeOK
<1>6. KeptIdsExist' BY <1>2 DEF InvOf, KeptIdsExist
<1>7. OnePlace(S)' /\ OneAlarmPerBatch' BY <1>1, <1>2, NoFlushType, FlushKeepsPlace
<1>8. FlushKnows' BY <1>2, <1>3, NoFlushType DEF InvOf, FlushKnows
<1>9. ShownAtMostOnce' /\ LinkedWhereShown' /\ OneIncidentPerMessage'
  BY <1>2 DEF InvOf, ShownAtMostOnce, LinkedWhereShown, OneIncidentPerMessage
<1> QED BY <1>5, <1>6, <1>7, <1>8, <1>9 DEF InvOf

(* A post that shows a batch that was not shown.                            *)
LEMMA ShowsBatch ==
    ASSUME NEW S, InvOf(S),
           NEW f \in Flusher, flush[f].pc \in {"append", "post"}, NEW m \in Message,
           Shows(flush[f].batch, m)
    PROVE  /\ shown' \in [Alert -> SUBSET Message] /\ posts' \in [Alert -> Nat]
           /\ \A a \in Alert : shown[a] \subseteq shown'[a]
           /\ \A a \in flush[f].batch : m \in shown'[a]
           /\ \A a \in Alert : posts'[a] = posts[a] \/ a \in flush[f].batch
           /\ ShownAtMostOnce'
<1> DEFINE B == flush[f].batch
<1>1. B \subseteq Alert BY DEF InvOf, TypeOK, BatcherTypeOK, FlushRecord
<1>2. shown \in [Alert -> SUBSET Message] /\ posts \in [Alert -> Nat]
  BY DEF InvOf, TypeOK, BatcherTypeOK
<1>3. \A a \in B : posts[a] = 0 BY DEF InvOf, OnePlace
<1>4. /\ shown' = [a \in Alert |-> IF a \in B THEN shown[a] \cup {m} ELSE shown[a]]
      /\ posts' = [a \in Alert |-> IF a \in B THEN posts[a] + 1 ELSE posts[a]]
  BY DEF Shows
<1>5. ShownAtMostOnce BY DEF InvOf
<1> HIDE DEF B
<1>6. shown' \in [Alert -> SUBSET Message] BY <1>2, <1>4
<1>7. posts' \in [Alert -> Nat] BY <1>2, <1>4
<1>8. ShownAtMostOnce' BY <1>2, <1>3, <1>4, <1>5 DEF ShownAtMostOnce
<1>9. /\ \A a \in Alert : shown[a] \subseteq shown'[a]
      /\ \A a \in B : m \in shown'[a]
      /\ \A a \in Alert : posts'[a] = posts[a] \/ a \in B
  BY <1>1, <1>2, <1>4
<1> QED BY <1>6, <1>7, <1>8, <1>9 DEF B

LEMMA FlushAppendStep ==
    ASSUME NEW S, InvOf(S), NEW f \in Flusher, FlushAppend(f)
    PROVE  InvOf(S)'
<1> DEFINE r == [flush[f] EXCEPT !.pc = "link"]
           i == flush[f].id
           m == incidents[i].ts
<1>1. TypeOK /\ incidents \in Seq(Row) /\ flush[f] \in FlushRecord
  BY DEF InvOf, TypeOK, ReactionsTypeOK, BatcherTypeOK
<1>2. /\ flush[f].pc = "append"
      /\ Shows(flush[f].batch, m) /\ Say(m, "followup", now)
      /\ flush' = [flush EXCEPT ![f] = r]
      /\ UNCHANGED <<faults, incidents, parents, now, closed, hourglass, events, seen, reminder>>
      /\ UNCHANGED <<link, stored, pending, main, stopKeys, crashes>>
  BY DEF FlushAppend, FlushUnchanged, SlackUnchanged, Succeeds
<1>3. i \in DOMAIN incidents /\ \A a \in flush[f].batch : incidents[i].fp = Fp[a]
  BY <1>2 DEF InvOf, FlushKnows
<1>4. m \in Message
  <2>1. m \in 1..parents BY <1>3 DEF InvOf, OneIncidentPerMessage
  <2>2. parents \in 0..MaxMessages BY <1>1 DEF TypeOK, ReactionsTypeOK
  <2> HIDE DEF m
  <2> QED BY <2>1, <2>2, ReactionsAssumption DEF Message
<1>5. r \in FlushRecord /\ r.pc = "link" /\ r.id = i /\ r.batch = flush[f].batch
  BY <1>1 DEF FlushRecord
<1> HIDE DEF r, i, m
<1>6. /\ flush' \in [Flusher -> FlushRecord]
      /\ \A g \in Flusher : flush'[g] = IF g = f THEN r ELSE flush[g]
  BY <1>1, <1>2, <1>5, FlushUpdate
<1>7. /\ shown' \in [Alert -> SUBSET Message] /\ posts' \in [Alert -> Nat]
      /\ \A a \in Alert : shown[a] \subseteq shown'[a]
      /\ \A a \in flush[f].batch : m \in shown'[a]
      /\ \A a \in Alert : posts'[a] = posts[a] \/ a \in flush[f].batch
      /\ ShownAtMostOnce'
  BY <1>2, <1>4, ShowsBatch
<1>8. thread' \in [Message -> Seq([post : ThreadPost, at : Nat])]
  <2>1. now \in Nat BY <1>1, ReactionsAssumption DEF TypeOK, ReactionsTypeOK
  <2> QED BY <1>1, <1>2, <2>1, SayType DEF ThreadPost, TypeOK
<1>9. TypeOK'
  BY <1>1, <1>2, <1>6, <1>7, <1>8 DEF TypeOK, ReactionsTypeOK, BatcherTypeOK
<1>10. KeptIdsExist' BY <1>2 DEF InvOf, KeptIdsExist
<1>11. OnePlace(S)' /\ OneAlarmPerBatch' BY <1>2, <1>5, <1>7, FlushKeepsPlace
<1>12. \A g \in Flusher : flush[g].batch \subseteq Alert
  BY <1>1 DEF TypeOK, BatcherTypeOK, FlushRecord
<1>13. FlushKnows'
  <2>1. FlushKnows BY DEF InvOf
  <2> QED BY <2>1, <1>2, <1>3, <1>5, <1>6, <1>7, <1>12, SMTT(60) DEF FlushKnows, m
<1>14. LinkedWhereShown' BY <1>2, <1>7 DEF InvOf, LinkedWhereShown
<1>15. OneIncidentPerMessage' BY <1>2 DEF InvOf, OneIncidentPerMessage
<1> QED BY <1>7, <1>9, <1>10, <1>11, <1>13, <1>14, <1>15 DEF InvOf

LEMMA FlushPostStep == ASSUME NEW S, InvOf(S), NEW f \in Flusher, FlushPost(f) PROVE InvOf(S)'
<1> DEFINE m == parents + 1
           r == [flush[f] EXCEPT !.pc = "instruct", !.ts = m]
<1>1. TypeOK /\ flush[f] \in FlushRecord BY DEF InvOf, TypeOK, BatcherTypeOK
<1>2. /\ flush[f].pc = "post" /\ parents < MaxMessages /\ parents' = m
      /\ Shows(flush[f].batch, m)
      /\ flush' = [flush EXCEPT ![f] = r]
      /\ UNCHANGED <<faults, incidents, thread, now, closed, hourglass, events, seen, reminder>>
      /\ UNCHANGED <<link, stored, pending, main, stopKeys, crashes>>
  BY DEF FlushPost, FlushUnchanged, SlackUnchanged, Succeeds
<1>3. parents \in 0..MaxMessages BY <1>1 DEF TypeOK, ReactionsTypeOK
<1>4. m \in Message /\ m \in 0..MaxMessages /\ m \in 1..m /\ 1..parents \subseteq 1..m
      /\ m \notin 1..parents /\ parents \in Nat
  BY <1>2, <1>3, ReactionsAssumption DEF Message
<1>5. r \in FlushRecord /\ r.pc = "instruct" /\ r.ts = m /\ r.batch = flush[f].batch
  <2> HIDE DEF m
  <2> QED BY <1>1, <1>4 DEF FlushRecord
<1> HIDE DEF r, m
<1>6. /\ flush' \in [Flusher -> FlushRecord]
      /\ \A g \in Flusher : flush'[g] = IF g = f THEN r ELSE flush[g]
  BY <1>1, <1>2, <1>5, FlushUpdate
<1>7. /\ shown' \in [Alert -> SUBSET Message] /\ posts' \in [Alert -> Nat]
      /\ \A a \in Alert : shown[a] \subseteq shown'[a]
      /\ \A a \in flush[f].batch : m \in shown'[a]
      /\ \A a \in Alert : posts'[a] = posts[a] \/ a \in flush[f].batch
      /\ ShownAtMostOnce'
  BY <1>2, <1>4, ShowsBatch
<1>8. TypeOK'
  BY <1>1, <1>2, <1>4, <1>6, <1>7 DEF TypeOK, ReactionsTypeOK, BatcherTypeOK
<1>9. KeptIdsExist' BY <1>2 DEF InvOf, KeptIdsExist
<1>10. OnePlace(S)' /\ OneAlarmPerBatch' BY <1>2, <1>5, <1>7, FlushKeepsPlace
<1>11. \A g \in Flusher : flush[g].batch \subseteq Alert
  BY <1>1 DEF TypeOK, BatcherTypeOK, FlushRecord
<1>12. \A i \in DOMAIN incidents : incidents[i].ts \in 1..parents
  BY DEF InvOf, OneIncidentPerMessage
<1>13. FlushKnows'
  <2>1. FlushKnows BY DEF InvOf
  <2>2. \A g \in Flusher : flush[g].pc \in {"instruct", "create"} => flush[g].ts # m
    BY <2>1, <1>4 DEF FlushKnows
  <2>3. \A i \in DOMAIN incidents : incidents[i].ts # m BY <1>4, <1>12
  <2> QED BY <2>1, <2>2, <2>3, <1>2, <1>4, <1>5, <1>6, <1>7, <1>11, SMTT(60) DEF FlushKnows
<1>14. LinkedWhereShown' BY <1>2, <1>7 DEF InvOf, LinkedWhereShown
<1>15. OneIncidentPerMessage' BY <1>2, <1>4 DEF InvOf, OneIncidentPerMessage
<1> QED BY <1>7, <1>8, <1>9, <1>10, <1>13, <1>14, <1>15 DEF InvOf

LEMMA FlushInstructStep ==
    ASSUME NEW S, InvOf(S), NEW f \in Flusher, FlushInstruct(f)
    PROVE  InvOf(S)'
<1> DEFINE r == [flush[f] EXCEPT !.pc = "create"]
<1>1. /\ TypeOK /\ flush[f] \in FlushRecord
      /\ thread \in [Message -> Seq([post : ThreadPost, at : Nat])]
  BY DEF InvOf, TypeOK, ReactionsTypeOK, BatcherTypeOK
<1>2. /\ flush[f].pc = "instruct"
      /\ UNCHANGED thread \/ Say(flush[f].ts, "instructions", now)
      /\ flush' = [flush EXCEPT ![f] = r]
      /\ UNCHANGED <<incidents, parents, now, closed, hourglass, events, seen, reminder>>
      /\ UNCHANGED <<link, shown, posts, stored, pending, main, stopKeys, crashes>>
  BY DEF FlushInstruct, FlushUnchanged, SlackUnchanged
<1>3. r \in FlushRecord /\ r.pc = "create" /\ r.ts = flush[f].ts /\ r.batch = flush[f].batch
  BY <1>1 DEF FlushRecord
<1> HIDE DEF r
<1>4. /\ flush' \in [Flusher -> FlushRecord]
      /\ \A g \in Flusher : flush'[g] = IF g = f THEN r ELSE flush[g]
  BY <1>1, <1>2, <1>3, FlushUpdate
<1>5. faults' \in 0..MaxFaults BY <1>1, FaultsType DEF TypeOK, FlushInstruct
<1>6. thread' \in [Message -> Seq([post : ThreadPost, at : Nat])]
  <2>1. now \in Nat /\ "instructions" \in ThreadPost
    BY <1>1, ReactionsAssumption DEF TypeOK, ReactionsTypeOK, ThreadPost
  <2> QED BY <1>1, <1>2, <2>1, SayType DEF TypeOK
<1>7. TypeOK'
  BY <1>1, <1>2, <1>4, <1>5, <1>6 DEF TypeOK, ReactionsTypeOK, BatcherTypeOK
<1>8. KeptIdsExist' BY <1>2 DEF InvOf, KeptIdsExist
<1>9. OnePlace(S)' /\ OneAlarmPerBatch' BY <1>2, <1>3, FlushKeepsPlace
<1>10. FlushKnows' BY <1>2, <1>3, <1>4 DEF InvOf, FlushKnows
<1>11. ShownAtMostOnce' /\ LinkedWhereShown' /\ OneIncidentPerMessage'
  BY <1>2 DEF InvOf, ShownAtMostOnce, LinkedWhereShown, OneIncidentPerMessage
<1> QED BY <1>7, <1>8, <1>9, <1>10, <1>11 DEF InvOf

LEMMA FlushCreateStep ==
    ASSUME NEW S, InvOf(S), NEW f \in Flusher, FlushCreate(f)
    PROVE  InvOf(S)'
<1> DEFINE n == Len(incidents) + 1
           row == NewRow(BatchFp(flush[f].batch), flush[f].ts, now + ReminderInterval)
           r == [flush[f] EXCEPT !.pc = "link", !.id = n]
<1>1. TypeOK /\ incidents \in Seq(Row) /\ flush[f] \in FlushRecord
  BY DEF InvOf, TypeOK, ReactionsTypeOK, BatcherTypeOK
<1>2. /\ flush[f].pc = "create"
      /\ incidents' = Append(incidents, row)
      /\ flush' = [flush EXCEPT ![f] = r]
      /\ UNCHANGED <<faults, parents, thread, now, closed, hourglass, events, seen, reminder>>
      /\ UNCHANGED <<link, shown, posts, stored, pending, main, stopKeys, crashes>>
  BY DEF FlushCreate, FlushUnchanged, SlackUnchanged, Succeeds
<1>3. /\ BatchFp(flush[f].batch) \in Fingerprint
      /\ \A a \in flush[f].batch : a \in Alert /\ Fp[a] = BatchFp(flush[f].batch)
  BY <1>2, BatchOfOneAlarm
<1>4. row \in Row /\ row.fp = BatchFp(flush[f].batch) /\ row.ts = flush[f].ts
  <2>1. flush[f].ts \in Nat BY <1>1, ReactionsAssumption DEF FlushRecord
  <2>2. now + ReminderInterval \in Nat BY <1>1, NextDue DEF TypeOK
  <2> QED BY <1>3, <2>1, <2>2 DEF NewRow, Row
<1> HIDE DEF row
<1>5. /\ incidents' \in Seq(Row) /\ Len(incidents) \in Nat
      /\ DOMAIN incidents = 1..Len(incidents) /\ DOMAIN incidents' = 1..n
      /\ \A i \in DOMAIN incidents : incidents'[i] = incidents[i]
      /\ incidents'[n] = row
  BY <1>1, <1>2, <1>4
<1>6. /\ n \in Nat /\ n \in DOMAIN incidents' /\ DOMAIN incidents \subseteq DOMAIN incidents'
      /\ \A i \in DOMAIN incidents' : i \in DOMAIN incidents \/ i = n
  BY <1>5
<1>7. r \in FlushRecord /\ r.pc = "link" /\ r.id = n /\ r.batch = flush[f].batch
  <2> HIDE DEF n
  <2> QED BY <1>1, <1>6 DEF FlushRecord
<1> HIDE DEF r, n
<1>8. /\ flush' \in [Flusher -> FlushRecord]
      /\ \A g \in Flusher : flush'[g] = IF g = f THEN r ELSE flush[g]
  BY <1>1, <1>2, <1>7, FlushUpdate
<1>9. TypeOK'
  BY <1>1, <1>2, <1>5, <1>8 DEF TypeOK, ReactionsTypeOK, BatcherTypeOK
<1>10. KeptIdsExist' BY <1>2, <1>5, <1>6 DEF InvOf, KeptIdsExist
<1>11. OnePlace(S)' /\ OneAlarmPerBatch' BY <1>2, <1>7, FlushKeepsPlace
<1>12. /\ flush[f].ts \in 1..parents
       /\ \A a \in flush[f].batch : flush[f].ts \in shown[a]
       /\ \A i \in DOMAIN incidents : incidents[i].ts # flush[f].ts
       /\ \A g \in Flusher :
            flush[g].pc \in {"instruct", "create"} /\ flush[g].ts = flush[f].ts => f = g
  BY <1>2 DEF InvOf, FlushKnows
<1>13. FlushKnows'
  <2>1. FlushKnows BY DEF InvOf
  <2>2. ASSUME NEW g \in Flusher, flush'[g].pc = "append"
        PROVE  /\ flush'[g].id \in DOMAIN incidents'
               /\ \A a \in flush'[g].batch : incidents'[flush'[g].id].fp = Fp[a]
    BY <2>1, <2>2, <1>2, <1>5, <1>6, <1>7, <1>8 DEF FlushKnows
  <2>3. ASSUME NEW g \in Flusher, flush'[g].pc \in {"instruct", "create"}
        PROVE  /\ flush'[g].ts \in 1..parents'
               /\ \A a \in flush'[g].batch : flush'[g].ts \in shown'[a]
               /\ \A i \in DOMAIN incidents' : incidents'[i].ts # flush'[g].ts
               /\ \A h \in Flusher :
                    flush'[h].pc \in {"instruct", "create"} /\ flush'[h].ts = flush'[g].ts
                      => g = h
    <3>1. g # f /\ flush'[g] = flush[g] /\ flush[g].ts # flush[f].ts
      BY <2>3, <1>2, <1>7, <1>8, <1>12
    <3> QED BY <2>1, <2>3, <3>1, <1>2, <1>4, <1>5, <1>6, <1>7, <1>8 DEF FlushKnows
  <2>4. ASSUME NEW g \in Flusher, flush'[g].pc = "link"
        PROVE  /\ flush'[g].id \in DOMAIN incidents'
               /\ \A a \in flush'[g].batch :
                    /\ incidents'[flush'[g].id].fp = Fp[a]
                    /\ incidents'[flush'[g].id].ts \in shown'[a]
    <3>1. CASE g = f BY <3>1, <1>2, <1>3, <1>4, <1>5, <1>6, <1>7, <1>8, <1>12
    <3>2. CASE g # f BY <2>1, <2>4, <3>2, <1>2, <1>5, <1>6, <1>8 DEF FlushKnows
    <3> QED BY <3>1, <3>2
  <2> QED BY <2>2, <2>3, <2>4 DEF FlushKnows
<1>14. ShownAtMostOnce' BY <1>2 DEF InvOf, ShownAtMostOnce
<1>15. LinkedWhereShown' BY <1>2, <1>5, <1>6 DEF InvOf, LinkedWhereShown
<1>16. OneIncidentPerMessage'
  BY <1>2, <1>4, <1>5, <1>6, <1>12 DEF InvOf, OneIncidentPerMessage
<1> QED BY <1>9, <1>10, <1>11, <1>13, <1>14, <1>15, <1>16 DEF InvOf

LEMMA FlushLinkStep == ASSUME NEW S, InvOf(S), NEW f \in Flusher, FlushLink(f) PROVE InvOf(S)'
<1> DEFINE B == flush[f].batch \cap stored
           i == flush[f].id
<1>1. TypeOK /\ NoFlush \in FlushRecord /\ flush[f] \in FlushRecord /\ link \in [Alert -> Nat]
  BY NoFlushType DEF InvOf, TypeOK, BatcherTypeOK
<1>2. /\ flush[f].pc = "link"
      /\ \/ link' = [a \in Alert |-> IF a \in B THEN i ELSE link[a]]
         \/ link' = link
      /\ flush' = [flush EXCEPT ![f] = NoFlush]
      /\ UNCHANGED <<incidents, parents, thread, now, closed, hourglass, events, seen, reminder>>
      /\ UNCHANGED <<shown, posts, stored, pending, main, stopKeys, crashes>>
  BY DEF FlushLink, FlushUnchanged, SlackUnchanged
<1>3. i \in Nat BY <1>1 DEF FlushRecord
<1>4. /\ i \in DOMAIN incidents
      /\ \A a \in B : incidents[i].fp = Fp[a] /\ incidents[i].ts \in shown[a]
  BY <1>2 DEF InvOf, FlushKnows
<1> HIDE DEF B, i
<1>5. /\ flush' \in [Flusher -> FlushRecord]
      /\ \A g \in Flusher : flush'[g] = IF g = f THEN NoFlush ELSE flush[g]
  BY <1>1, <1>2, FlushUpdate
<1>6. /\ link' \in [Alert -> Nat]
      /\ \A a \in Alert : link'[a] = link[a] \/ (a \in B /\ link'[a] = i)
  BY <1>1, <1>2, <1>3
<1>7. faults' \in 0..MaxFaults BY <1>1, FaultsType DEF TypeOK, FlushLink
<1>8. TypeOK'
  BY <1>1, <1>2, <1>5, <1>6, <1>7 DEF TypeOK, ReactionsTypeOK, BatcherTypeOK
<1>9. KeptIdsExist' BY <1>2 DEF InvOf, KeptIdsExist
<1>10. OnePlace(S)' /\ OneAlarmPerBatch' BY <1>1, <1>2, NoFlushType, FlushKeepsPlace
<1>11. FlushKnows' BY <1>2, <1>5, NoFlushType DEF InvOf, FlushKnows
<1>12. ShownAtMostOnce' /\ OneIncidentPerMessage'
  BY <1>2 DEF InvOf, ShownAtMostOnce, OneIncidentPerMessage
<1>13. LinkedWhereShown' BY <1>2, <1>4, <1>6 DEF InvOf, LinkedWhereShown
<1> QED BY <1>8, <1>9, <1>10, <1>11, <1>12, <1>13 DEF InvOf

LEMMA CrashStep == ASSUME NEW S, InvOf(S), Crash PROVE InvOf(S)'
<1>1. TypeOK BY DEF InvOf
<1>2. /\ UNCHANGED <<incidents, now, parents, thread, closed, hourglass, faults>>
      /\ UNCHANGED <<stored, link, shown, posts>>
      /\ stopKeys' = {} /\ main' = "run"
      /\ pending' = [k \in Fingerprint |-> {}] /\ flush' = [f \in Flusher |-> NoFlush]
  BY DEF Crash, ReactionsCrash
<1>3. crashes' \in 0..MaxCrashes
  BY BatcherAssumption, <1>1 DEF TypeOK, BatcherTypeOK, Crash
<1>4. ReactionsInv' BY InvReactions, ReactionsCrashStep DEF Crash
<1>5. TypeOK'
  BY <1>1, <1>2, <1>3, <1>4, NoFlushType DEF TypeOK, ReactionsInv, BatcherTypeOK
<1>6. KeptIdsExist' BY <1>4 DEF ReactionsInv
<1>7. OnePlace(S)' /\ OneAlarmPerBatch' /\ FlushKnows'
  <2>1. \A f \in Flusher : flush'[f].pc = "idle" /\ flush'[f].batch = {}
    BY <1>2, NoFlushType
  <2>2. \A k \in Fingerprint : pending'[k] = {} BY <1>2
  <2>3. OnePlace(S)' BY <2>1, <2>2, <1>2 DEF InvOf, OnePlace
  <2>4. OneAlarmPerBatch' /\ FlushKnows' BY <2>1 DEF OneAlarmPerBatch, FlushKnows
  <2> QED BY <2>3, <2>4
<1>8. ShownAtMostOnce' /\ LinkedWhereShown' /\ OneIncidentPerMessage'
  BY <1>2 DEF InvOf, ShownAtMostOnce, LinkedWhereShown, OneIncidentPerMessage
<1> QED BY <1>5, <1>6, <1>7, <1>8 DEF InvOf

LEMMA FlushStepStep == ASSUME NEW S, InvOf(S), NEW f \in Flusher, FlushStep(f) PROVE InvOf(S)'
  BY FlushFindStep, FlushFailsStep, FlushAppendStep, FlushPostStep, FlushInstructStep,
     FlushCreateStep, FlushLinkStep
     DEF FlushStep

-----------------------------------------------------------------------------
(* The three facts, and what follows from them                              *)

LEMMA InitInv == ASSUME Init PROVE IInv
<1> USE DEF Init, ReactionsInit, BatcherInit
<1>1. Idle \in ReminderRecord /\ Idle.todo = {} /\ Idle.pc = "idle"
  BY DEF Idle, ReminderRecord, NotFound
<1>2. ReactionsTypeOK BY <1>1, ReactionsAssumption, EmptySeq DEF ReactionsTypeOK
<1>3. BatcherTypeOK BY NoFlushType, BatcherAssumption DEF BatcherTypeOK, NotFound
<1>4. KeptIdsExist BY <1>1 DEF KeptIdsExist
<1>5. OnePlace(stored) /\ OneAlarmPerBatch /\ FlushKnows
  BY NoFlushType DEF OnePlace, OneAlarmPerBatch, FlushKnows
<1>6. ShownAtMostOnce /\ LinkedWhereShown /\ OneIncidentPerMessage
  BY DEF ShownAtMostOnce, LinkedWhereShown, OneIncidentPerMessage
<1> QED BY <1>2, <1>3, <1>4, <1>5, <1>6 DEF IInv, InvOf, TypeOK

LEMMA NextInv == ASSUME IInv, [Next]_vars PROVE IInv'
<1>1. ASSUME NEW a \in Alert, StoreAndEnqueue(a) PROVE IInv' BY <1>1, StoreStep
<1>2. CASE ~ \E a \in Alert : StoreAndEnqueue(a)
  <2>1. PICK S : S = stored OBVIOUS
  <2>2. InvOf(S) BY <2>1 DEF IInv
  <2>3. stored' = S
    BY <1>2, <2>1 DEF Next, BatcherNext, AtRest, FlushTake, FlushStep, FlushFind, FlushFails,
       FlushAppend, FlushPost, FlushInstruct, FlushCreate, FlushLink, FlushUnchanged,
       FlushNothing, CloseStopCh, ReadStopKeys, StopReturns, Crash, vars, batcherVars
  <2>4. ASSUME NEW f \in Flusher, NEW k \in Fingerprint, FlushTake(f, k) PROVE InvOf(S)'
    BY <2>2, <2>4, FlushTakeStep
  <2>5. ASSUME NEW f \in Flusher, FlushStep(f) PROVE InvOf(S)'
    BY <2>2, <2>5, FlushStepStep
  <2>6. ASSUME Crash PROVE InvOf(S)' BY <2>2, <2>6, CrashStep
  <2>7. ASSUME ReactionsNext, UNCHANGED batcherVars PROVE InvOf(S)'
    BY <2>2, <2>7, ReactionsKeepInv
  <2>8. ASSUME UNCHANGED vars PROVE InvOf(S)'
    BY <2>2, <2>8, MainStep DEF vars, batcherVars, InvOf, TypeOK, BatcherTypeOK
  <2>9. InvOf(S)'
    BY <1>2, <2>2, <2>4, <2>5, <2>6, <2>7, <2>8, MainSteps DEF Next, BatcherNext, AtRest
  <2> QED BY <2>3, <2>9 DEF IInv
<1> QED BY <1>1, <1>2

LEMMA InvAlways == Spec => []IInv
  BY InitInv, NextInv, PTL DEF Spec

(* Type correctness: no interleaving of flushes, reactions, reminders,      *)
(* failed calls and crashes makes the batcher keep a dangling incident id   *)
(* or a batch of anything but stored alerts (slack_batcher.go:92-196).      *)
THEOREM TypeCorrect == Spec => []TypeOK
  BY InvAlways, PTL DEF IInv, InvOf

(* An alert is shown by at most one Slack post: flush removes the batch     *)
(* from pending under the mutex before it posts (slack_batcher.go:92-108),  *)
(* and nothing puts an alert back, not even a failed call or a restart.     *)
THEOREM NeverShownTwice == Spec => []ShownAtMostOnce
  BY InvAlways, PTL DEF IInv, InvOf

(* slack_incident_id leads to an incident of the alert's own alarm whose    *)
(* message shows the alert: flush writes it after the post and from the     *)
(* incident it found or created for that post (slack_batcher.go:121-195).   *)
THEOREM LinksLeadHome == Spec => []LinkedWhereShown
  BY InvAlways, PTL DEF IInv, InvOf

(* A message has at most one incident row, and only a posted message has    *)
(* one: what GetSlackIncidentByMessage (es_syslog_repo.go:72-80) relies on. *)
THEOREM NoMessageTwice == Spec => []OneIncidentPerMessage
  BY InvAlways, PTL DEF IInv, InvOf
-----------------------------------------------------------------------------
(* Messages shown as resolved                                               *)

(* No step takes a row away, gives it to another message or opens it again. *)
RowsStay ==
    \A i \in DOMAIN incidents :
        /\ i \in DOMAIN incidents' /\ incidents'[i].ts = incidents[i].ts
        /\ incidents[i].resolved => incidents'[i].resolved

LEMMA RowsStayStep == ASSUME IInv, [Next]_vars PROVE RowsStay
<1>1. incidents \in Seq(Row) BY DEF IInv, InvOf, TypeOK, ReactionsTypeOK
<1>2. CASE RowsUpdated(incidents, incidents')
  BY <1>1, <1>2, LenProperties DEF RowsUpdated, RowsStay
<1>3. CASE UNCHANGED incidents BY <1>3 DEF RowsStay
<1>4. CASE \E f \in Flusher : FlushCreate(f)
  <2>1. PICK row : incidents' = Append(incidents, row) BY <1>4 DEF FlushCreate
  <2> QED BY <1>1, <2>1 DEF RowsStay
<1>5. CASE ReactionsNext BY <1>2, <1>5, InvReactions, ReactionsStep DEF IInv, UpdatesOnly
<1>6. CASE UNCHANGED vars BY <1>3, <1>6 DEF vars, reactionVars
<1>7. ASSUME NEW f \in Flusher, FlushStep(f), ~FlushCreate(f) PROVE UNCHANGED incidents
  BY <1>7 DEF FlushStep, FlushFind, FlushFails, FlushAppend, FlushPost, FlushInstruct,
              FlushLink, reactionVars
<1> QED BY <1>3, <1>4, <1>5, <1>6, <1>7
        DEF Next, BatcherNext, AtRest, StoreAndEnqueue, FlushTake, FlushNothing, CloseStopCh,
            ReadStopKeys, StopReturns, Crash, ReactionsCrash, reactionVars

(* Only the handler of a check mark rewrites a message, its own.            *)
LEMMA OnlyReplyCloses ==
    ASSUME IInv, [Next]_vars, ~ \E k \in DOMAIN events : HandleReply(k)
    PROVE  closed' = closed
<1>1. CASE ReactionsNext
  BY <1>1 DEF ReactionsNext, Tick, AddCheckMark, AddHourglass, RemoveHourglass, SendEvent,
              ReceiveEvent, RepeatEvent, HandleUpdate, RemindList, RemindPost, RemindBump,
              RemindDone
<1>2. ASSUME NEW f \in Flusher, FlushStep(f) PROVE closed' = closed
  BY <1>2 DEF FlushStep, FlushFind, FlushFails, FlushAppend, FlushPost, FlushInstruct,
              FlushCreate, FlushLink, SlackUnchanged, reactionVars
<1> QED BY <1>1, <1>2
        DEF Next, BatcherNext, AtRest, StoreAndEnqueue, FlushTake, FlushNothing, CloseStopCh,
            ReadStopKeys, StopReturns, Crash, ReactionsCrash, vars, reactionVars

LEMMA ClosedStep ==
    ASSUME IInv, ClosedIsResolved, [Next]_vars PROVE ClosedIsResolved'
<1>1. ASSUME NEW m \in closed' PROVE \E i \in DOMAIN incidents :
                                      incidents[i].ts = m /\ incidents[i].resolved
  <2>1. CASE m \in closed BY <2>1 DEF ClosedIsResolved
  <2>2. CASE m \notin closed
    <3>1. PICK k \in DOMAIN events : HandleReply(k) BY <1>1, <2>2, OnlyReplyCloses
    <3>2. events[k].kind = "check" /\ m = events[k].ts /\ events[k].pc = "replying"
      BY <1>1, <2>2, <3>1 DEF HandleReply
    <3> QED BY <3>2 DEF IInv, InvOf, KeptIdsExist
  <2> QED BY <2>1, <2>2
<1> QED BY <1>1, RowsStayStep DEF RowsStay, ClosedIsResolved

(* A parent message that tells people its alarm is resolved belongs to a    *)
(* resolved incident: the handler rewrites it only after its update, and no *)
(* statement of another handler, a pause or a late reminder opens the row   *)
(* again (slack_events.go:147-230, es_syslog_repo.go:103-138).              *)
THEOREM ClosedMeansResolved == Spec => []ClosedIsResolved
<1>1. Init => ClosedIsResolved BY DEF Init, ReactionsInit, ClosedIsResolved
<1> QED BY <1>1, ClosedStep, InvAlways, PTL DEF Spec
-----------------------------------------------------------------------------
(* What people in the channel see: AlarmDelivery                            *)

(* An alert has one message, about its own alarm, and no message before its *)
(* flush has posted; its batch is gone when it is linked.                   *)
OneHome ==
    \A a \in Alert : /\ posts[a] = 0 => shown[a] = {}
                     /\ \A m, n \in shown[a] : m = n
                     /\ shown[a] \subseteq 1..parents
LinkedIsDone ==
    \A a \in Alert : link[a] # NotFound =>
        /\ a \in stored /\ a \notin pending[Fp[a]]
        /\ \A f \in Flusher : a \notin flush[f].batch
OneAlarmPerMessage ==
    /\ \A a \in Alert : \A i \in DOMAIN incidents :
         incidents[i].ts \in shown[a] => incidents[i].fp = Fp[a]
    /\ \A f \in Flusher : flush[f].pc \in {"instruct", "create"} =>
         \A a \in Alert : flush[f].ts \in shown[a] =>
             \A b \in flush[f].batch : Fp[a] = Fp[b]

DeliveryInv == IInv /\ OneHome /\ LinkedIsDone /\ OneAlarmPerMessage

LEMMA AlertsUnchanged ==
    ASSUME UNCHANGED <<stored, shown, link>> PROVE UNCHANGED <<alertNow, homeNow>>
  BY DEF alertNow, homeNow, AlertStatus, HomeOf

LEMMA StatusUnchanged ==
    ASSUME UNCHANGED <<incidents, parents>> PROVE UNCHANGED statusNow
  BY DEF statusNow, StatusOf, RowsOf

RowStatus(r) ==
    IF r.resolved THEN "resolved" ELSE IF r.snoozed THEN "paused" ELSE "open"

(* The status of a message with a row is that of the row.                   *)
LEMMA StatusOfRow ==
    ASSUME IInv, NEW i \in DOMAIN incidents
    PROVE  /\ incidents[i].ts \in Message /\ incidents[i].ts <= parents
           /\ statusNow[incidents[i].ts] = RowStatus(incidents[i])
<1>1. /\ incidents[i].ts \in 1..parents /\ parents \in 0..MaxMessages /\ MaxMessages \in Nat
  BY ReactionsAssumption DEF IInv, InvOf, OneIncidentPerMessage, TypeOK, ReactionsTypeOK
<1>2. incidents[i].ts \in Message /\ incidents[i].ts <= parents
  BY <1>1 DEF Message
<1>3. RowsOf(incidents[i].ts) = {i} BY DEF IInv, InvOf, OneIncidentPerMessage, RowsOf
<1>4. StatusOf(incidents[i].ts) = RowStatus(incidents[i])
  <2>1. ~(incidents[i].ts > parents) BY <1>1
  <2> QED BY <1>3, <2>1 DEF StatusOf, RowStatus
<1> QED BY <1>2, <1>4 DEF statusNow

(* Updating one row changes the status of its message, and no other.        *)
LEMMA StatusOfUpdate ==
    ASSUME IInv, NEW i \in DOMAIN incidents, NEW r \in Row,
           NEW m \in Message, m = incidents[i].ts, r.ts = m,
           incidents' = [incidents EXCEPT ![i] = r], parents' = parents
    PROVE  statusNow' = [statusNow EXCEPT ![m] = RowStatus(r)]
<1>0. incidents \in Seq(Row) BY DEF IInv, InvOf, TypeOK, ReactionsTypeOK
<1>1. /\ DOMAIN incidents' = DOMAIN incidents
      /\ \A j \in DOMAIN incidents : incidents'[j] = IF j = i THEN r ELSE incidents[j]
  OBVIOUS
<1>2. \A j \in DOMAIN incidents : incidents'[j].ts = incidents[j].ts BY <1>1
<1>3. ASSUME NEW n \in Message PROVE RowsOf(n)' = RowsOf(n) BY <1>1, <1>2 DEF RowsOf
<1>4. RowsOf(m) = {i} BY DEF IInv, InvOf, OneIncidentPerMessage, RowsOf
<1>5. ~(m > parents)
  <2>1. m <= parents BY StatusOfRow
  <2>2. parents \in Nat BY ReactionsAssumption DEF IInv, InvOf, TypeOK, ReactionsTypeOK
  <2>3. m \in Nat BY ReactionsAssumption DEF Message
  <2> QED BY <2>1, <2>2, <2>3
<1>6. StatusOf(m)' = RowStatus(r)
  <2>1. RowsOf(m)' = {i} /\ incidents'[i] = r BY <1>1, <1>3, <1>4
  <2> QED BY <1>5, <2>1 DEF StatusOf, RowStatus
<1>7. ASSUME NEW n \in Message, n # m PROVE StatusOf(n)' = StatusOf(n)
  <2>1. \A j \in RowsOf(n) : incidents'[j] = incidents[j]
    BY <1>1, <1>7 DEF RowsOf
  <2> QED BY <1>3, <2>1 DEF StatusOf
<1> QED BY <1>6, <1>7 DEF statusNow

Stutters == UNCHANGED <<alertNow, homeNow, statusNow>>

(* Steps that neither show nor link an alert.                               *)
LEMMA DeliveryKept ==
    ASSUME DeliveryInv, UNCHANGED <<shown, link, posts, parents>>, stored \subseteq stored',
           RowsStay, DOMAIN incidents' = DOMAIN incidents,
           \A i \in DOMAIN incidents : incidents'[i].fp = incidents[i].fp,
           \A a \in stored : a \in pending'[Fp[a]] => a \in pending[Fp[a]],
           \A g \in Flusher :
               \/ flush'[g] = flush[g]
               \/ /\ flush'[g].batch \subseteq
                        flush[g].batch \cup {a \in stored : a \in pending[Fp[a]]}
                  /\ flush'[g].pc \in {"instruct", "create"} =>
                       /\ flush[g].pc \in {"instruct", "create"}
                       /\ flush'[g].ts = flush[g].ts /\ flush'[g].batch = flush[g].batch
    PROVE  OneHome' /\ LinkedIsDone' /\ OneAlarmPerMessage'
<1>1. OneHome' BY DEF DeliveryInv, OneHome
<1>2. LinkedIsDone' BY DEF DeliveryInv, LinkedIsDone
<1>3. OneAlarmPerMessage' BY DEF DeliveryInv, OneAlarmPerMessage, RowsStay
<1> QED BY <1>1, <1>2, <1>3

(* What every step has to show.                                             *)
Implements == /\ OneHome' /\ LinkedIsDone' /\ OneAlarmPerMessage'
              /\ Delivery!Next \/ Stutters

(* An update of a row is seen as the new status of its message.             *)
LEMMA UpdateSeen ==
    ASSUME IInv, NEW i \in DOMAIN incidents, NEW r \in Row, r.ts = incidents[i].ts,
           incidents' = [incidents EXCEPT ![i] = r], parents' = parents,
           UNCHANGED <<alertNow, homeNow>>,
           RowStatus(r) = RowStatus(incidents[i]) \/ ~incidents[i].resolved
    PROVE  Delivery!Next \/ Stutters
<1> DEFINE m == incidents[i].ts
<1>1. m \in Message /\ statusNow[m] = RowStatus(incidents[i]) BY StatusOfRow
<1>2. PICK n \in Message : n = m BY <1>1
<1>3. statusNow' = [statusNow EXCEPT ![n] = RowStatus(r)] BY <1>2, StatusOfUpdate
<1>4. statusNow \in [Message -> {StatusOf(k) : k \in Message}] BY DEF statusNow
<1>5. CASE RowStatus(r) = RowStatus(incidents[i])
  <2>1. statusNow' = statusNow BY <1>1, <1>2, <1>3, <1>4, <1>5
  <2> QED BY <2>1 DEF Stutters
<1>6. CASE RowStatus(r) # RowStatus(incidents[i])
  <2>1. /\ statusNow[n] \in {"open", "paused"} /\ statusNow[n] # RowStatus(r)
        /\ RowStatus(r) \in {"open", "paused", "resolved"}
    BY <1>1, <1>2, <1>6 DEF RowStatus
  <2>2. Delivery!Pause(n) \/ Delivery!Unpause(n) \/ Delivery!Resolve(n)
    BY <1>3, <2>1
       DEF Delivery!Pause, Delivery!Unpause, Delivery!Resolve, Delivery!Change
  <2> QED BY <2>2 DEF Delivery!Next
<1> QED BY <1>5, <1>6

LEMMA ReactionsImplement ==
    ASSUME DeliveryInv, ReactionsNext, UNCHANGED batcherVars PROVE Implements
<1>1. IInv /\ incidents \in Seq(Row) /\ DOMAIN incidents = 1..Len(incidents)
  BY LenProperties DEF DeliveryInv, IInv, InvOf, TypeOK, ReactionsTypeOK
<1>2. parents' = parents /\ RowsUpdated(incidents, incidents')
  BY <1>1, InvReactions, ReactionsStep DEF IInv, UpdatesOnly
<1>3. UNCHANGED <<alertNow, homeNow>> BY AlertsUnchanged DEF batcherVars
<1>4. OneHome' /\ LinkedIsDone' /\ OneAlarmPerMessage'
  <2>1. /\ RowsStay /\ DOMAIN incidents' = DOMAIN incidents
        /\ \A i \in DOMAIN incidents : incidents'[i].fp = incidents[i].fp
    BY <1>1, <1>2, LenProperties DEF RowsUpdated, RowsStay
  <2> QED BY <1>2, <2>1, DeliveryKept DEF batcherVars
<1>5. CASE UNCHANGED incidents
  BY <1>2, <1>3, <1>4, <1>5, StatusUnchanged DEF Implements, Stutters
<1>6. ASSUME NEW k \in DOMAIN events, HandleUpdate(k), incidents' = UpdateFor(events[k])
      PROVE  Delivery!Next \/ Stutters
  <2> DEFINE i == events[k].id
             row == incidents[i]
  <2>1. events[k].kind \in {"check", "pause", "unpause"} /\ i \in 1..Len(incidents)
    BY <1>1, <1>6, EventType
       DEF HandleUpdate, IInv, InvOf, TypeOK, KeptIdsExist, EventRecord
  <2>2. row \in Row /\ now + ReminderInterval \in Nat
    BY <1>1, <2>1, ElementOfSeq, NextDue DEF IInv, InvOf, TypeOK
  <2>3. \/ UNCHANGED incidents
        \/ \E r \in Row : /\ r.ts = row.ts /\ incidents' = [incidents EXCEPT ![i] = r]
                          /\ RowStatus(r) = RowStatus(row) \/ ~row.resolved
    <3>1. CASE events[k].kind = "check"
      <4> DEFINE r == [row EXCEPT !.resolved = TRUE, !.due = Far]
      <4>1. r \in Row /\ r.ts = row.ts /\ RowStatus(r) = "resolved"
        BY <2>2, FarAssumption DEF Row, RowStatus
      <4>2. incidents' = [incidents EXCEPT ![i] = r]
        BY <1>6, <3>1 DEF UpdateFor, MarkResolved
      <4>3. row.resolved => RowStatus(row) = "resolved" BY DEF RowStatus
      <4> HIDE DEF r, row
      <4> QED BY <4>1, <4>2, <4>3
    <3>2. CASE events[k].kind = "pause" /\ ~row.resolved
      <4> DEFINE r == [row EXCEPT !.snoozed = TRUE, !.due = Far]
      <4>1. r \in Row /\ r.ts = row.ts BY <2>2, FarAssumption DEF Row
      <4>2. incidents' = [incidents EXCEPT ![i] = r]
        BY <1>6, <3>2 DEF UpdateFor, Snooze
      <4> HIDE DEF r, row
      <4> QED BY <3>2, <4>1, <4>2
    <3>3. CASE events[k].kind = "unpause" /\ ~row.resolved
      <4> DEFINE r == [row EXCEPT !.snoozed = FALSE, !.due = now + ReminderInterval]
      <4>1. r \in Row /\ r.ts = row.ts BY <2>2 DEF Row
      <4>2. incidents' = [incidents EXCEPT ![i] = r]
        BY <1>6, <3>3 DEF UpdateFor, Unsnooze
      <4> HIDE DEF r, row
      <4> QED BY <3>3, <4>1, <4>2
    <3>4. CASE events[k].kind \in {"pause", "unpause"} /\ row.resolved
      BY <1>6, <3>4 DEF UpdateFor, Snooze, Unsnooze
    <3> QED BY <2>1, <3>1, <3>2, <3>3, <3>4
  <2> HIDE DEF row, i
  <2>4. CASE UNCHANGED incidents
    BY <1>2, <1>3, <2>4, StatusUnchanged DEF Stutters
  <2> QED BY <1>1, <1>2, <1>3, <2>1, <2>3, <2>4, UpdateSeen DEF row
<1>7. ASSUME RemindBump,
             incidents' = BumpReminder(incidents, reminder.cur, reminder.at + ReminderInterval)
      PROVE  Delivery!Next \/ Stutters
  <2> DEFINE i == reminder.cur
             next == reminder.at + ReminderInterval
             row == incidents[i]
             r == [row EXCEPT !.due = next]
  <2>1. i \in 1..Len(incidents) /\ next \in Nat
    BY <1>1, <1>7, ReactionsAssumption, SMTT(120)
       DEF RemindBump, IInv, InvOf, KeptIdsExist, TypeOK, ReactionsTypeOK, ReminderRecord
  <2>2. row \in Row BY <1>1, <2>1, ElementOfSeq
  <2>3. incidents' = [incidents EXCEPT ![i] = r] BY <1>7 DEF BumpReminder
  <2> HIDE DEF next
  <2>4. r \in Row /\ r.ts = row.ts /\ RowStatus(r) = RowStatus(row)
    BY <2>1, <2>2 DEF Row, RowStatus
  <2> HIDE DEF r, i
  <2> QED BY <1>1, <1>2, <1>3, <2>1, <2>3, <2>4, UpdateSeen
<1>8. \/ UNCHANGED incidents
      \/ \E k \in DOMAIN events : HandleUpdate(k) /\ incidents' = UpdateFor(events[k])
      \/ RemindBump /\ incidents' = BumpReminder(incidents, reminder.cur,
                                                 reminder.at + ReminderInterval)
  BY DEF ReactionsNext, Tick, AddCheckMark, AddHourglass, RemoveHourglass, SendEvent,
         ReceiveEvent, RepeatEvent, HandleUpdate, HandleReply, RemindList, RemindPost,
         RemindBump, RemindDone
<1> QED BY <1>4, <1>5, <1>6, <1>7, <1>8 DEF Implements

(* Steps of the batcher that show and link nothing.                         *)
LEMMA QuietImplements ==
    ASSUME DeliveryInv, UNCHANGED <<shown, link, posts, parents, incidents, stored>>,
           \A a \in stored : a \in pending'[Fp[a]] => a \in pending[Fp[a]],
           \A g \in Flusher :
               \/ flush'[g] = flush[g]
               \/ /\ flush'[g].batch \subseteq
                        flush[g].batch \cup {a \in stored : a \in pending[Fp[a]]}
                  /\ flush'[g].pc \in {"instruct", "create"} =>
                       /\ flush[g].pc \in {"instruct", "create"}
                       /\ flush'[g].ts = flush[g].ts /\ flush'[g].batch = flush[g].batch
    PROVE  Implements
<1>1. Stutters BY AlertsUnchanged, StatusUnchanged DEF Stutters
<1>2. RowsStay BY DEF RowsStay
<1> QED BY <1>1, <1>2, DeliveryKept DEF Implements

LEMMA StoreImplements ==
    ASSUME DeliveryInv, NEW a \in Alert, StoreAndEnqueue(a) PROVE Implements
<1>1. /\ a \notin stored /\ stored' = stored \cup {a}
      /\ pending' = [pending EXCEPT ![Fp[a]] = pending[Fp[a]] \cup {a}]
      /\ UNCHANGED <<reactionVars, link, flush, shown, posts>>
  BY DEF StoreAndEnqueue, Enqueued
<1>2. UNCHANGED <<incidents, parents>> BY <1>1 DEF reactionVars
<1>3. pending \in [Fingerprint -> SUBSET Alert] /\ shown[a] = {}
  BY <1>1 DEF DeliveryInv, IInv, InvOf, TypeOK, BatcherTypeOK, OnePlace, OneHome
<1>4. OneHome' /\ LinkedIsDone' /\ OneAlarmPerMessage'
  <2>1. \A b \in stored : b \in pending'[Fp[b]] => b \in pending[Fp[b]]
    BY <1>1, <1>3
  <2>2. RowsStay BY <1>2 DEF RowsStay
  <2> QED BY <1>1, <1>2, <2>1, <2>2, DeliveryKept
<1>5. alertNow[a] = "new" /\ alertNow' = [alertNow EXCEPT ![a] = "stored"]
  BY <1>1, <1>3 DEF alertNow, AlertStatus
<1>6. UNCHANGED <<homeNow, statusNow>>
  BY <1>1, <1>2, StatusUnchanged DEF homeNow, HomeOf
<1>7. Delivery!Store(a) BY <1>5, <1>6 DEF Delivery!Store
<1> QED BY <1>4, <1>7 DEF Implements, Delivery!Next

LEMMA FlushTakeImplements ==
    ASSUME DeliveryInv, NEW f \in Flusher, NEW k \in Fingerprint, FlushTake(f, k)
    PROVE  Implements
<1> DEFINE r == [NoFlush EXCEPT !.pc = "find", !.batch = pending[k]]
<1>1. TypeOK /\ pending \in [Fingerprint -> SUBSET Alert]
  BY DEF DeliveryInv, IInv, InvOf, TypeOK, BatcherTypeOK
<1>2. /\ flush' = [flush EXCEPT ![f] = r] /\ pending' = [pending EXCEPT ![k] = {}]
      /\ UNCHANGED <<shown, link, posts, parents, incidents, stored>>
  BY DEF FlushTake, reactionVars
<1>3. r.pc = "find" /\ r.batch = pending[k] BY DEF NoFlush
<1> HIDE DEF r
<1>4. \A g \in Flusher : flush'[g] = IF g = f THEN r ELSE flush[g]
  BY <1>1, <1>2 DEF TypeOK, BatcherTypeOK
<1>5. pending[k] \subseteq {a \in stored : a \in pending[Fp[a]]}
  BY DEF DeliveryInv, IInv, InvOf, OnePlace
<1>6. \A a \in stored : a \in pending'[Fp[a]] => a \in pending[Fp[a]]
  BY <1>1, <1>2
<1> QED BY <1>2, <1>3, <1>4, <1>5, <1>6, QuietImplements

(* A flush that goes on with record r without showing or linking.           *)
LEMMA FlushQuiet ==
    ASSUME DeliveryInv, NEW f \in Flusher, NEW r, flush' = [flush EXCEPT ![f] = r],
           UNCHANGED <<shown, link, posts, parents, incidents, stored, pending>>,
           r.batch = flush[f].batch \/ r.batch = {},
           r.pc \in {"instruct", "create"} =>
               flush[f].pc = "instruct" /\ r.ts = flush[f].ts /\ r.batch = flush[f].batch
    PROVE  Implements
<1>1. \A g \in Flusher : flush'[g] = IF g = f THEN r ELSE flush[g]
  BY DEF DeliveryInv, IInv, InvOf, TypeOK, BatcherTypeOK
<1> QED BY <1>1, QuietImplements

LEMMA FlushFindImplements ==
    ASSUME DeliveryInv, NEW f \in Flusher, FlushFind(f) PROVE Implements
<1> DEFINE id == FindOpen(incidents, BatchFp(flush[f].batch))
           pc == IF id = NotFound THEN "post" ELSE "append"
           r == [flush[f] EXCEPT !.pc = pc, !.id = id]
<1>1. flush[f] \in FlushRecord BY DEF DeliveryInv, IInv, InvOf, TypeOK, BatcherTypeOK
<1>2. /\ flush' = [flush EXCEPT ![f] = r]
      /\ UNCHANGED <<shown, link, posts, parents, incidents, stored, pending>>
  BY DEF FlushFind, FlushUnchanged, reactionVars
<1>3. r.pc \in {"post", "append"} /\ r.batch = flush[f].batch
  <2> HIDE DEF id
  <2> QED BY <1>1 DEF FlushRecord
<1> HIDE DEF r
<1> QED BY <1>2, <1>3, FlushQuiet

LEMMA FlushFailsImplements ==
    ASSUME DeliveryInv, NEW f \in Flusher, FlushFails(f) PROVE Implements
<1>1. /\ flush' = [flush EXCEPT ![f] = NoFlush]
      /\ UNCHANGED <<shown, link, posts, parents, incidents, stored, pending>>
  BY DEF FlushFails, FlushUnchanged
<1> QED BY <1>1, NoFlushType, FlushQuiet

LEMMA FlushInstructImplements ==
    ASSUME DeliveryInv, NEW f \in Flusher, FlushInstruct(f) PROVE Implements
<1> DEFINE r == [flush[f] EXCEPT !.pc = "create"]
<1>1. flush[f] \in FlushRecord BY DEF DeliveryInv, IInv, InvOf, TypeOK, BatcherTypeOK
<1>2. /\ flush' = [flush EXCEPT ![f] = r] /\ flush[f].pc = "instruct"
      /\ UNCHANGED <<shown, link, posts, parents, incidents, stored, pending>>
  BY DEF FlushInstruct, FlushUnchanged
<1>3. r.ts = flush[f].ts /\ r.batch = flush[f].batch BY <1>1 DEF FlushRecord
<1> HIDE DEF r
<1> QED BY <1>2, <1>3, FlushQuiet

(* The batch of a flush that is about to post has not been shown; the post  *)
(* gives all its alerts the one home m.                                     *)
LEMMA ShowStep ==
    ASSUME DeliveryInv, NEW f \in Flusher, flush[f].pc \in {"append", "post"},
           NEW m \in Message, m \in 1..parents',
           Shows(flush[f].batch, m), UNCHANGED <<stored, link>>,
           1..parents \subseteq 1..parents',
           \A b \in Alert : m \in shown[b] => \A a \in flush[f].batch : Fp[a] = Fp[b]
    PROVE  Delivery!Show(m) /\ OneHome'
<1> DEFINE B == flush[f].batch
<1>1. B \subseteq Alert /\ B # {} /\ \A a, b \in B : Fp[a] = Fp[b]
  BY DEF DeliveryInv, IInv, InvOf, TypeOK, BatcherTypeOK, FlushRecord, OneAlarmPerBatch
<1>2. \A a \in B : a \in stored /\ posts[a] = 0 /\ shown[a] = {} /\ link[a] = NotFound
  BY <1>1 DEF DeliveryInv, IInv, InvOf, OnePlace, OneHome, LinkedIsDone
<1>3. posts \in [Alert -> Nat] BY DEF DeliveryInv, IInv, InvOf, TypeOK, BatcherTypeOK
<1>4. \A a \in Alert : /\ shown'[a] = IF a \in B THEN {m} ELSE shown[a]
                       /\ posts'[a] = IF a \in B THEN posts[a] + 1 ELSE posts[a]
  BY <1>2 DEF Shows
<1> HIDE DEF B
<1>5. OneHome'
  <2>1. ASSUME NEW a \in Alert PROVE /\ posts'[a] = 0 => shown'[a] = {}
                                     /\ \A n, k \in shown'[a] : n = k
                                     /\ shown'[a] \subseteq 1..parents'
    <3>1. CASE a \in B
      <4>1. shown'[a] = {m} BY <1>4, <3>1
      <4>2. posts'[a] # 0 BY <1>2, <1>4, <3>1
      <4> QED BY <4>1, <4>2
    <3>2. CASE a \notin B BY <1>4, <3>2 DEF DeliveryInv, OneHome
    <3> QED BY <3>1, <3>2
  <2> QED BY <2>1 DEF OneHome
<1>6. B \in (SUBSET {a \in Alert : alertNow[a] = "stored"}) \ {{}}
  <2>1. ASSUME NEW a \in B PROVE a \in Alert /\ alertNow[a] = "stored"
    <3>1. a \in Alert BY <1>1
    <3>2. AlertStatus(a) = "stored" BY <1>2 DEF AlertStatus
    <3> QED BY <3>1, <3>2 DEF alertNow
  <2> QED BY <1>1, <2>1
<1>7. homeNow' = [a \in Alert |-> IF a \in B THEN m ELSE homeNow[a]]
  <2>1. ASSUME NEW a \in Alert PROVE HomeOf(a)' = IF a \in B THEN m ELSE homeNow[a]
    <3>1. CASE a \in B
      <4>1. shown'[a] = {m} BY <1>4, <3>1
      <4> QED BY <3>1, <4>1 DEF HomeOf
    <3>2. CASE a \notin B
      <4>1. shown'[a] = shown[a] BY <1>4, <3>2
      <4> QED BY <3>2, <4>1 DEF HomeOf, homeNow
    <3> QED BY <3>1, <3>2
  <2> QED BY <2>1 DEF homeNow
<1>8. alertNow' = [a \in Alert |-> IF a \in B THEN "shown" ELSE alertNow[a]]
  <2>1. ASSUME NEW a \in Alert
        PROVE  AlertStatus(a)' = IF a \in B THEN "shown" ELSE alertNow[a]
    BY <1>2, <1>4 DEF AlertStatus, alertNow
  <2> QED BY <2>1 DEF alertNow
<1>9. ASSUME NEW a \in B, NEW b \in Alert, homeNow'[b] = m PROVE Fp[a] = Fp[b]
  <2>1. CASE b \in B BY <1>1, <2>1
  <2>2. CASE b \notin B
    <3>1. m # 0 BY ReactionsAssumption DEF Message
    <3>2. m \in shown[b] BY <1>7, <1>9, <2>2, <3>1 DEF homeNow, HomeOf
    <3> QED BY <3>2 DEF B
  <2> QED BY <2>1, <2>2
<1>10. Delivery!Show(m) BY <1>6, <1>7, <1>8, <1>9 DEF Delivery!Show
<1> QED BY <1>5, <1>10

LEMMA FlushAppendImplements ==
    ASSUME DeliveryInv, NEW f \in Flusher, FlushAppend(f) PROVE Implements
<1> DEFINE i == flush[f].id
           r == [flush[f] EXCEPT !.pc = "link"]
<1>1. IInv /\ flush[f] \in FlushRecord BY DEF DeliveryInv, IInv, InvOf, TypeOK, BatcherTypeOK
<1>2. /\ flush[f].pc = "append" /\ Shows(flush[f].batch, incidents[i].ts)
      /\ flush' = [flush EXCEPT ![f] = r]
      /\ UNCHANGED <<link, parents, incidents, stored, pending>>
  BY DEF FlushAppend, FlushUnchanged
<1>3. i \in DOMAIN incidents /\ \A a \in flush[f].batch : incidents[i].fp = Fp[a]
  BY <1>1, <1>2 DEF IInv, InvOf, FlushKnows
<1>4. r.pc = "link" /\ r.batch = flush[f].batch BY <1>1 DEF FlushRecord
<1> HIDE DEF r, i
<1>5. /\ incidents[i].ts \in Message /\ incidents[i].ts \in 1..parents
      /\ statusNow[incidents[i].ts] \in {"open", "paused", "resolved"}
  BY <1>1, <1>3, StatusOfRow DEF RowStatus, IInv, InvOf, OneIncidentPerMessage
<1>6. PICK m \in Message : m = incidents[i].ts BY <1>5
<1>7. Delivery!Show(m) /\ OneHome'
  BY <1>2, <1>3, <1>5, <1>6, ShowStep DEF DeliveryInv, OneAlarmPerMessage
<1>8. \A a \in Alert : shown'[a] = IF a \in flush[f].batch THEN shown[a] \cup {m} ELSE shown[a]
  BY <1>2, <1>6 DEF Shows
<1>9. \A g \in Flusher : flush'[g] = IF g = f THEN r ELSE flush[g]
  BY <1>1, <1>2 DEF IInv, InvOf, TypeOK, BatcherTypeOK
<1>10. LinkedIsDone'
  BY <1>2, <1>4, <1>9 DEF DeliveryInv, LinkedIsDone
<1>11. OneAlarmPerMessage'
  <2>1. ASSUME NEW a \in Alert, NEW j \in DOMAIN incidents', incidents'[j].ts \in shown'[a]
        PROVE  incidents'[j].fp = Fp[a]
    <3>1. CASE incidents[j].ts \in shown[a]
      BY <1>2, <2>1, <3>1 DEF DeliveryInv, OneAlarmPerMessage
    <3>2. CASE incidents[j].ts \notin shown[a]
      <4>1. a \in flush[f].batch /\ incidents[j].ts = incidents[i].ts
        BY <1>2, <1>6, <1>8, <2>1, <3>2
      <4>2. j = i BY <1>1, <1>2, <1>3, <2>1, <4>1 DEF IInv, InvOf, OneIncidentPerMessage
      <4> QED BY <1>2, <1>3, <4>1, <4>2
    <3> QED BY <3>1, <3>2
  <2>2. ASSUME NEW g \in Flusher, flush'[g].pc \in {"instruct", "create"}, NEW a \in Alert,
               flush'[g].ts \in shown'[a], NEW b \in flush'[g].batch
        PROVE  Fp[a] = Fp[b]
    <3>1. flush'[g] = flush[g] BY <1>4, <1>9, <2>2
    <3>2. flush[g].ts # m BY <1>1, <1>3, <1>6, <2>2, <3>1 DEF IInv, InvOf, FlushKnows
    <3>3. flush[g].ts \in shown[a] BY <1>8, <2>2, <3>1, <3>2
    <3> QED BY <2>2, <3>1, <3>3 DEF DeliveryInv, OneAlarmPerMessage
  <2> QED BY <2>1, <2>2 DEF OneAlarmPerMessage
<1>12. UNCHANGED statusNow BY <1>2, StatusUnchanged
<1>13. Delivery!ShowInThread(m) BY <1>5, <1>6, <1>7, <1>12 DEF Delivery!ShowInThread
<1> QED BY <1>7, <1>10, <1>11, <1>13 DEF Implements, Delivery!Next

LEMMA FlushPostImplements ==
    ASSUME DeliveryInv, NEW f \in Flusher, FlushPost(f) PROVE Implements
<1> DEFINE new == parents + 1
           r == [flush[f] EXCEPT !.pc = "instruct", !.ts = new]
<1>1. /\ IInv /\ flush[f] \in FlushRecord
      /\ parents \in Nat /\ MaxMessages \in Nat
  <2>1. IInv /\ flush[f] \in FlushRecord /\ parents \in 0..MaxMessages
    BY DEF DeliveryInv, IInv, InvOf, TypeOK, BatcherTypeOK, ReactionsTypeOK
  <2> QED BY <2>1, ReactionsAssumption
<1>2. /\ flush[f].pc = "post" /\ Shows(flush[f].batch, new)
      /\ flush' = [flush EXCEPT ![f] = r] /\ parents < MaxMessages /\ parents' = new
      /\ UNCHANGED <<link, incidents, stored, pending>>
  BY DEF FlushPost, FlushUnchanged
<1>3. /\ new \in Message /\ new \in 1..parents' /\ new \notin 1..parents
      /\ 1..parents \subseteq 1..parents' /\ new > parents
      /\ \A n \in Message : n # new => (n > parents' <=> n > parents)
  BY <1>1, <1>2 DEF Message
<1>4. r.pc = "instruct" /\ r.ts = new /\ r.batch = flush[f].batch
  <2> HIDE DEF new
  <2> QED BY <1>1 DEF FlushRecord
<1>5. ~(new > parents') BY <1>1, <1>2
<1> HIDE DEF r, new
<1>6. PICK m \in Message : m = new BY <1>3
<1>7. \A b \in Alert : m \notin shown[b]
  BY <1>3, <1>6 DEF DeliveryInv, OneHome
<1>8. Delivery!Show(m) /\ OneHome' BY <1>2, <1>3, <1>6, <1>7, ShowStep
<1>9. \A a \in Alert : shown'[a] = IF a \in flush[f].batch THEN shown[a] \cup {m} ELSE shown[a]
  BY <1>2, <1>6 DEF Shows
<1>10. \A g \in Flusher : flush'[g] = IF g = f THEN r ELSE flush[g]
  BY <1>1, <1>2 DEF IInv, InvOf, TypeOK, BatcherTypeOK
<1>11. LinkedIsDone'
  BY <1>2, <1>4, <1>10 DEF DeliveryInv, LinkedIsDone
<1>12. \A j \in DOMAIN incidents : incidents[j].ts # m
  BY <1>1, <1>3, <1>6 DEF IInv, InvOf, OneIncidentPerMessage
<1>13. OneAlarmPerMessage'
  <2>1. ASSUME NEW a \in Alert, NEW j \in DOMAIN incidents', incidents'[j].ts \in shown'[a]
        PROVE  incidents'[j].fp = Fp[a]
    <3>1. incidents'[j] = incidents[j] /\ j \in DOMAIN incidents BY <1>2
    <3>2. incidents[j].ts \in shown'[a] /\ incidents[j].ts # m BY <1>12, <2>1, <3>1
    <3>3. incidents[j].ts \in shown[a] BY <1>9, <3>2
    <3> QED BY <3>1, <3>3 DEF DeliveryInv, OneAlarmPerMessage
  <2>2. ASSUME NEW g \in Flusher, flush'[g].pc \in {"instruct", "create"}, NEW a \in Alert,
               flush'[g].ts \in shown'[a], NEW b \in flush'[g].batch
        PROVE  Fp[a] = Fp[b]
    <3>1. CASE g = f
      <4>1. flush'[g].ts = m /\ flush'[g].batch = flush[f].batch BY <1>4, <1>6, <1>10, <3>1
      <4>2. a \in flush[f].batch BY <1>7, <1>9, <2>2, <4>1
      <4> QED BY <1>1, <1>2, <2>2, <4>1, <4>2 DEF IInv, InvOf, OneAlarmPerBatch
    <3>2. CASE g # f
      <4>1. flush'[g] = flush[g] BY <1>10, <3>2
      <4>2. flush[g].ts # m BY <1>1, <1>3, <1>6, <2>2, <4>1 DEF IInv, InvOf, FlushKnows
      <4>3. flush[g].ts \in shown[a] BY <1>9, <2>2, <4>1, <4>2
      <4> QED BY <2>2, <4>1, <4>3 DEF DeliveryInv, OneAlarmPerMessage
    <3> QED BY <3>1, <3>2
  <2> QED BY <2>1, <2>2 DEF OneAlarmPerMessage
<1>14. statusNow[m] = "none" /\ statusNow' = [statusNow EXCEPT ![m] = "posted"]
  <2>1. \A n \in Message : RowsOf(n)' = RowsOf(n) BY <1>2 DEF RowsOf
  <2>2. RowsOf(m) = {} BY <1>12 DEF RowsOf
  <2>3. StatusOf(m) = "none" BY <1>3, <1>6 DEF StatusOf
  <2>4. StatusOf(m)' = "posted" BY <1>5, <1>6, <2>1, <2>2 DEF StatusOf
  <2>5. ASSUME NEW n \in Message, n # m PROVE StatusOf(n)' = StatusOf(n)
    BY <1>2, <1>3, <1>6, <2>1, <2>5 DEF StatusOf
  <2> QED BY <2>3, <2>4, <2>5 DEF statusNow
<1>15. Delivery!ShowInNewMessage(m) BY <1>8, <1>14 DEF Delivery!ShowInNewMessage
<1> QED BY <1>8, <1>11, <1>13, <1>15 DEF Implements, Delivery!Next

LEMMA FlushCreateImplements ==
    ASSUME DeliveryInv, NEW f \in Flusher, FlushCreate(f) PROVE Implements
<1> DEFINE n == Len(incidents) + 1
           row == NewRow(BatchFp(flush[f].batch), flush[f].ts, now + ReminderInterval)
           r == [flush[f] EXCEPT !.pc = "link", !.id = n]
<1>1. IInv /\ incidents \in Seq(Row) /\ flush[f] \in FlushRecord
  BY DEF DeliveryInv, IInv, InvOf, TypeOK, ReactionsTypeOK, BatcherTypeOK
<1>2. /\ flush[f].pc = "create"
      /\ incidents' = Append(incidents, row)
      /\ flush' = [flush EXCEPT ![f] = r]
      /\ UNCHANGED <<parents, link, shown, posts, stored, pending>>
  BY DEF FlushCreate, FlushUnchanged
<1>3. \A a \in flush[f].batch : a \in Alert /\ Fp[a] = BatchFp(flush[f].batch)
  BY <1>1, <1>2, BatchOfOneAlarm DEF IInv
<1>4. /\ row.fp = BatchFp(flush[f].batch) /\ row.ts = flush[f].ts
      /\ RowStatus(row) = "open"
  BY DEF NewRow, RowStatus
<1>5. r.pc = "link" /\ r.batch = flush[f].batch
  <2> HIDE DEF n
  <2> QED BY <1>1 DEF FlushRecord
<1> HIDE DEF row, r
<1>6. /\ DOMAIN incidents' = DOMAIN incidents \cup {n} /\ n \notin DOMAIN incidents
      /\ \A i \in DOMAIN incidents : incidents'[i] = incidents[i]
      /\ incidents'[n] = row
  <2>1. Len(incidents) \in Nat /\ DOMAIN incidents = 1..Len(incidents)
    BY <1>1, LenProperties
  <2>2. /\ DOMAIN incidents' = 1..n
        /\ \A i \in 1..Len(incidents) : incidents'[i] = incidents[i]
        /\ incidents'[n] = row
    BY <1>1, <1>2
  <2> QED BY <2>1, <2>2
<1> HIDE DEF n
<1>7. /\ flush[f].ts \in 1..parents /\ parents \in 0..MaxMessages /\ MaxMessages \in Nat
      /\ \A a \in flush[f].batch : flush[f].ts \in shown[a]
      /\ \A i \in DOMAIN incidents : incidents[i].ts # flush[f].ts
      /\ \A g \in Flusher :
           flush[g].pc \in {"instruct", "create"} /\ flush[g].ts = flush[f].ts => f = g
  BY <1>1, <1>2, ReactionsAssumption DEF IInv, InvOf, FlushKnows, TypeOK, ReactionsTypeOK
<1>8. flush[f].ts \in Message /\ ~(flush[f].ts > parents) BY <1>7 DEF Message
<1>9. PICK m \in Message : m = flush[f].ts BY <1>8
<1>10. \A g \in Flusher : flush'[g] = IF g = f THEN r ELSE flush[g]
  BY <1>1, <1>2 DEF IInv, InvOf, TypeOK, BatcherTypeOK
<1>11. OneHome' BY <1>2 DEF DeliveryInv, OneHome
<1>12. LinkedIsDone' BY <1>2, <1>5, <1>10 DEF DeliveryInv, LinkedIsDone
<1>13. OneAlarmPerMessage'
  <2>1. ASSUME NEW a \in Alert, NEW j \in DOMAIN incidents', incidents'[j].ts \in shown'[a]
        PROVE  incidents'[j].fp = Fp[a]
    <3>1. CASE j \in DOMAIN incidents
      BY <1>2, <1>6, <2>1, <3>1 DEF DeliveryInv, OneAlarmPerMessage
    <3>2. CASE j = n
      <4>1. PICK b \in flush[f].batch : TRUE BY <1>1, <1>2 DEF IInv, InvOf, OneAlarmPerBatch
      <4>2. flush[f].ts \in shown[a] BY <1>2, <1>4, <1>6, <2>1, <3>2
      <4>3. Fp[a] = Fp[b] BY <1>2, <4>2 DEF DeliveryInv, OneAlarmPerMessage
      <4> QED BY <1>3, <1>4, <1>6, <3>2, <4>1, <4>3
    <3> QED BY <1>6, <3>1, <3>2
  <2>2. ASSUME NEW g \in Flusher, flush'[g].pc \in {"instruct", "create"}, NEW a \in Alert,
               flush'[g].ts \in shown'[a], NEW b \in flush'[g].batch
        PROVE  Fp[a] = Fp[b]
    <3>1. flush'[g] = flush[g] BY <1>5, <1>10, <2>2
    <3> QED BY <1>2, <2>2, <3>1 DEF DeliveryInv, OneAlarmPerMessage
  <2> QED BY <2>1, <2>2 DEF OneAlarmPerMessage
<1>14. statusNow[m] = "posted" /\ statusNow' = [statusNow EXCEPT ![m] = "open"]
  <2>1. RowsOf(m) = {} /\ RowsOf(m)' = {n}
    BY <1>2, <1>4, <1>6, <1>7, <1>9 DEF RowsOf
  <2>2. StatusOf(m) = "posted" BY <1>8, <1>9, <2>1 DEF StatusOf
  <2>3. StatusOf(m)' = "open"
    <3>1. ~(m > parents') BY <1>2, <1>8, <1>9
    <3> QED BY <1>4, <1>6, <2>1, <3>1 DEF StatusOf, RowStatus
  <2>4. ASSUME NEW k \in Message, k # m PROVE StatusOf(k)' = StatusOf(k)
    <3>1. RowsOf(k)' = RowsOf(k) BY <1>4, <1>6, <1>9, <2>4 DEF RowsOf
    <3>2. \A j \in RowsOf(k) : incidents'[j] = incidents[j] BY <1>6 DEF RowsOf
    <3> QED BY <1>2, <3>1, <3>2 DEF StatusOf
  <2> QED BY <2>2, <2>3, <2>4 DEF statusNow
<1>15. Delivery!Track(m) BY <1>2, <1>14, AlertsUnchanged DEF Delivery!Track
<1> QED BY <1>11, <1>12, <1>13, <1>15 DEF Implements, Delivery!Next

LEMMA FlushLinkImplements ==
    ASSUME DeliveryInv, NEW f \in Flusher, FlushLink(f) PROVE Implements
<1> DEFINE i == flush[f].id
           S == flush[f].batch \cap stored
<1>1. IInv /\ flush[f] \in FlushRecord BY DEF DeliveryInv, IInv, InvOf, TypeOK, BatcherTypeOK
<1>2. /\ flush[f].pc = "link" /\ flush' = [flush EXCEPT ![f] = NoFlush]
      /\ \/ link' = [a \in Alert |-> IF a \in S THEN i ELSE link[a]]
         \/ link' = link
      /\ UNCHANGED <<parents, incidents, shown, posts, stored, pending>>
  BY DEF FlushLink, FlushUnchanged
<1>3. CASE link' = link BY <1>2, <1>3, NoFlushType, FlushQuiet
<1>4. CASE link' = [a \in Alert |-> IF a \in S THEN i ELSE link[a]]
  <2>1. /\ i \in DOMAIN incidents /\ i # NotFound
        /\ \A a \in flush[f].batch : incidents[i].ts \in shown[a]
    <3>1. DOMAIN incidents = 1..Len(incidents) /\ Len(incidents) \in Nat
      BY <1>1, LenProperties DEF IInv, InvOf, TypeOK, ReactionsTypeOK
    <3> QED BY <1>1, <1>2, <3>1 DEF IInv, InvOf, FlushKnows, NotFound
  <2>2. \A a \in S : /\ a \in Alert /\ a \in stored /\ link[a] = NotFound
                     /\ a \notin pending[Fp[a]]
                     /\ \A g \in Flusher : a \in flush[g].batch => g = f
    BY <1>1 DEF DeliveryInv, IInv, InvOf, OnePlace, LinkedIsDone, FlushRecord
  <2>3. \A g \in Flusher : flush'[g] = IF g = f THEN NoFlush ELSE flush[g]
    BY <1>1, <1>2 DEF IInv, InvOf, TypeOK, BatcherTypeOK
  <2> HIDE DEF i, S
  <2>4. OneHome' BY <1>2 DEF DeliveryInv, OneHome
  <2>5. LinkedIsDone'
    <3>1. ASSUME NEW a \in Alert, link'[a] # NotFound
          PROVE  /\ a \in stored' /\ a \notin pending'[Fp[a]]
                 /\ \A g \in Flusher : a \notin flush'[g].batch
      <4>1. CASE a \in S BY <1>2, <2>2, <2>3, <4>1, NoFlushType
      <4>2. CASE a \notin S
        BY <1>2, <1>4, <2>3, <3>1, <4>2, NoFlushType DEF DeliveryInv, LinkedIsDone
      <4> QED BY <4>1, <4>2
    <3> QED BY <3>1 DEF LinkedIsDone
  <2>6. OneAlarmPerMessage'
    BY <1>2, <2>3, NoFlushType DEF DeliveryInv, OneAlarmPerMessage
  <2>7. /\ S \in SUBSET {a \in Alert : alertNow[a] = "shown"}
        /\ \A a \in S : homeNow[a] = incidents[i].ts
    <3>1. \A a \in S : incidents[i].ts \in shown[a] BY <2>1 DEF S
    <3>2. \A a \in S : alertNow[a] = "shown" BY <2>2, <3>1 DEF alertNow, AlertStatus
    <3>3. ASSUME NEW a \in S PROVE homeNow[a] = incidents[i].ts
      <4>1. shown[a] = {incidents[i].ts}
        BY <2>2, <3>1, <3>3 DEF DeliveryInv, OneHome
      <4> QED BY <2>2, <3>3, <4>1 DEF homeNow, HomeOf
    <3> QED BY <2>2, <3>2, <3>3
  <2>8. alertNow' = [a \in Alert |-> IF a \in S THEN "linked" ELSE alertNow[a]]
    <3>1. ASSUME NEW a \in Alert
          PROVE  AlertStatus(a)' = IF a \in S THEN "linked" ELSE alertNow[a]
      <4>1. CASE a \in S
        <5>1. shown[a] # {} BY <2>1, <4>1 DEF S
        <5> QED BY <1>2, <1>4, <2>1, <2>2, <4>1, <5>1 DEF AlertStatus
      <4>2. CASE a \notin S BY <1>2, <1>4, <4>2 DEF AlertStatus, alertNow
      <4> QED BY <4>1, <4>2
    <3> QED BY <3>1 DEF alertNow
  <2>9. statusNow[incidents[i].ts] \in {"open", "paused", "resolved"}
    BY <1>1, <2>1, StatusOfRow DEF RowStatus
  <2>10. UNCHANGED <<homeNow, statusNow>>
    BY <1>2, StatusUnchanged DEF homeNow, HomeOf
  <2>11. Delivery!Link BY <2>7, <2>8, <2>9, <2>10 DEF Delivery!Link
  <2> QED BY <2>4, <2>5, <2>6, <2>11 DEF Implements, Delivery!Next
<1> QED BY <1>2, <1>3, <1>4

LEMMA CrashImplements == ASSUME DeliveryInv, Crash PROVE Implements
<1>1. /\ UNCHANGED <<shown, link, posts, parents, incidents, stored>>
      /\ pending' = [k \in Fingerprint |-> {}] /\ flush' = [g \in Flusher |-> NoFlush]
  BY DEF Crash, ReactionsCrash
<1>2. \A a \in stored : a \notin pending'[Fp[a]]
  BY <1>1, BatcherAssumption DEF DeliveryInv, IInv, InvOf, TypeOK, BatcherTypeOK
<1>3. \A g \in Flusher : flush'[g].batch = {} /\ flush'[g].pc = "idle" BY <1>1, NoFlushType
<1> QED BY <1>1, <1>2, <1>3, QuietImplements

LEMMA RestImplements ==
    ASSUME DeliveryInv,
           UNCHANGED <<reactionVars, stored, link, pending, flush, shown, posts, crashes>>
    PROVE  Implements
<1>1. UNCHANGED <<incidents, parents>> BY DEF reactionVars
<1> QED BY <1>1, QuietImplements

LEMMA StepImplements == ASSUME DeliveryInv, [Next]_vars PROVE Implements
<1>1. ASSUME NEW a \in Alert, StoreAndEnqueue(a) PROVE Implements BY <1>1, StoreImplements
<1>2. ASSUME NEW f \in Flusher, NEW k \in Fingerprint, FlushTake(f, k) PROVE Implements
  BY <1>2, FlushTakeImplements
<1>3. ASSUME NEW f \in Flusher, FlushStep(f) PROVE Implements
  BY <1>3, FlushFindImplements, FlushFailsImplements, FlushAppendImplements,
     FlushPostImplements, FlushInstructImplements, FlushCreateImplements, FlushLinkImplements
     DEF FlushStep
<1>4. ASSUME NEW k \in Fingerprint, FlushNothing(k) PROVE Implements
  BY <1>4, RestImplements DEF FlushNothing
<1>5. CASE CloseStopCh \/ ReadStopKeys \/ StopReturns
  BY <1>5, RestImplements DEF CloseStopCh, ReadStopKeys, StopReturns
<1>6. CASE Crash BY <1>6, CrashImplements
<1>7. CASE ReactionsNext /\ UNCHANGED batcherVars BY <1>7, ReactionsImplement
<1>8. CASE UNCHANGED vars BY <1>8, RestImplements DEF vars, batcherVars
<1> QED BY <1>1, <1>2, <1>3, <1>4, <1>5, <1>6, <1>7, <1>8 DEF Next, BatcherNext, AtRest

LEMMA InitImplements == ASSUME Init PROVE DeliveryInv /\ Delivery!Init
<1>1. IInv BY InitInv
<1> USE DEF Init, ReactionsInit, BatcherInit
<1>2. OneHome /\ LinkedIsDone /\ OneAlarmPerMessage
  BY NoFlushType DEF OneHome, LinkedIsDone, OneAlarmPerMessage
<1>3. alertNow = [a \in Alert |-> "new"] BY DEF alertNow, AlertStatus
<1>4. homeNow = [a \in Alert |-> 0] BY DEF homeNow, HomeOf
<1>5. statusNow = [m \in Message |-> "none"]
  <2>1. \A m \in Message : m > 0 BY ReactionsAssumption DEF Message
  <2> QED BY <2>1 DEF statusNow, StatusOf
<1> QED BY <1>1, <1>2, <1>3, <1>4, <1>5 DEF DeliveryInv, Delivery!Init

LEMMA DeliveryStep ==
    ASSUME DeliveryInv, [Next]_vars PROVE DeliveryInv' /\ [Delivery!Next]_Delivery!vars
  BY NextInv, StepImplements DEF DeliveryInv, Implements, Stutters, Delivery!vars

(* The batcher, the reaction handlers and the reminder worker implement     *)
(* AlarmDelivery: whatever flushes, reactions, reminders, failed calls and  *)
(* restarts do, each of their steps is seen in the channel as one of the    *)
(* steps people may expect, or not at all (slack_batcher.go:65-197,         *)
(* slack_events.go:114-230).                                                *)
THEOREM DeliveryImplemented == Spec => ImplementsDelivery
  BY InitImplements, DeliveryStep, PTL DEF Spec, ImplementsDelivery, Delivery!Spec
-----------------------------------------------------------------------------
(***************************************************************************)
(* SyslogPipeline                                                          *)
(***************************************************************************)

Nowhere(a) == a \notin pending[Fp[a]] /\ \A f \in Flusher : a \notin flush[f].batch

Rounds == [whole : BOOLEAN, first : Nat, last : Nat]

PollerTypes ==
    /\ indexed \in SUBSET Doc
    /\ enabled \in SUBSET Filter /\ deleted \in SUBSET Filter
    /\ owner \in [Alert -> Filter \cup {NoFilter}]
    /\ created \in [Alert -> Nat] /\ used \in SUBSET Alert
    /\ poller \in PollerRecord
    /\ rounds \in Rounds /\ quit \in BOOLEAN
    /\ edits \in 0..MaxEdits

(* What the poller knows between two calls: the row it is about to enqueue  *)
(* has not been anywhere; the document it is about to store repeats no      *)
(* stored alarm, since nothing but the poller stores one; and the batcher   *)
(* is not being stopped.                                                    *)
PollerKnows ==
    /\ \A a \in poller.row : a \in used /\ posts[a] = 0 /\ Nowhere(a)
    /\ poller.pc = "insert" => \A d \in poller.doc : ~DedupExists(d)
    /\ poller.pc \in {"hit", "insert", "enqueue"} => poller.filter \in Filter
    /\ poller.pc # "enqueue" => poller.row = {}
    /\ main # "run" => poller.pc = "ended"

PInv ==
    /\ PollerTypes
    /\ InvOf(used)
    /\ stored \subseteq used
    /\ PollerKnows
    /\ \A a \in stored : owner[a] # NoFilter
    /\ DedupSpacing

(* Where a stored alert is until Slack shows it, if no call fails.          *)
Covered(a) ==
    shown[a] # {} \/ a \in pending[Fp[a]] \/ \E f \in Flusher : a \in flush[f].batch

(* Stop flushes every key that has something pending, and then none has;    *)
(* and the poller has at most one row in hand.                              *)
StopInv ==
    /\ main = "flushing" => \A k \in Fingerprint : pending[k] # {} => k \in stopKeys
    /\ main = "stopped" => \A k \in Fingerprint : pending[k] = {}
    /\ \A a, b \in poller.row : a = b

NothingLost ==
    faults = 0 /\ crashes = 0 => \A a \in stored : Covered(a) \/ a \in poller.row

(* Every document is found by a filter, and no window holds more of a       *)
(* filter's documents than a search returns.                                *)
InWindow(f, t) == {d \in Matches[f] : LogTime[d] \in t - PollWindow .. t + SearchAhead}

SearchesComplete ==
    /\ \A d \in Doc : \E f \in Filter : d \in Matches[f]
    /\ \A f \in Filter, t \in Nat :
         IsFiniteSet(InWindow(f, t)) /\ Cardinality(InWindow(f, t)) <= HitLimit

(* A stored alert makes d a repeat.                                         *)
Seen(d) == \E a \in used : Fp[a] = DocFp[d] /\ LogTime[DocOf[a]] + DedupWindow >= LogTime[d]

(* The tick under way has yet to search for d or to handle the hit d.       *)
WillSee(d) ==
    \/ /\ poller.pc \notin {"idle", "ended"}
       /\ \E f \in poller.filters : d \in Matches[f]
    \/ poller.pc \in {"hit", "insert", "enqueue"} /\ d \in poller.hits
    \/ poller.pc = "insert" /\ d \in poller.doc

(* No whole tick started after d became searchable; and one that is under   *)
(* way, if it did and d is in its window, will see d.                       *)
Due(d) ==
    /\ rounds.last <= LogTime[d] + IndexLag
    /\ rounds.whole /\ poller.at <= LogTime[d] + PollWindow =>
           poller.at <= LogTime[d] + IndexLag \/ WillSee(d)

InSight(d) == Seen(d) \/ Due(d)

(* The overlapping ticks up to the last whole one reach back to d.          *)
InReach(d) == rounds.first <= LogTime[d] + PollWindow

SearchInv ==
    /\ edits = 0 => enabled = Filter
    /\ rounds.first <= rounds.last /\ rounds.last <= now /\ poller.at <= now
    /\ rounds.whole => rounds.last <= poller.at
    /\ \A d, e \in poller.doc : d = e
    /\ edits = 0 => \A d \in indexed : InReach(d) => InSight(d)

-----------------------------------------------------------------------------
(* The batcher behind the poller                                            *)

(* A step of a flush that keeps its batch or ends, or shows its batch.      *)
Moves ==
    /\ UNCHANGED <<stored, now, crashes>>
    /\ main' # "run" => main # "run"
    /\ faults <= faults'
    /\ \A a \in Alert : Nowhere(a) => Nowhere(a)' /\ posts'[a] = posts[a]
    /\ faults' = 0 => \A a \in Alert : Covered(a) => Covered(a)'

LEMMA FaultsGrow ==
    ASSUME NEW S, InvOf(S), Succeeds \/ Fails PROVE faults \in Nat /\ faults <= faults'
<1>1. faults \in 0..MaxFaults BY DEF InvOf, TypeOK, ReactionsTypeOK
<1> QED BY <1>1, ReactionsAssumption DEF Succeeds, Fails

LEMMA FlushMoves ==
    ASSUME NEW S, InvOf(S), NEW f \in Flusher, NEW r, flush' = [flush EXCEPT ![f] = r],
           r.batch = flush[f].batch \/ r.batch = {},
           UNCHANGED <<stored, now, main, crashes, pending>>, Succeeds \/ Fails,
           \A a \in Alert : a \notin flush[f].batch => posts'[a] = posts[a],
           \A a \in Alert : shown[a] \subseteq shown'[a],
           faults' = 0 /\ r.batch = {} => \A a \in flush[f].batch : shown[a] # {}
    PROVE  Moves
<1>1. \A g \in Flusher : flush'[g] = IF g = f THEN r ELSE flush[g]
  BY DEF InvOf, TypeOK, BatcherTypeOK
<1>2. faults <= faults' BY FaultsGrow
<1>3. ASSUME NEW a \in Alert, Nowhere(a) PROVE Nowhere(a)' /\ posts'[a] = posts[a]
  BY <1>1, <1>3 DEF Nowhere
<1>4. ASSUME NEW a \in Alert, Covered(a), faults' = 0 PROVE Covered(a)'
  <2>1. CASE shown[a] # {} BY <2>1 DEF Covered
  <2>2. CASE a \in pending[Fp[a]] BY <2>2 DEF Covered
  <2>3. ASSUME NEW g \in Flusher, a \in flush[g].batch PROVE Covered(a)'
    <3>1. CASE flush'[g].batch = flush[g].batch BY <2>3, <3>1 DEF Covered
    <3>2. CASE flush'[g].batch # flush[g].batch
      <4>1. shown[a] # {} BY <1>1, <1>4, <2>3, <3>2
      <4> QED BY <4>1 DEF Covered
    <3> QED BY <3>1, <3>2
  <2> QED BY <1>4, <2>1, <2>2, <2>3 DEF Covered
<1> QED BY <1>2, <1>3, <1>4 DEF Moves

LEMMA TakeMoves ==
    ASSUME NEW S, InvOf(S), NEW f \in Flusher, NEW k \in Fingerprint, FlushTake(f, k)
    PROVE  Moves
<1> DEFINE r == [NoFlush EXCEPT !.pc = "find", !.batch = pending[k]]
<1>1. /\ flush' = [flush EXCEPT ![f] = r] /\ pending' = [pending EXCEPT ![k] = {}]
      /\ flush[f].pc = "idle"
      /\ UNCHANGED <<stored, now, main, crashes, posts, shown, faults>>
  BY DEF FlushTake, reactionVars
<1>2. r.batch = pending[k] BY DEF NoFlush
<1> HIDE DEF r
<1>3. /\ \A g \in Flusher : flush'[g] = IF g = f THEN r ELSE flush[g]
      /\ \A j \in Fingerprint : pending'[j] = IF j = k THEN {} ELSE pending[j]
  BY <1>1 DEF InvOf, TypeOK, BatcherTypeOK
<1>4. faults \in Nat
  <2>1. faults \in 0..MaxFaults BY DEF InvOf, TypeOK, ReactionsTypeOK
  <2> QED BY <2>1, ReactionsAssumption
<1>5. \A a \in Alert : Fp[a] \in Fingerprint BY BatcherAssumption
<1>6. \A a \in Alert : a \in pending[k] => Fp[a] = k BY DEF InvOf, OnePlace
<1>7. ASSUME NEW a \in Alert, Nowhere(a) PROVE Nowhere(a)' /\ posts'[a] = posts[a]
  <2>1. a \notin pending[k] BY <1>6, <1>7 DEF Nowhere
  <2> QED BY <1>1, <1>2, <1>3, <1>5, <1>7, <2>1 DEF Nowhere
<1>8. ASSUME NEW a \in Alert, Covered(a), faults' = 0 PROVE Covered(a)'
  <2>1. CASE shown[a] # {} BY <1>1, <2>1 DEF Covered
  <2>2. CASE a \in pending[Fp[a]]
    <3>1. a \in flush'[f].batch \/ a \in pending'[Fp[a]] BY <1>2, <1>3, <1>5, <2>2
    <3> QED BY <3>1 DEF Covered
  <2>3. ASSUME NEW g \in Flusher, a \in flush[g].batch PROVE Covered(a)'
    <3>1. CASE g # f BY <1>3, <2>3, <3>1 DEF Covered
    <3>2. g # f BY <1>1, <2>3 DEF InvOf, OneAlarmPerBatch
    <3> QED BY <3>1, <3>2
  <2> QED BY <1>8, <2>1, <2>2, <2>3 DEF Covered
<1> QED BY <1>1, <1>4, <1>7, <1>8 DEF Moves

LEMMA FlushStepMoves ==
    ASSUME NEW S, InvOf(S), NEW f \in Flusher, FlushStep(f) PROVE Moves
<1>1. /\ flush[f] \in FlushRecord /\ flush[f].batch \subseteq Alert
      /\ flush[f].pc = "link" => \A a \in flush[f].batch : shown[a] # {}
  BY DEF InvOf, TypeOK, BatcherTypeOK, FlushKnows, FlushRecord
<1>2. CASE FlushFind(f)
  <2> DEFINE id == FindOpen(incidents, BatchFp(flush[f].batch))
             pc == IF id = NotFound THEN "post" ELSE "append"
             r == [flush[f] EXCEPT !.pc = pc, !.id = id]
  <2>1. /\ flush' = [flush EXCEPT ![f] = r] /\ UNCHANGED faults
        /\ UNCHANGED <<stored, now, main, crashes, pending, posts, shown>>
    BY <1>2 DEF FlushFind, FlushUnchanged, reactionVars
  <2>2. r.batch = flush[f].batch
    <3> HIDE DEF pc, id
    <3> QED BY <1>1 DEF FlushRecord
  <2>3. flush[f].batch # {} BY <1>2 DEF FlushFind, InvOf, OneAlarmPerBatch
  <2> HIDE DEF r
  <2> QED BY <2>1, <2>2, <2>3, FlushMoves DEF Succeeds
<1>3. CASE FlushFails(f)
  <2>1. /\ flush' = [flush EXCEPT ![f] = NoFlush] /\ Fails
        /\ UNCHANGED <<stored, now, main, crashes, pending, posts, shown>>
    BY <1>3 DEF FlushFails, FlushUnchanged, SlackUnchanged
  <2>2. faults' # 0
    <3>1. faults \in Nat BY <2>1, FaultsGrow
    <3> QED BY <2>1, <3>1 DEF Fails
  <2> QED BY <2>1, <2>2, NoFlushType, FlushMoves
<1>4. CASE FlushAppend(f) \/ FlushPost(f)
  <2>1. PICK r : flush' = [flush EXCEPT ![f] = r] /\ r.batch = flush[f].batch
    <3>1. CASE FlushAppend(f)
      <4> DEFINE r == [flush[f] EXCEPT !.pc = "link"]
      <4>1. r.batch = flush[f].batch BY <1>1 DEF FlushRecord
      <4> QED BY <3>1, <4>1 DEF FlushAppend
    <3>2. CASE FlushPost(f)
      <4> DEFINE ts == parents + 1
                 r == [flush[f] EXCEPT !.pc = "instruct", !.ts = ts]
      <4>1. r.batch = flush[f].batch
        <5> HIDE DEF ts
        <5> QED BY <1>1 DEF FlushRecord
      <4> QED BY <3>2, <4>1 DEF FlushPost
    <3> QED BY <1>4, <3>1, <3>2
  <2>2. PICK m : Shows(flush[f].batch, m) BY <1>4 DEF FlushAppend, FlushPost
  <2>3. /\ Succeeds /\ flush[f].pc # "idle"
        /\ UNCHANGED <<stored, now, main, crashes, pending>>
    BY <1>4 DEF FlushAppend, FlushPost, FlushUnchanged, SlackUnchanged
  <2>4. flush[f].batch # {} BY <2>3 DEF InvOf, OneAlarmPerBatch
  <2>5. \A a \in Alert : /\ a \notin flush[f].batch => posts'[a] = posts[a]
                         /\ shown[a] \subseteq shown'[a]
    BY <2>2 DEF Shows
  <2> QED BY <2>1, <2>3, <2>4, <2>5, FlushMoves
<1>5. CASE FlushInstruct(f) \/ FlushCreate(f)
  <2>1. PICK r : flush' = [flush EXCEPT ![f] = r] /\ r.batch = flush[f].batch
    <3>1. CASE FlushInstruct(f)
      <4> DEFINE r == [flush[f] EXCEPT !.pc = "create"]
      <4>1. r.batch = flush[f].batch BY <1>1 DEF FlushRecord
      <4> QED BY <3>1, <4>1 DEF FlushInstruct
    <3>2. CASE FlushCreate(f)
      <4> DEFINE n == Len(incidents) + 1
                 r == [flush[f] EXCEPT !.pc = "link", !.id = n]
      <4>1. r.batch = flush[f].batch
        <5> HIDE DEF n
        <5> QED BY <1>1 DEF FlushRecord
      <4> QED BY <3>2, <4>1 DEF FlushCreate
    <3> QED BY <1>5, <3>1, <3>2
  <2>2. /\ Succeeds \/ Fails
        /\ flush[f].pc # "idle"
        /\ UNCHANGED <<stored, now, main, crashes, pending, posts, shown>>
    BY <1>5 DEF FlushInstruct, FlushCreate, FlushUnchanged, SlackUnchanged
  <2>3. flush[f].batch # {} BY <2>2 DEF InvOf, OneAlarmPerBatch
  <2> QED BY <2>1, <2>2, <2>3, FlushMoves
<1>6. CASE FlushLink(f)
  <2>1. /\ flush' = [flush EXCEPT ![f] = NoFlush] /\ flush[f].pc = "link"
        /\ Succeeds \/ Fails
        /\ UNCHANGED <<stored, now, main, crashes, pending, posts, shown>>
    BY <1>6 DEF FlushLink, FlushUnchanged, SlackUnchanged
  <2> QED BY <1>1, <2>1, NoFlushType, FlushMoves
<1> QED BY <1>2, <1>3, <1>4, <1>5, <1>6 DEF FlushStep

(* Steps of Stop.                                                           *)
LEMMA RestMoves ==
    ASSUME NEW S, InvOf(S),
           UNCHANGED <<stored, now, crashes, faults, pending, flush, posts, shown>>,
           main' # "run" => main # "run"
    PROVE  Moves
<1>1. faults \in Nat
  <2>1. faults \in 0..MaxFaults BY DEF InvOf, TypeOK, ReactionsTypeOK
  <2> QED BY <2>1, ReactionsAssumption
<1> QED BY <1>1 DEF Moves, Nowhere, Covered

LEMMA BatcherMoves == ASSUME NEW S, InvOf(S), BatcherStep PROVE InvOf(S)' /\ Moves
<1>1. ASSUME NEW f \in Flusher, NEW k \in Fingerprint, FlushTake(f, k)
      PROVE  InvOf(S)' /\ Moves
  BY <1>1, FlushTakeStep, TakeMoves
<1>2. ASSUME NEW f \in Flusher, FlushStep(f) PROVE InvOf(S)' /\ Moves
  BY <1>2, FlushStepStep, FlushStepMoves
<1>3. ASSUME \/ \E k \in Fingerprint : FlushNothing(k)
             \/ ReadStopKeys \/ StopReturns
      PROVE  InvOf(S)' /\ Moves
  <2>1. /\ UNCHANGED <<stored, now, crashes, faults, pending, flush, posts, shown>>
        /\ main' # "run" => main # "run"
    BY <1>3 DEF FlushNothing, ReadStopKeys, StopReturns, reactionVars
  <2> QED BY <1>3, <2>1, MainSteps, RestMoves
<1> QED BY <1>1, <1>2, <1>3 DEF BatcherStep

-----------------------------------------------------------------------------
(* The poller: types, what it knows, and the spacing of stored alerts       *)

(* A step that leaves the batcher's memory, Slack and the incidents alone.  *)
LEMMA AsideStep ==
    ASSUME NEW S, InvOf(S), stored' \in SUBSET Alert, faults' \in 0..MaxFaults,
           now' \in 0..MaxTime,
           UNCHANGED <<incidents, parents, thread, closed, hourglass, events, seen, reminder,
                       link, pending, flush, main, stopKeys, shown, posts, crashes>>
    PROVE  InvOf(S)'
<1>1. TypeOK' BY DEF InvOf, TypeOK, ReactionsTypeOK, BatcherTypeOK
<1>2. KeptIdsExist' BY DEF InvOf, KeptIdsExist
<1>3. OnePlace(S)' /\ OneAlarmPerBatch' /\ FlushKnows'
  BY DEF InvOf, OnePlace, OneAlarmPerBatch, FlushKnows
<1>4. ShownAtMostOnce' /\ LinkedWhereShown' /\ OneIncidentPerMessage'
  BY DEF InvOf, ShownAtMostOnce, LinkedWhereShown, OneIncidentPerMessage
<1> QED BY <1>1, <1>2, <1>3, <1>4 DEF InvOf

(* The poller does nothing, or leaves the idle state for good.              *)
LEMMA KnowsKept ==
    ASSUME PInv, UNCHANGED <<used, poller>>, stored' \subseteq stored,
           main' # "run" => main # "run" \/ poller.pc = "ended",
           \A a \in Alert : Nowhere(a) => Nowhere(a)' /\ posts'[a] = posts[a]
    PROVE  PollerKnows'
<1>1. poller.row \subseteq Alert BY DEF PInv, PollerTypes, PollerRecord
<1>2. \A d \in Doc : DedupExists(d)' => DedupExists(d) BY DEF DedupExists
<1>3. poller.doc \subseteq Doc BY DEF PInv, PollerTypes, PollerRecord
<1>4. poller.pc = "insert" => \A d \in poller.doc : ~DedupExists(d)'
  BY <1>2, <1>3 DEF PInv, PollerKnows
<1> QED BY <1>1, <1>4 DEF PInv, PollerKnows

(* A step that stores nothing.                                              *)
LEMMA NothingStored ==
    ASSUME PInv, NEW S, S = used, InvOf(S)', UNCHANGED <<used, owner>>, stored' \subseteq stored,
           PollerTypes', PollerKnows'
    PROVE  PInv'
<1>1. DedupSpacing' BY DEF PInv, DedupSpacing
<1>2. stored' \subseteq used' /\ \A a \in stored' : owner'[a] # NoFilter BY DEF PInv
<1> QED BY <1>1, <1>2 DEF PInv

(* A step of the poller before and after which it has no row in hand, and   *)
(* that stores nothing, though the retention may delete.                    *)
LEMMA PollerGoesOn ==
    ASSUME PInv, PollUnchanged, UNCHANGED <<link, pending, owner, created, used>>,
           rounds' \in Rounds, Succeeds \/ Fails, stored' \subseteq stored,
           poller' \in PollerRecord,
           poller' = poller \/ (main = "run" /\ poller'.row = {}),
           poller'.pc = "insert" => \A d \in poller'.doc : ~DedupExists(d),
           poller'.pc \in {"hit", "insert", "enqueue"} => poller'.filter \in Filter
    PROVE  PInv'
<1>1. PICK S : S = used OBVIOUS
<1>2. InvOf(S) /\ TypeOK BY <1>1 DEF PInv, InvOf
<1>3. faults' \in 0..MaxFaults BY <1>2, FaultsType DEF TypeOK
<1>4. stored' \in SUBSET Alert /\ now \in 0..MaxTime
  BY <1>2 DEF TypeOK, BatcherTypeOK, ReactionsTypeOK
<1>5. InvOf(S)' BY <1>2, <1>3, <1>4, AsideStep DEF PollUnchanged
<1>6. PollerTypes' BY DEF PInv, PollerTypes, PollUnchanged
<1>7. PollerKnows'
  <2>1. \A d \in Doc : DedupExists(d)' => DedupExists(d) BY DEF DedupExists
  <2>2. poller'.doc \subseteq Doc BY DEF PollerRecord
  <2>3. \A a \in Alert : Nowhere(a)' = Nowhere(a) BY DEF Nowhere, PollUnchanged
  <2>4. poller.row \subseteq Alert BY DEF PInv, PollerTypes, PollerRecord
  <2>5. \A a \in poller'.row : a \in used' /\ posts'[a] = 0 /\ Nowhere(a)'
    BY <2>3, <2>4 DEF PInv, PollerKnows, PollUnchanged
  <2>6. main' # "run" => poller'.pc = "ended" BY DEF PInv, PollerKnows, PollUnchanged
  <2>7. poller'.pc # "enqueue" => poller'.row = {} BY DEF PInv, PollerKnows
  <2> QED BY <2>1, <2>2, <2>5, <2>6, <2>7 DEF PollerKnows
<1> QED BY <1>1, <1>5, <1>6, <1>7, NothingStored

LEMMA IdleType ==
    /\ PollerIdle \in PollerRecord /\ PollerIdle.row = {} /\ PollerIdle.pc = "idle"
  BY DEF PollerIdle, PollerRecord

(* The poller works only while the program runs.                            *)
LEMMA AtWork ==
    ASSUME PInv, poller.pc # "ended" PROVE main = "run"
  BY DEF PInv, PollerKnows

LEMMA RoundGoesOn ==
    ASSUME PInv, UNCHANGED rounds \/ Broken
    PROVE  rounds \in Rounds /\ rounds' \in Rounds
  BY DEF PInv, PollerTypes, Rounds, Broken

LEMMA PollStartStep == ASSUME PInv, PollStart PROVE PInv'
<1> DEFINE r == [PollerIdle EXCEPT !.pc = "search", !.at = now, !.filters = enabled]
<1>1. now \in 0..MaxTime /\ enabled \in SUBSET Filter /\ poller \in PollerRecord
  BY DEF PInv, InvOf, TypeOK, ReactionsTypeOK, PollerTypes
<1>2. now \in Nat BY <1>1, ReactionsAssumption
<1>3. r \in PollerRecord /\ r.pc = "search" /\ r.row = {}
  BY <1>1, <1>2 DEF PollerRecord, PollerIdle
<1>4. /\ poller.pc = "idle" /\ stored' \subseteq stored
      /\ poller' = poller \/ poller' = r
      /\ Succeeds \/ Fails
      /\ PollUnchanged /\ UNCHANGED <<link, pending, owner, created, used>>
  BY DEF PollStart, MaybeRetention
<1>5. rounds' \in Rounds
  <2>1. rounds' = rounds \/ rounds' = [rounds EXCEPT !.whole = TRUE] BY DEF PollStart
  <2>2. rounds \in Rounds BY DEF PInv, PollerTypes
  <2> QED BY <2>1, <2>2 DEF Rounds
<1> HIDE DEF r
<1> QED BY <1>1, <1>3, <1>4, <1>5, AtWork, PollerGoesOn

LEMMA PollSearchStep == ASSUME PInv, NEW f \in Filter, PollSearch(f) PROVE PInv'
<1>1. /\ poller \in PollerRecord /\ indexed \subseteq Doc /\ poller.pc = "search"
  BY DEF PInv, PollerTypes, PollSearch
<1>2. PICK S \in SUBSET Doc :
         \/ poller' = [poller EXCEPT !.pc = "hit", !.filters = @ \ {f}, !.filter = f, !.hits = S]
         \/ poller' = [poller EXCEPT !.filters = @ \ {f}]
  <2>1. \A S \in Hits(f, poller.at) : S \in SUBSET Doc BY <1>1 DEF Hits
  <2> QED BY <2>1 DEF PollSearch
<1> DEFINE F == poller.filters \ {f}
           r == [poller EXCEPT !.pc = "hit", !.filters = F, !.filter = f, !.hits = S]
           q == [poller EXCEPT !.filters = F]
<1>3. poller' = r \/ poller' = q BY <1>2
<1>4. F \in SUBSET Filter BY <1>1 DEF PollerRecord
<1> HIDE DEF F
<1>5. /\ r \in PollerRecord /\ r.pc = "hit" /\ r.filter = f /\ r.row = {}
      /\ q \in PollerRecord /\ q.pc = "search" /\ q.row = {}
  <2>1. poller.row = {} BY <1>1 DEF PInv, PollerKnows
  <2> QED BY <1>1, <1>4, <2>1 DEF PollerRecord
<1> HIDE DEF r, q
<1>6. /\ Succeeds \/ Fails
      /\ PollUnchanged /\ UNCHANGED <<stored, link, pending, owner, created, used>>
      /\ UNCHANGED rounds \/ Broken
  BY DEF PollSearch
<1> QED BY <1>1, <1>3, <1>5, <1>6, RoundGoesOn, AtWork, PollerGoesOn

LEMMA PollHitStep == ASSUME PInv, NEW d \in Doc, PollHit(d) PROVE PInv'
<1> DEFINE H == poller.hits \ {d}
           r == [poller EXCEPT !.hits = H]
           q == [poller EXCEPT !.pc = "insert", !.hits = H, !.doc = {d}]
<1>1. /\ poller \in PollerRecord /\ poller.pc = "hit" /\ poller.row = {}
      /\ poller.filter \in Filter
  BY DEF PInv, PollerTypes, PollerKnows, PollHit
<1>2. \/ poller' = r
      \/ poller' = q /\ ~DedupExists(d)
  BY DEF PollHit
<1>3. H \in SUBSET Doc BY <1>1 DEF PollerRecord
<1> HIDE DEF H
<1>4. /\ r \in PollerRecord /\ r.pc = "hit" /\ r.row = {} /\ r.filter = poller.filter
      /\ q \in PollerRecord /\ q.doc = {d} /\ q.row = {} /\ q.filter = poller.filter
  BY <1>1, <1>3 DEF PollerRecord
<1> HIDE DEF r, q
<1>5. /\ Succeeds \/ Fails
      /\ PollUnchanged /\ UNCHANGED <<stored, link, pending, owner, created, used>>
      /\ UNCHANGED rounds \/ Broken
  BY DEF PollHit
<1> QED BY <1>1, <1>2, <1>4, <1>5, RoundGoesOn, AtWork, PollerGoesOn

LEMMA PollNextFilterStep == ASSUME PInv, PollNextFilter PROVE PInv'
<1> DEFINE r == [poller EXCEPT !.pc = "search", !.filter = NoFilter]
<1>1. poller \in PollerRecord /\ poller.pc = "hit" /\ poller.row = {} /\ rounds \in Rounds
  BY DEF PInv, PollerTypes, PollerKnows, PollNextFilter
<1>2. r \in PollerRecord /\ r.pc = "search" /\ r.row = {}
  BY <1>1 DEF PollerRecord
<1>3. /\ poller' = r /\ Succeeds
      /\ PollUnchanged /\ UNCHANGED <<stored, link, pending, owner, created, used, rounds>>
  BY DEF PollNextFilter
<1> HIDE DEF r
<1> QED BY <1>1, <1>2, <1>3, AtWork, PollerGoesOn

LEMMA PollDoneStep == ASSUME PInv, PollDone PROVE PInv'
<1>1. poller.pc = "search" /\ rounds' \in Rounds
  BY DEF PInv, PollerTypes, PollDone, PollerRecord, Rounds
<1>2. /\ poller' = PollerIdle /\ Succeeds
      /\ PollUnchanged /\ UNCHANGED <<stored, link, pending, owner, created, used>>
  BY DEF PollDone
<1> QED BY <1>1, <1>2, IdleType, AtWork, PollerGoesOn

LEMMA PollEnqueueStep == ASSUME PInv, NEW a \in Alert, PollEnqueue(a) PROVE PInv'
<1> DEFINE r == [poller EXCEPT !.pc = "hit", !.row = {}]
<1>1. /\ poller \in PollerRecord /\ poller.pc = "enqueue" /\ a \in poller.row
      /\ poller.filter \in Filter
      /\ a \in used /\ posts[a] = 0 /\ Nowhere(a)
  BY DEF PInv, PollerTypes, PollerKnows, PollEnqueue
<1>2. r \in PollerRecord /\ r.pc = "hit" /\ r.row = {} /\ r.filter \in Filter
  BY <1>1 DEF PollerRecord
<1>3. poller' = r BY DEF PollEnqueue
<1> HIDE DEF r
<1>4. main = "run" BY <1>1, AtWork
<1>5. /\ pending' = [pending EXCEPT ![Fp[a]] = pending[Fp[a]] \cup {a}]
      /\ PollUnchanged /\ UNCHANGED <<stored, link, owner, created, used, rounds, faults>>
  BY <1>4 DEF PollEnqueue, Enqueued, Succeeds
<1>6. PICK S : S = used OBVIOUS
<1>7. InvOf(S)'
  <2>1. InvOf(S) BY <1>6 DEF PInv
  <2>2. stored \in SUBSET Alert /\ faults \in 0..MaxFaults
    BY <2>1 DEF InvOf, TypeOK, BatcherTypeOK, ReactionsTypeOK
  <2> QED BY <1>1, <1>5, <1>6, <2>1, <2>2, EnqueueStep DEF Nowhere, PollUnchanged
<1>8. PollerTypes' BY <1>2, <1>3, <1>5 DEF PInv, PollerTypes, PollUnchanged
<1>9. PollerKnows' BY <1>2, <1>3, <1>4, <1>5 DEF PollerKnows, PollUnchanged
<1> QED BY <1>5, <1>6, <1>7, <1>8, <1>9, NothingStored

(* The new row repeats no stored alarm: the poller looked before, and only  *)
(* the poller stores.                                                       *)
LEMMA NewIsSpaced ==
    ASSUME PInv, NEW a \in Alert, ~DedupExists(DocOf[a]), a \notin stored
    PROVE  \A b \in stored : /\ b \in Alert /\ b # a
                             /\ Fp[b] = Fp[a] =>
                                    LogTime[DocOf[b]] + DedupWindow < LogTime[DocOf[a]]
<1>1. stored \subseteq Alert BY DEF PInv, InvOf, TypeOK, BatcherTypeOK
<1>2. ASSUME NEW b \in stored, Fp[b] = Fp[a]
      PROVE  LogTime[DocOf[b]] + DedupWindow < LogTime[DocOf[a]]
  <2>1. ~(LogTime[DocOf[b]] + DedupWindow >= LogTime[DocOf[a]])
    BY <1>2, PipelineAssumption DEF DedupExists
  <2>2. /\ LogTime[DocOf[b]] \in Nat /\ LogTime[DocOf[a]] \in Nat /\ DedupWindow \in Nat
    BY <1>1, PipelineAssumption
  <2> QED BY <2>1, <2>2
<1> QED BY <1>1, <1>2

LEMMA PollInsertStep == ASSUME PInv, NEW d \in Doc, PollInsert(d) PROVE PInv'
<1> DEFINE back == [poller EXCEPT !.pc = "hit", !.doc = {}]
<1>1. /\ poller \in PollerRecord /\ poller.pc = "insert" /\ poller.row = {}
      /\ poller.filter \in Filter /\ rounds' \in Rounds /\ ~DedupExists(d)
  BY RoundGoesOn DEF PInv, PollerTypes, PollerKnows, PollInsert
<1>2. /\ Succeeds \/ Fails
      /\ PollUnchanged /\ UNCHANGED <<link, pending>>
  BY DEF PollInsert
<1>3. back \in PollerRecord /\ back.pc = "hit" /\ back.row = {} /\ back.filter \in Filter
  BY <1>1 DEF PollerRecord
<1>4. CASE poller' = back /\ UNCHANGED <<stored, owner, created, used>>
  <2> HIDE DEF back
  <2> QED BY <1>1, <1>2, <1>3, <1>4, AtWork, PollerGoesOn
<1>5. ASSUME NEW a \in Alert, DocOf[a] = d, Insert(a) PROVE PInv'
  <2> DEFINE r == [poller EXCEPT !.pc = "enqueue", !.doc = {}, !.row = {a}]
  <2>1. r \in PollerRecord /\ r.pc = "enqueue" /\ r.row = {a} /\ r.filter \in Filter
    BY <1>1 DEF PollerRecord
  <2>2. /\ poller' = r /\ a \notin used /\ used' = used \cup {a} /\ stored' = stored \cup {a}
        /\ owner' = [owner EXCEPT ![a] = poller.filter] /\ created' = [created EXCEPT ![a] = now]
    BY <1>5 DEF Insert
  <2> HIDE DEF r
  <2>3. PICK S : S = used \cup {a} OBVIOUS
  <2>4. InvOf(used) /\ InvOf(S) BY <2>3, MoreStored DEF PInv
  <2>5. /\ faults' \in 0..MaxFaults /\ stored \in SUBSET Alert /\ now \in 0..MaxTime
        /\ \A g \in Flusher : flush[g].batch \subseteq Alert
    BY <1>2, <2>4, FaultsType
       DEF InvOf, TypeOK, ReactionsTypeOK, BatcherTypeOK, FlushRecord
  <2>6. InvOf(S)' BY <1>2, <2>2, <2>4, <2>5, AsideStep DEF PollUnchanged
  <2>7. posts[a] = 0 /\ Nowhere(a)
    BY <2>2, <2>4, BatcherAssumption DEF InvOf, OnePlace, Nowhere
  <2>8. PollerTypes'
    <3>1. now \in Nat BY <2>5, ReactionsAssumption
    <3> QED BY <1>1, <1>2, <2>1, <2>2, <3>1 DEF PInv, PollerTypes, PollUnchanged
  <2>9. PollerKnows'
    <3>1. main = "run" BY <1>1, AtWork
    <3>2. Nowhere(a)' /\ posts'[a] = 0 BY <1>2, <2>7 DEF Nowhere, PollUnchanged
    <3> QED BY <1>2, <2>1, <2>2, <3>1, <3>2 DEF PollerKnows, PollUnchanged
  <2>10. a \notin stored BY <2>2 DEF PInv
  <2>11. \A b \in stored' : owner'[b] # NoFilter
    <3>1. owner'[a] # NoFilter
      BY <1>1, <2>2, PipelineAssumption DEF PInv, PollerTypes
    <3>2. \A b \in stored : b # a => owner'[b] # NoFilter
      BY <2>2, <2>5 DEF PInv, PollerTypes
    <3> QED BY <2>2, <3>1, <3>2
  <2>12. DedupSpacing'
    BY <1>1, <1>5, <2>2, <2>10, NewIsSpaced DEF PInv, DedupSpacing
  <2>13. stored' \subseteq used' BY <2>2 DEF PInv
  <2>14. InvOf(used)' BY <2>2, <2>3, <2>6
  <2> QED BY <2>8, <2>9, <2>11, <2>12, <2>13, <2>14 DEF PInv
<1> QED BY <1>4, <1>5 DEF PollInsert, InsertIfNew

LEMMA PollerStepStep == ASSUME PInv, PollerStep PROVE PInv'
  BY PollStartStep, PollSearchStep, PollHitStep, PollInsertStep, PollEnqueueStep,
     PollNextFilterStep, PollDoneStep
     DEF PollerStep

(* Elasticsearch, the clock, the filters and the purges.                    *)
LEMMA WorldStep ==
    ASSUME PInv, UNCHANGED <<used, owner, poller, created, quit>>, stored' \subseteq stored,
           indexed' \in SUBSET Doc, enabled' \in SUBSET Filter, deleted' \in SUBSET Filter,
           rounds' \in Rounds, edits' \in 0..MaxEdits, now' \in 0..MaxTime,
           UNCHANGED <<incidents, parents, thread, closed, hourglass, events, seen, reminder,
                       faults, link, pending, flush, main, stopKeys, shown, posts, crashes>>
    PROVE  PInv'
<1>1. PICK S : S = used OBVIOUS
<1>2. InvOf(S) /\ TypeOK BY <1>1 DEF PInv, InvOf
<1>3. faults' \in 0..MaxFaults /\ stored' \in SUBSET Alert
  BY <1>2 DEF TypeOK, ReactionsTypeOK, BatcherTypeOK
<1>4. InvOf(S)' BY <1>2, <1>3, AsideStep
<1>5. PollerTypes' BY DEF PInv, PollerTypes
<1>6. PollerKnows'
  <2>1. \A a \in Alert : Nowhere(a) => Nowhere(a)' /\ posts'[a] = posts[a] BY DEF Nowhere
  <2> QED BY <2>1, KnowsKept
<1> QED BY <1>1, <1>4, <1>5, <1>6, NothingStored

LEMMA WorldSteps ==
    ASSUME PInv,
           \/ \E d \in Doc : Index(d)
           \/ PipelineTick
           \/ \E f \in Filter : ToggleFilter(f) \/ DeleteFilter(f)
           \/ UNCHANGED pipelineVars
    PROVE  PInv'
<1>1. /\ indexed \in SUBSET Doc /\ enabled \in SUBSET Filter /\ deleted \in SUBSET Filter
      /\ rounds \in Rounds /\ edits \in 0..MaxEdits /\ now \in 0..MaxTime
  BY DEF PInv, PollerTypes, InvOf, TypeOK, ReactionsTypeOK
<1>2. ASSUME NEW d \in Doc, Index(d) PROVE PInv'
  BY <1>1, <1>2, WorldStep DEF Index, vars, reactionVars, batcherVars
<1>3. CASE PipelineTick
  <2>1. now + 1 \in 0..MaxTime BY <1>1, <1>3, ReactionsAssumption DEF PipelineTick
  <2> QED BY <1>1, <1>3, <2>1, WorldStep DEF PipelineTick, pollerVars, batcherVars
<1>4. ASSUME NEW f \in Filter, ToggleFilter(f) \/ DeleteFilter(f) PROVE PInv'
  <2>1. edits + 1 \in 0..MaxEdits
    BY <1>1, <1>4, PipelineAssumption DEF ToggleFilter, DeleteFilter, EditUnchanged
  <2>2. /\ stored' \subseteq stored /\ enabled' \in SUBSET Filter /\ deleted' \in SUBSET Filter
        /\ edits' = edits + 1
        /\ UNCHANGED <<reactionVars, link, pending, flush, main, stopKeys, shown, posts,
                       crashes, indexed, owner, created, used, poller, rounds, quit>>
    BY <1>1, <1>4 DEF ToggleFilter, DeleteFilter, EditUnchanged
  <2> QED BY <1>1, <2>1, <2>2, WorldStep DEF reactionVars
<1>5. CASE UNCHANGED pipelineVars
  BY <1>1, <1>5, WorldStep DEF pipelineVars, pollerVars, vars, reactionVars, batcherVars
<1> QED BY <1>2, <1>3, <1>4, <1>5

LEMMA StopSteps == ASSUME PInv, Quit \/ PollerEnds \/ StopBatcher PROVE PInv'
<1>1. PICK S : S = used OBVIOUS
<1>2. InvOf(S) BY <1>1 DEF PInv
<1>3. CASE Quit
  <2>1. PollerTypes' BY <1>3 DEF Quit, PInv, PollerTypes
  <2>2. InvOf(S)'
    BY <1>2, <1>3, MainStep DEF Quit, vars, batcherVars, InvOf, TypeOK, BatcherTypeOK
  <2>3. PollerKnows'
    <3>1. \A a \in Alert : Nowhere(a) => Nowhere(a)' /\ posts'[a] = posts[a]
      BY <1>3 DEF Quit, vars, batcherVars, Nowhere
    <3> QED BY <1>3, <3>1, KnowsKept DEF Quit, vars, batcherVars
  <2>4. UNCHANGED <<used, owner>> /\ stored' \subseteq stored
    BY <1>3 DEF Quit, vars, batcherVars
  <2> QED BY <1>1, <2>1, <2>2, <2>3, <2>4, NothingStored
<1>4. CASE PollerEnds
  <2> DEFINE r == [poller EXCEPT !.pc = "ended"]
  <2>1. r \in PollerRecord /\ r.pc = "ended" /\ r.row = {}
    BY <1>4 DEF PollerRecord, PInv, PollerTypes, PollerKnows, PollerEnds
  <2>2. poller' = r /\ UNCHANGED <<vars, indexed, enabled, deleted, owner, created, used, rounds,
                                   quit, edits>>
    BY <1>4 DEF PollerEnds
  <2> HIDE DEF r
  <2>3. PollerTypes' BY <2>1, <2>2 DEF PInv, PollerTypes
  <2>4. InvOf(S)'
    BY <1>2, <2>2, MainStep DEF vars, batcherVars, InvOf, TypeOK, BatcherTypeOK
  <2>5. PollerKnows' BY <2>1, <2>2 DEF PollerKnows
  <2>6. stored' \subseteq stored BY <2>2 DEF vars, batcherVars
  <2> QED BY <1>1, <2>2, <2>3, <2>4, <2>5, <2>6, NothingStored
<1>5. CASE StopBatcher
  <2>1. poller.pc = "ended" /\ CloseStopCh /\ UNCHANGED pollerVars BY <1>5 DEF StopBatcher
  <2>2. PollerTypes' BY <2>1 DEF PInv, PollerTypes, pollerVars
  <2>3. InvOf(S)' BY <1>2, <2>1, MainSteps
  <2>4. PollerKnows'
    <3>1. \A a \in Alert : Nowhere(a) => Nowhere(a)' /\ posts'[a] = posts[a]
      BY <2>1 DEF CloseStopCh, Nowhere
    <3> QED BY <2>1, <3>1, KnowsKept DEF CloseStopCh, pollerVars
  <2>5. UNCHANGED <<used, owner>> /\ stored' \subseteq stored
    BY <2>1 DEF CloseStopCh, pollerVars
  <2> QED BY <1>1, <2>2, <2>3, <2>4, <2>5, NothingStored
<1> QED BY <1>3, <1>4, <1>5

LEMMA BehindStep == ASSUME PInv, BatcherStep, UNCHANGED pollerVars PROVE PInv'
<1>1. PICK S : S = used OBVIOUS
<1>2. InvOf(S) BY <1>1 DEF PInv
<1>3. InvOf(S)' /\ Moves BY <1>2, BatcherMoves
<1>4. PollerTypes' BY DEF PInv, PollerTypes, pollerVars
<1>5. PollerKnows' BY <1>3, KnowsKept DEF Moves, pollerVars
<1> QED BY <1>1, <1>3, <1>4, <1>5, NothingStored DEF Moves, pollerVars

LEMMA PipelineCrashStep == ASSUME PInv, PipelineCrash PROVE PInv'
<1>1. PICK S : S = used OBVIOUS
<1>2. InvOf(S) BY <1>1 DEF PInv
<1>3. /\ Crash /\ poller' = PollerIdle /\ Broken /\ quit' = FALSE
      /\ UNCHANGED <<indexed, enabled, deleted, owner, created, used, edits>>
  BY DEF PipelineCrash
<1>4. InvOf(S)' BY <1>2, <1>3, CrashStep
<1>5. PollerTypes' BY <1>3, IdleType, RoundGoesOn DEF PInv, PollerTypes
<1>6. PollerKnows' BY <1>3, IdleType DEF PollerKnows, Crash
<1> QED BY <1>1, <1>3, <1>4, <1>5, <1>6, NothingStored DEF Crash

LEMMA PipelineInitInv == ASSUME PipelineInit PROVE PInv
<1>1. Init /\ stored = {} /\ used = {} BY DEF PipelineInit, Init, BatcherInit
<1>2. InvOf(used) BY <1>1, InitInv DEF IInv
<1>3. PollerTypes
  <2>1. /\ indexed \in SUBSET Doc /\ enabled \in SUBSET Filter /\ deleted \in SUBSET Filter
        /\ used \in SUBSET Alert /\ rounds \in Rounds /\ quit \in BOOLEAN
        /\ poller \in PollerRecord
    BY IdleType DEF PipelineInit, Rounds
  <2>2. edits \in 0..MaxEdits BY PipelineAssumption DEF PipelineInit
  <2>3. owner \in [Alert -> Filter \cup {NoFilter}] /\ created \in [Alert -> Nat]
    BY DEF PipelineInit
  <2> QED BY <2>1, <2>2, <2>3 DEF PollerTypes
<1>4. PollerKnows BY <1>1, IdleType DEF PipelineInit, PollerKnows, Init, BatcherInit
<1> QED BY <1>1, <1>2, <1>3, <1>4 DEF PInv, DedupSpacing

LEMMA PipelineNextInv == ASSUME PInv, [PipelineNext]_pipelineVars PROVE PInv'
<1>1. CASE AtRest /\ UNCHANGED pollerVars
  BY <1>1, WorldSteps DEF AtRest, pipelineVars
<1> QED BY <1>1, WorldSteps, PollerStepStep, StopSteps, BehindStep, PipelineCrashStep
        DEF PipelineNext

LEMMA PInvAlways == PipelineSpec => []PInv
  BY PipelineInitInv, PipelineNextInv, PTL DEF PipelineSpec

(* Type correctness of the poller and of everything behind it, and no two   *)
(* stored rows of one document: what ON CONFLICT relies on                  *)
(* (es_syslog_poller.go:59-184, es_syslog_repo.go:60-66).                   *)
THEOREM PipelineTypeCorrect == PipelineSpec => []PipelineTypeOK
<1>1. PInv => PipelineTypeOK
  <2> SUFFICES ASSUME PInv PROVE PipelineTypeOK OBVIOUS
  <2>1. TypeOK /\ stored \subseteq Alert BY DEF PInv, InvOf, TypeOK, BatcherTypeOK
  <2>2. ASSUME NEW a \in stored, NEW b \in stored, DocOf[a] = DocOf[b], a # b PROVE FALSE
    <3>1. /\ a \in Alert /\ b \in Alert /\ Fp[a] = Fp[b]
          /\ LogTime[DocOf[a]] \in Nat /\ DedupWindow \in Nat
      BY <2>1, <2>2, PipelineAssumption
    <3> QED BY <2>2, <3>1 DEF PInv, DedupSpacing
  <2> QED BY <2>1, <2>2 DEF PipelineTypeOK, PInv, PollerTypes, Rounds
<1> QED BY <1>1, PInvAlways, PTL

(* Two stored alerts of one alarm are further apart than the dedup window:  *)
(* DedupExists looks both ways, only the poller goroutine stores, and a     *)
(* purge or a restart between the look and the insert only takes rows away  *)
(* (es_syslog_poller.go:121-160, es_syslog_repo.go:169-184).                *)
THEOREM AlertsAreSpaced == PipelineSpec => []DedupSpacing
  BY PInvAlways, PTL DEF PInv

(* What the part above shows of the batcher holds behind this poller too,   *)
(* although rows are purged while the batcher works on them: an alert       *)
(* is shown by at most one post ...                                         *)
THEOREM StillShownOnce == PipelineSpec => []ShownAtMostOnce
  BY PInvAlways, PTL DEF PInv, InvOf

(* ... and slack_incident_id, written last, leads to the thread that shows  *)
(* the alert (slack_batcher.go:92-196).                                     *)
THEOREM LinksStillLeadHome == PipelineSpec => []LinkedWhereShown
  BY PInvAlways, PTL DEF PInv, InvOf

-----------------------------------------------------------------------------
(* Stop: what is in memory reaches Slack                                    *)

(* A tick's steps, as far as rows in hand and the batcher can tell.         *)
PollerTouches ==
    /\ UNCHANGED <<flush, main, stopKeys, shown, posts, crashes, now>>
    /\ \/ /\ UNCHANGED pending /\ stored' \subseteq stored
          /\ poller.row = {} /\ poller'.row = {}
       \/ \E a \in Alert :
            /\ UNCHANGED pending /\ stored' = stored \cup {a}
            /\ poller.row = {} /\ poller'.row = {a}
       \/ \E a \in poller.row :
            /\ main = "run" /\ pending' = [pending EXCEPT ![Fp[a]] = @ \cup {a}]
            /\ UNCHANGED stored
            /\ poller'.row = {}

LEMMA PollerTouchesOnly == ASSUME PInv, PollerStep PROVE PollerTouches /\ faults <= faults'
<1>1. poller \in PollerRecord /\ (poller.pc # "enqueue" => poller.row = {})
  BY DEF PInv, PollerTypes, PollerKnows
<1>2. InvOf(used) BY DEF PInv
<1>3. ASSUME Succeeds \/ Fails PROVE faults <= faults'
  <2>1. PICK S : S = used OBVIOUS
  <2>2. InvOf(S) BY <1>2, <2>1
  <2> QED BY <1>3, <2>2, FaultsGrow
<1>4. CASE PollStart
  <2>1. poller'.row = {}
    <3> DEFINE r == [PollerIdle EXCEPT !.pc = "search", !.at = now, !.filters = enabled]
    <3>1. r.row = {} BY DEF PollerIdle
    <3>2. poller' = poller \/ poller' = r BY <1>4 DEF PollStart
    <3>3. poller.row = {} BY <1>1, <1>4 DEF PollStart
    <3> HIDE DEF r
    <3> QED BY <3>1, <3>2, <3>3
  <2> QED BY <1>1, <1>3, <1>4, <2>1 DEF PollStart, PollUnchanged, MaybeRetention, PollerTouches
<1>5. ASSUME NEW f \in Filter, PollSearch(f) PROVE PollerTouches /\ faults <= faults'
  <2>1. poller'.row = poller.row BY <1>1, <1>5 DEF PollSearch, PollerRecord
  <2> QED BY <1>1, <1>3, <1>5, <2>1 DEF PollSearch, PollUnchanged, PollerTouches
<1>6. ASSUME NEW d \in Doc, PollHit(d) PROVE PollerTouches /\ faults <= faults'
  <2>1. poller'.row = poller.row BY <1>1, <1>6 DEF PollHit, PollerRecord
  <2> QED BY <1>1, <1>3, <1>6, <2>1 DEF PollHit, PollUnchanged, PollerTouches
<1>7. ASSUME NEW d \in Doc, PollInsert(d) PROVE PollerTouches /\ faults <= faults'
  <2>1. \/ stored' = stored /\ poller'.row = poller.row
        \/ \E a \in Alert : stored' = stored \cup {a} /\ poller'.row = {a}
    BY <1>1, <1>7 DEF PollInsert, InsertIfNew, Insert, PollerRecord
  <2>2. /\ poller.row = {}
        /\ UNCHANGED <<pending, flush, main, stopKeys, shown, posts, crashes, now>>
    BY <1>1, <1>7 DEF PollInsert, PollUnchanged
  <2>3. faults <= faults' BY <1>3, <1>7 DEF PollInsert
  <2> QED BY <2>1, <2>2, <2>3 DEF PollerTouches
<1>8. ASSUME NEW a \in Alert, PollEnqueue(a) PROVE PollerTouches /\ faults <= faults'
  <2>1. main = "run" BY <1>8, AtWork DEF PollEnqueue
  <2>2. poller'.row = {} BY <1>1, <1>8 DEF PollEnqueue, PollerRecord
  <2> QED BY <1>3, <1>8, <2>1, <2>2 DEF PollEnqueue, Enqueued, PollUnchanged, PollerTouches
<1>9. CASE PollNextFilter
  <2>1. poller'.row = poller.row BY <1>1, <1>9 DEF PollNextFilter, PollerRecord
  <2> QED BY <1>1, <1>3, <1>9, <2>1 DEF PollNextFilter, PollUnchanged, PollerTouches
<1>10. CASE PollDone
  BY <1>1, <1>3, <1>10, IdleType DEF PollDone, PollUnchanged, PollerTouches
<1> QED BY <1>4, <1>5, <1>6, <1>7, <1>8, <1>9, <1>10 DEF PollerStep

(* The other steps: elsewhere, of Stop, and a crash.                        *)
LEMMA OthersTouch ==
    ASSUME PInv,
           \/ \E d \in Doc : Index(d)
           \/ PipelineTick
           \/ \E f \in Filter : ToggleFilter(f) \/ DeleteFilter(f)
           \/ Quit \/ PollerEnds \/ StopBatcher
           \/ UNCHANGED pipelineVars
    PROVE  /\ UNCHANGED <<pending, flush, stopKeys, shown, crashes, faults>>
           /\ main' = main \/ main' = "stopping"
           /\ stored' \subseteq stored /\ poller'.row = poller.row
<1>1. CASE PollerEnds
  <2>1. poller.row = {} BY <1>1 DEF PInv, PollerKnows, PollerEnds
  <2>2. poller'.row = {} BY <1>1, <2>1 DEF PInv, PollerTypes, PollerRecord, PollerEnds
  <2> QED BY <1>1, <2>1, <2>2 DEF PollerEnds, vars, batcherVars, reactionVars
<1>2. CASE \E d \in Doc : Index(d)
  BY <1>2 DEF Index, vars, batcherVars, reactionVars
<1>3. CASE PipelineTick \/ Quit
  BY <1>3 DEF PipelineTick, Quit, vars, batcherVars, reactionVars, pollerVars
<1>4. CASE \E f \in Filter : ToggleFilter(f) \/ DeleteFilter(f)
  BY <1>4 DEF ToggleFilter, DeleteFilter, EditUnchanged, reactionVars
<1>5. CASE StopBatcher
  BY <1>5 DEF StopBatcher, CloseStopCh, pollerVars, reactionVars
<1>6. CASE UNCHANGED pipelineVars
  BY <1>6 DEF pipelineVars, pollerVars, vars, batcherVars, reactionVars
<1> QED BY <1>1, <1>2, <1>3, <1>4, <1>5, <1>6

LEMMA StopInvStep == ASSUME PInv, StopInv, [PipelineNext]_pipelineVars PROVE StopInv'
<1>1. ASSUME PollerTouches PROVE StopInv'
  <2>1. CASE UNCHANGED pending /\ (poller'.row = {} \/ \E a \in Alert : poller'.row = {a})
    BY <1>1, <2>1 DEF StopInv, PollerTouches
  <2>2. CASE main = "run" /\ poller'.row = {}
    BY <1>1, <2>2 DEF StopInv, PollerTouches
  <2> QED BY <1>1, <2>1, <2>2 DEF PollerTouches
<1>2. ASSUME UNCHANGED <<pending, stopKeys>>, main' = main \/ main' = "stopping",
             poller'.row = poller.row
      PROVE  StopInv'
  BY <1>2 DEF StopInv
<1>3. CASE BatcherStep /\ UNCHANGED pollerVars
  <2> poller' = poller BY <1>3 DEF pollerVars
  <2>1. ASSUME NEW f \in Flusher, NEW k \in Fingerprint, FlushTake(f, k) PROVE StopInv'
    <3>1. /\ \A j \in Fingerprint : pending'[j] = IF j = k THEN {} ELSE pending[j]
          /\ stopKeys \ {k} \subseteq stopKeys' /\ main' = main
      BY <2>1 DEF FlushTake, PInv, InvOf, TypeOK, BatcherTypeOK
    <3> QED BY <3>1 DEF StopInv
  <2>2. ASSUME NEW f \in Flusher, FlushStep(f) PROVE StopInv'
    BY <1>2, <2>2 DEF FlushStep, FlushFind, FlushFails, FlushAppend, FlushPost, FlushInstruct,
                      FlushCreate, FlushLink, FlushUnchanged
  <2>3. ASSUME NEW k \in Fingerprint, FlushNothing(k) PROVE StopInv'
    BY <2>3 DEF FlushNothing, StopInv
  <2>4. CASE ReadStopKeys BY <2>4 DEF ReadStopKeys, StopInv
  <2>5. CASE StopReturns BY <2>5 DEF StopReturns, StopInv
  <2> QED BY <1>3, <2>1, <2>2, <2>3, <2>4, <2>5 DEF BatcherStep
<1>4. CASE PipelineCrash BY <1>4, IdleType DEF PipelineCrash, Crash, StopInv
<1>5. CASE AtRest /\ UNCHANGED pollerVars BY <1>2, <1>5, OthersTouch DEF AtRest, pipelineVars
<1> QED BY <1>1, <1>2, <1>3, <1>4, <1>5, PollerTouchesOnly, OthersTouch DEF PipelineNext

LEMMA NothingLostStep ==
    ASSUME PInv, StopInv, NothingLost, [PipelineNext]_pipelineVars PROVE NothingLost'
<1>1. faults \in Nat /\ crashes \in Nat
  <2>1. faults \in 0..MaxFaults /\ crashes \in 0..MaxCrashes
    BY DEF PInv, InvOf, TypeOK, ReactionsTypeOK, BatcherTypeOK
  <2> QED BY <2>1, ReactionsAssumption, BatcherAssumption
<1>2. stored \subseteq Alert /\ \A a \in Alert : Fp[a] \in Fingerprint
  BY BatcherAssumption DEF PInv, InvOf, TypeOK, BatcherTypeOK
<1>3. ASSUME PollerTouches, faults <= faults' PROVE NothingLost'
  <2> SUFFICES ASSUME faults' = 0, crashes' = 0, NEW a \in stored'
               PROVE  Covered(a)' \/ a \in poller'.row
    BY DEF NothingLost
  <2>1. faults = 0 /\ crashes = 0 BY <1>1, <1>3 DEF PollerTouches
  <2>2. ASSUME UNCHANGED pending, Covered(a) PROVE Covered(a)'
    BY <1>3, <2>2 DEF PollerTouches, Covered
  <2>3. CASE UNCHANGED pending /\ stored' \subseteq stored /\ poller.row = {}
    BY <2>1, <2>2, <2>3 DEF NothingLost
  <2>4. ASSUME NEW b \in Alert, UNCHANGED pending, stored' = stored \cup {b},
               poller.row = {}, poller'.row = {b}
        PROVE  Covered(a)' \/ a \in poller'.row
    BY <2>1, <2>2, <2>4 DEF NothingLost
  <2>5. ASSUME NEW b \in poller.row, UNCHANGED stored,
               pending' = [pending EXCEPT ![Fp[b]] = @ \cup {b}]
        PROVE  Covered(a)'
    <3>1. \A k \in Fingerprint : pending[k] \subseteq pending'[k]
      BY <2>5 DEF PInv, InvOf, TypeOK, BatcherTypeOK
    <3>2. CASE a \in poller.row
      <4>1. a = b BY <2>5, <3>2 DEF StopInv
      <4>2. a \in pending'[Fp[a]]
        BY <1>2, <2>5, <4>1 DEF PInv, InvOf, TypeOK, BatcherTypeOK
      <4> QED BY <4>2 DEF Covered
    <3>3. CASE Covered(a)
      <4>1. Fp[a] \in Fingerprint BY <1>2, <2>5
      <4> QED BY <1>3, <3>1, <3>3, <4>1 DEF PollerTouches, Covered
    <3> QED BY <2>1, <2>5, <3>2, <3>3 DEF NothingLost
  <2> QED BY <1>3, <2>3, <2>4, <2>5 DEF PollerTouches
<1>4. ASSUME UNCHANGED <<pending, flush, shown, crashes, faults>>, stored' \subseteq stored,
             poller'.row = poller.row
      PROVE  NothingLost'
  BY <1>4 DEF NothingLost, Covered
<1>5. CASE BatcherStep /\ UNCHANGED pollerVars
  <2>1. PICK S : S = used OBVIOUS
  <2>2. Moves BY <1>5, <2>1, BatcherMoves DEF PInv
  <2> SUFFICES ASSUME faults' = 0, crashes' = 0, NEW a \in stored'
               PROVE  Covered(a)' \/ a \in poller'.row
    BY DEF NothingLost
  <2>3. faults = 0 /\ crashes = 0 /\ a \in stored /\ poller' = poller
    BY <1>1, <1>5, <2>2 DEF Moves, pollerVars
  <2> QED BY <1>2, <2>2, <2>3 DEF Moves, NothingLost
<1>6. CASE PipelineCrash
  <2>1. crashes' # 0 BY <1>1, <1>6 DEF PipelineCrash, Crash
  <2> QED BY <2>1 DEF NothingLost
<1>7. CASE AtRest /\ UNCHANGED pollerVars BY <1>4, <1>7, OthersTouch DEF AtRest, pipelineVars
<1> QED BY <1>3, <1>4, <1>5, <1>6, <1>7, PollerTouchesOnly, OthersTouch DEF PipelineNext

(* When Stop has returned, every alert this process stored is shown in      *)
(* Slack or in the hands of a timer's flush, if no call failed: main.go     *)
(* stops the poller first and waits for it, Stop flushes every key it finds *)
(* pending, and nothing is enqueued after stopCh is closed                  *)
(* (es_syslog_poller.go:49-57, slack_batcher.go:65-90, 199-215).            *)
THEOREM StopFlushesAll == PipelineSpec => []StopLeavesNothingBehind
<1>1. PipelineInit => StopInv /\ NothingLost
  BY IdleType DEF PipelineInit, Init, BatcherInit, StopInv, NothingLost
<1>2. PInv /\ StopInv /\ NothingLost /\ [PipelineNext]_pipelineVars => (StopInv /\ NothingLost)'
  BY StopInvStep, NothingLostStep
<1>3. PInv /\ StopInv /\ NothingLost => StopLeavesNothingBehind
  <2> SUFFICES ASSUME PInv, StopInv, NothingLost, main = "stopped", crashes = 0, faults = 0,
                      NEW a \in stored
               PROVE  shown[a] # {} \/ \E f \in Flusher : a \in flush[f].batch
    BY DEF StopLeavesNothingBehind
  <2>1. a \notin poller.row BY DEF PInv, PollerKnows
  <2>2. Fp[a] \in Fingerprint BY BatcherAssumption DEF PInv, InvOf, TypeOK, BatcherTypeOK
  <2> QED BY <2>1, <2>2 DEF StopInv, NothingLost, Covered
<1> QED BY <1>1, <1>2, <1>3, PInvAlways, PTL DEF PipelineSpec

-----------------------------------------------------------------------------
(* The overlap of the search windows                                        *)

LEMMA Counts == ASSUME PInv, [PipelineNext]_pipelineVars
                PROVE  /\ faults \in Nat /\ edits \in Nat /\ now \in Nat
                       /\ faults' \in Nat /\ edits' \in Nat /\ now' \in Nat
<1>1. PInv' BY PipelineNextInv
<1>2. /\ faults \in 0..MaxFaults /\ edits \in 0..MaxEdits /\ now \in 0..MaxTime
      /\ faults' \in 0..MaxFaults /\ edits' \in 0..MaxEdits /\ now' \in 0..MaxTime
  BY <1>1 DEF PInv, PollerTypes, InvOf, TypeOK, ReactionsTypeOK
<1> QED BY <1>2, ReactionsAssumption, PipelineAssumption

(* A document stays in sight if the ticks stay what they are and what the   *)
(* one under way had before it, it still has or has stored.                 *)
LEMMA StaysInSight ==
    ASSUME used \subseteq used', rounds' = rounds, poller'.at = poller.at, NEW d, InSight(d),
           WillSee(d) => WillSee(d)' \/ Seen(d)'
    PROVE  InSight(d)'
<1>1. Seen(d) => Seen(d)' BY DEF Seen
<1> QED BY <1>1 DEF InSight, Due

(* The tick under way is no longer whole: the next one has to find d.       *)
LEMMA BreaksInSight ==
    ASSUME PInv, used \subseteq used', Broken, NEW d, InSight(d)
    PROVE  InSight(d)'
<1>1. Seen(d) => Seen(d)' BY DEF Seen
<1>2. rounds'.last = rounds.last /\ ~rounds'.whole
  BY DEF PInv, PollerTypes, Rounds, Broken
<1> QED BY <1>1, <1>2 DEF InSight, Due

(* A search returns all of its window.                                      *)
LEMMA SearchFindsAll ==
    ASSUME SearchesComplete, indexed \subseteq Doc, NEW t \in Nat, NEW f \in Filter,
           NEW S \in Hits(f, t), NEW d \in indexed, d \in Matches[f],
           t <= LogTime[d] + PollWindow, LogTime[d] <= t
    PROVE  d \in S
<1> DEFINE found == {e \in indexed \cap Matches[f] :
                        LogTime[e] \in t - PollWindow .. t + SearchAhead}
<1>1. \A e \in Doc : LogTime[e] \in Nat BY PipelineAssumption
<1>2. PollWindow \in Nat /\ SearchAhead \in Nat BY PipelineAssumption
<1>3. found \subseteq InWindow(f, t) BY DEF InWindow
<1>4. IsFiniteSet(InWindow(f, t)) /\ Cardinality(InWindow(f, t)) <= HitLimit
  BY DEF SearchesComplete
<1>5. /\ IsFiniteSet(found) /\ Cardinality(found) <= Cardinality(InWindow(f, t))
  <2> HIDE DEF found
  <2> QED BY <1>3, <1>4, FS_Subset
<1>6. Cardinality(found) <= HitLimit
  <2> HIDE DEF found
  <2>1. Cardinality(found) \in Nat /\ Cardinality(InWindow(f, t)) \in Nat
    BY <1>4, <1>5, FS_CardinalityType
  <2>2. HitLimit \in Nat BY PipelineAssumption
  <2> QED BY <1>4, <1>5, <2>1, <2>2
<1>7. S \subseteq found /\ Cardinality(S) = IF Cardinality(found) <= HitLimit
                                            THEN Cardinality(found) ELSE HitLimit
  BY DEF Hits
<1>8. S = found
  <2> HIDE DEF found
  <2> QED BY <1>5, <1>6, <1>7, FS_Subset
<1>9. d \in found
  <2>1. LogTime[d] \in Nat BY <1>1
  <2>2. LogTime[d] \in t - PollWindow .. t + SearchAhead BY <1>2, <2>1
  <2> QED BY <2>2
<1> QED BY <1>8, <1>9

(* A tick that starts later than d could be indexed has d's filter before   *)
(* it; one that starts no later is no reason to see d.                      *)
LEMMA StartSees ==
    ASSUME SearchesComplete, PInv, SearchInv, PollStart, edits = 0,
           NEW d \in indexed, InSight(d)
    PROVE  InSight(d)'
<1> DEFINE r == [PollerIdle EXCEPT !.pc = "search", !.at = now, !.filters = enabled]
<1>1. enabled = Filter /\ indexed \subseteq Doc /\ rounds \in Rounds
  BY DEF SearchInv, PInv, PollerTypes
<1>2. PICK f \in Filter : d \in Matches[f] BY <1>1 DEF SearchesComplete
<1>3. used' = used BY DEF PollStart
<1>4. CASE UNCHANGED <<poller, rounds>>
  <2>1. WillSee(d) => WillSee(d)' BY <1>4 DEF WillSee
  <2> QED BY <1>3, <1>4, <2>1, StaysInSight
<1>5. CASE poller' = r /\ rounds' = [rounds EXCEPT !.whole = TRUE]
  <2>1. r.pc = "search" /\ r.filters = Filter BY <1>1 DEF PollerIdle
  <2>2. rounds'.last = rounds.last BY <1>1, <1>5 DEF Rounds
  <2>3. poller' = r BY <1>5
  <2> HIDE DEF r
  <2>4. WillSee(d)' BY <1>2, <2>1, <2>3 DEF WillSee
  <2>5. Seen(d) => Seen(d)' BY <1>3 DEF Seen
  <2> QED BY <2>2, <2>4, <2>5 DEF InSight, Due
<1> QED BY <1>4, <1>5 DEF PollStart

(* A search of a tick that has d in its window.                             *)
LEMMA SearchSees ==
    ASSUME SearchesComplete, PInv, SearchInv, NEW f \in Filter, PollSearch(f),
           NEW d \in indexed, InSight(d)
    PROVE  InSight(d)'
<1>1. /\ poller \in PollerRecord /\ indexed \subseteq Doc /\ rounds \in Rounds
      /\ used' = used /\ poller.pc = "search"
  BY DEF PInv, PollerTypes, PollSearch
<1>2. CASE Broken BY <1>1, <1>2, BreaksInSight
<1>3. ASSUME NEW S \in Hits(f, poller.at), UNCHANGED rounds,
             poller' = [poller EXCEPT !.pc = "hit", !.filters = @ \ {f}, !.filter = f, !.hits = S]
      PROVE  InSight(d)'
  <2>1. /\ poller'.pc = "hit" /\ poller'.filters = poller.filters \ {f} /\ poller'.hits = S
        /\ poller'.at = poller.at
    BY <1>1, <1>3 DEF PollerRecord
  <2>2. Seen(d) => Seen(d)' BY <1>1 DEF Seen
  <2>3. /\ poller.at \in Nat /\ rounds.last \in Nat /\ LogTime[d] \in Nat
        /\ PollWindow \in Nat /\ IndexLag \in Nat
    BY <1>1, PipelineAssumption DEF PollerRecord, Rounds
  <2>4. ASSUME Due(d), rounds.whole, poller.at <= LogTime[d] + PollWindow,
               ~(poller.at <= LogTime[d] + IndexLag)
        PROVE  WillSee(d)'
    <3>1. WillSee(d) BY <2>4 DEF Due
    <3>2. LogTime[d] <= poller.at BY <2>3, <2>4
    <3>3. d \in Matches[f] => d \in S BY <1>1, <1>3, <2>3, <2>4, <3>2, SearchFindsAll
    <3> QED BY <1>1, <2>1, <3>1, <3>3 DEF WillSee
  <2>5. Due(d) => Due(d)' BY <1>3, <2>1, <2>4 DEF Due
  <2> QED BY <2>2, <2>5 DEF InSight
<1> QED BY <1>2, <1>3 DEF PollSearch

LEMMA HitSees ==
    ASSUME PInv, NEW e \in Doc, PollHit(e), NEW d \in indexed, InSight(d)
    PROVE  InSight(d)'
<1>1. /\ poller \in PollerRecord /\ stored \subseteq used /\ used' = used
      /\ poller.pc = "hit"
  BY DEF PInv, PollerTypes, PollHit
<1>2. CASE Broken BY <1>1, <1>2, BreaksInSight
<1>3. CASE /\ UNCHANGED rounds
           /\ poller' = IF DedupExists(e) THEN [poller EXCEPT !.hits = @ \ {e}]
                        ELSE [poller EXCEPT !.pc = "insert", !.hits = @ \ {e}, !.doc = {e}]
  <2>1. /\ poller'.filters = poller.filters /\ poller'.hits = poller.hits \ {e}
        /\ poller'.pc \in {"hit", "insert"} /\ poller'.at = poller.at
        /\ ~DedupExists(e) => poller'.pc = "insert" /\ poller'.doc = {e}
    BY <1>1, <1>3 DEF PollerRecord
  <2>2. DedupExists(e) => Seen(e)' BY <1>1 DEF DedupExists, Seen
  <2>3. WillSee(d) => WillSee(d)' \/ Seen(d)' BY <1>1, <2>1, <2>2 DEF WillSee
  <2> QED BY <1>1, <1>3, <2>1, <2>3, StaysInSight
<1> QED BY <1>2, <1>3 DEF PollHit

LEMMA InsertSees ==
    ASSUME PInv, SearchInv, NEW e \in Doc, PollInsert(e), NEW d \in indexed, InSight(d)
    PROVE  InSight(d)'
<1>1. /\ poller \in PollerRecord /\ stored \subseteq used /\ used \subseteq Alert
      /\ poller.pc = "insert" /\ e \in poller.doc /\ \A x, y \in poller.doc : x = y
  BY DEF PInv, PollerTypes, PollInsert, SearchInv
<1>2. CASE Broken /\ used' = used BY <1>2, BreaksInSight
<1>3. CASE UNCHANGED rounds /\ \E a \in Alert : DocOf[a] = e /\ InsertIfNew(e, a)
  <2>1. /\ used \subseteq used' /\ \E a \in used' : DocOf[a] = e
        /\ poller'.filters = poller.filters /\ poller'.hits = poller.hits
        /\ poller'.pc \in {"hit", "enqueue"} /\ poller'.at = poller.at
    BY <1>1, <1>3, ZenonT(60) DEF InsertIfNew, Insert, PollerRecord
  <2>2. Seen(e)'
    <3>1. PICK a \in used' : DocOf[a] = e BY <2>1
    <3>2. a \in Alert
      BY <1>1, <1>3, <3>1 DEF InsertIfNew, Insert
    <3>3. Fp[a] = DocFp[e] BY <3>1, <3>2, PipelineAssumption
    <3>4. LogTime[e] \in Nat /\ DedupWindow \in Nat BY PipelineAssumption
    <3> QED BY <3>1, <3>3, <3>4 DEF Seen
  <2>3. WillSee(d) => WillSee(d)' \/ Seen(d)' BY <1>1, <2>1, <2>2 DEF WillSee
  <2> QED BY <1>3, <2>1, <2>3, StaysInSight
<1> QED BY <1>2, <1>3 DEF PollInsert

(* A whole tick has nothing before it when it ends: of what its window or   *)
(* that of the last one reaches, d was seen, or the tick started before d   *)
(* had to be searchable.                                                    *)
LEMMA DoneSees ==
    ASSUME PInv, SearchInv, PollDone, NEW d \in indexed, InReach(d) => InSight(d), InReach(d)'
    PROVE  InSight(d)'
<1>1. /\ rounds \in Rounds /\ poller \in PollerRecord /\ indexed \subseteq Doc
      /\ used' = used /\ poller.pc = "search" /\ poller.filters = {}
  BY DEF PInv, PollerTypes, PollDone
<1>2. ~WillSee(d) BY <1>1 DEF WillSee
<1>3. Seen(d) => Seen(d)' BY <1>1 DEF Seen
<1>4. CASE ~rounds.whole
  <2>1. rounds' = rounds BY <1>4 DEF PollDone
  <2>2. InReach(d) BY <2>1 DEF InReach
  <2>3. Due(d) => Due(d)' BY <1>4, <2>1 DEF Due
  <2> QED BY <1>3, <2>2, <2>3 DEF InSight
<1>5. CASE rounds.whole
  <2>1. /\ ~rounds'.whole /\ rounds'.last = poller.at
        /\ rounds'.first = IF InTime(poller.at) THEN rounds.first ELSE poller.at
    BY <1>5 DEF PollDone
  <2>2. /\ rounds.first \in Nat /\ rounds.last \in Nat /\ poller.at \in Nat
        /\ LogTime[d] \in Nat /\ PollWindow \in Nat /\ IndexLag \in Nat
    BY <1>1, PipelineAssumption DEF Rounds, PollerRecord
  <2>3. rounds.first <= rounds.last /\ rounds.last <= poller.at BY <1>5 DEF SearchInv
  <2>4. rounds'.first <= LogTime[d] + PollWindow BY DEF InReach
  <2>5. InReach(d) BY <2>1, <2>2, <2>3, <2>4 DEF InReach
  <2>6. ASSUME Due(d) PROVE Due(d)'
    <3>1. rounds.last <= LogTime[d] + IndexLag BY <2>6 DEF Due
    <3>2. poller.at <= LogTime[d] + PollWindow BY <2>1, <2>2, <2>4, <3>1 DEF InTime
    <3>3. poller.at <= LogTime[d] + IndexLag BY <1>2, <1>5, <2>6, <3>2 DEF Due
    <3> QED BY <2>1, <3>3 DEF Due
  <2> QED BY <1>3, <2>5, <2>6 DEF InSight
<1> QED BY <1>4, <1>5

(* The overlapping ticks change with a whole tick that ends, and nothing    *)
(* else.                                                                    *)
LEMMA ReachStays ==
    ASSUME PInv, UNCHANGED rounds \/ Broken \/ rounds' = [rounds EXCEPT !.whole = TRUE], NEW d
    PROVE  InReach(d)' = InReach(d)
<1>1. rounds'.first = rounds.first BY DEF PInv, PollerTypes, Rounds, Broken
<1> QED BY <1>1 DEF InReach

(* What the poller's steps do to what it has before it.                     *)
LEMMA PollerSees ==
    ASSUME SearchesComplete, PInv, SearchInv, PollerStep, ~PollDone, edits = 0,
           NEW d \in indexed, InSight(d)
    PROVE  InSight(d)'
<1>1. poller \in PollerRecord BY DEF PInv, PollerTypes
<1>2. ASSUME NEW a \in Alert, PollEnqueue(a) PROVE InSight(d)'
  <2>1. /\ poller.pc = "enqueue" /\ UNCHANGED <<used, rounds>> /\ poller'.at = poller.at
        /\ poller'.pc = "hit" /\ poller'.filters = poller.filters /\ poller'.hits = poller.hits
    BY <1>1, <1>2 DEF PollEnqueue, PollerRecord
  <2>2. WillSee(d) => WillSee(d)' BY <2>1 DEF WillSee
  <2> QED BY <2>1, <2>2, StaysInSight
<1>3. CASE PollNextFilter
  <2>1. /\ poller.pc = "hit" /\ poller.hits = {} /\ UNCHANGED <<used, rounds>>
        /\ poller'.pc = "search" /\ poller'.filters = poller.filters /\ poller'.at = poller.at
    BY <1>1, <1>3 DEF PollNextFilter, PollerRecord
  <2>2. WillSee(d) => WillSee(d)' BY <2>1 DEF WillSee
  <2> QED BY <2>1, <2>2, StaysInSight
<1> QED BY <1>2, <1>3, StartSees, SearchSees, HitSees, InsertSees DEF PollerStep

(* A tick keeps the time it started at, handles one document at a time, and *)
(* starts after the last whole one.                                         *)
TickKept ==
    /\ rounds.first <= rounds.last /\ rounds.last <= now /\ poller.at <= now
    /\ rounds.whole => rounds.last <= poller.at
    /\ \A d, e \in poller.doc : d = e

LEMMA PollerKeepsTick ==
    ASSUME PInv, SearchInv, PollerStep
    PROVE  TickKept' /\ UNCHANGED <<now, edits, enabled, indexed>>
<1>1. /\ poller \in PollerRecord /\ rounds \in Rounds /\ TickKept
  BY DEF PInv, PollerTypes, SearchInv, TickKept
<1>2. UNCHANGED <<now, edits, enabled, indexed>>
  BY DEF PollerStep, PollStart, PollSearch, PollHit, PollInsert, PollEnqueue, PollNextFilter,
         PollDone, PollUnchanged
<1>3. now \in Nat
  <2>1. now \in 0..MaxTime BY DEF PInv, InvOf, TypeOK, ReactionsTypeOK
  <2> QED BY <2>1, ReactionsAssumption
<1>4. ASSUME UNCHANGED rounds \/ Broken, poller'.at = poller.at,
             poller'.doc = poller.doc \/ poller'.doc = {} \/ \E d \in Doc : poller'.doc = {d}
      PROVE  TickKept'
  <2>1. /\ rounds'.first = rounds.first /\ rounds'.last = rounds.last
        /\ rounds'.whole => rounds.whole
    BY <1>1, <1>4 DEF Rounds, Broken
  <2> QED BY <1>1, <1>2, <1>4, <2>1 DEF TickKept
<1>5. CASE PollStart
  <2> DEFINE r == [PollerIdle EXCEPT !.pc = "search", !.at = now, !.filters = enabled]
  <2>1. r.at = now /\ r.doc = {} BY DEF PollerIdle
  <2>2. CASE poller' = r /\ rounds' = [rounds EXCEPT !.whole = TRUE]
    <3>1. rounds'.first = rounds.first /\ rounds'.last = rounds.last BY <1>1, <2>2 DEF Rounds
    <3>2. poller' = r BY <2>2
    <3> HIDE DEF r
    <3>3. poller'.at = now /\ \A d, e \in poller'.doc : d = e BY <2>1, <3>2
    <3>4. now <= now BY <1>3
    <3> QED BY <1>1, <1>2, <3>1, <3>3, <3>4 DEF TickKept
  <2>3. CASE UNCHANGED <<poller, rounds>> BY <1>1, <1>2, <2>3 DEF TickKept
  <2> QED BY <1>5, <2>2, <2>3 DEF PollStart
<1>6. CASE PollDone
  <2>1. poller'.at = 0 /\ poller'.doc = {} BY <1>6 DEF PollDone, PollerIdle
  <2>2. rounds.first \in Nat /\ rounds.last \in Nat /\ poller.at \in Nat
    BY <1>1 DEF Rounds, PollerRecord
  <2>3. CASE ~rounds.whole
    <3>1. rounds' = rounds BY <1>6, <2>3 DEF PollDone
    <3> QED BY <1>1, <1>2, <1>3, <2>1, <2>3, <3>1 DEF TickKept
  <2>4. CASE rounds.whole
    <3>1. /\ rounds'.first \in {rounds.first, poller.at} /\ rounds'.last = poller.at
          /\ ~rounds'.whole
      BY <1>6, <2>4 DEF PollDone
    <3> QED BY <1>1, <1>2, <1>3, <2>1, <2>2, <2>4, <3>1 DEF TickKept
  <2> QED BY <2>3, <2>4
<1>7. ASSUME NEW f \in Filter, PollSearch(f) PROVE TickKept'
  <2>1. poller'.at = poller.at /\ poller'.doc = poller.doc
    BY <1>1, <1>7 DEF PollSearch, PollerRecord
  <2> QED BY <1>4, <1>7, <2>1 DEF PollSearch
<1>8. ASSUME NEW d \in Doc, PollHit(d) PROVE TickKept'
  <2>1. poller'.at = poller.at /\ (poller'.doc = poller.doc \/ poller'.doc = {d})
    BY <1>1, <1>8 DEF PollHit, PollerRecord
  <2> QED BY <1>4, <1>8, <2>1 DEF PollHit
<1>9. ASSUME NEW d \in Doc, PollInsert(d) PROVE TickKept'
  <2>1. poller'.at = poller.at /\ poller'.doc = {}
    BY <1>1, <1>9, ZenonT(60) DEF PollInsert, InsertIfNew, Insert, PollerRecord
  <2> QED BY <1>4, <1>9, <2>1 DEF PollInsert
<1>10. ASSUME NEW a \in Alert, PollEnqueue(a) PROVE TickKept'
  <2>1. poller'.at = poller.at /\ poller'.doc = poller.doc
    BY <1>1, <1>10 DEF PollEnqueue, PollerRecord
  <2> QED BY <1>4, <1>10, <2>1 DEF PollEnqueue
<1>11. CASE PollNextFilter
  <2>1. poller'.at = poller.at /\ poller'.doc = poller.doc
    BY <1>1, <1>11 DEF PollNextFilter, PollerRecord
  <2> QED BY <1>2, <1>4, <1>11, <2>1 DEF PollNextFilter
<1> QED BY <1>2, <1>5, <1>6, <1>7, <1>8, <1>9, <1>10, <1>11 DEF PollerStep

LEMMA SearchInvStep ==
    ASSUME SearchesComplete, PInv, SearchInv, [PipelineNext]_pipelineVars PROVE SearchInv'
<1>1. edits \in Nat /\ now \in Nat BY Counts
<1>2. IndexLag \in Nat /\ PollWindow \in Nat /\ \A d \in Doc : LogTime[d] \in Nat
  BY PipelineAssumption
<1>3. poller \in PollerRecord /\ rounds \in Rounds BY DEF PInv, PollerTypes
<1>4. CASE PollerStep
  <2>1. TickKept' /\ UNCHANGED <<edits, enabled, indexed>> BY <1>4, PollerKeepsTick
  <2>2. ASSUME edits' = 0, NEW d \in indexed, InReach(d)' PROVE InSight(d)'
    <3>1. edits = 0 /\ (InReach(d) => InSight(d)) BY <2>1, <2>2 DEF SearchInv
    <3>2. CASE PollDone BY <2>2, <3>1, <3>2, DoneSees
    <3>3. CASE ~PollDone
      <4>1. UNCHANGED rounds \/ Broken \/ rounds' = [rounds EXCEPT !.whole = TRUE]
        BY <1>4, <3>3 DEF PollerStep, PollStart, PollSearch, PollHit, PollInsert, PollEnqueue,
                          PollNextFilter
      <4>2. InReach(d) BY <2>2, <4>1, ReachStays
      <4> QED BY <1>4, <3>1, <3>3, <4>2, PollerSees
    <3> QED BY <3>2, <3>3
  <2> QED BY <2>1, <2>2 DEF SearchInv, TickKept
<1>5. ASSUME UNCHANGED <<now, indexed, enabled, used, poller, rounds, edits>> PROVE SearchInv'
  <2>1. \A d : (InSight(d) => InSight(d)') /\ InReach(d)' = InReach(d)
    BY <1>5 DEF InSight, Seen, Due, WillSee, InReach
  <2> QED BY <1>5, <2>1 DEF SearchInv
<1>6. ASSUME NEW d \in Doc, Index(d) PROVE SearchInv'
  <2>1. /\ UNCHANGED <<now, enabled, used, poller, rounds, edits>>
        /\ indexed' = indexed \cup {d} /\ now <= LogTime[d] + IndexLag
    BY <1>6 DEF Index, vars, reactionVars
  <2>2. \A e : (InSight(e) => InSight(e)') /\ InReach(e)' = InReach(e)
    BY <2>1 DEF InSight, Seen, Due, WillSee, InReach
  <2>3. LogTime[d] \in Nat /\ rounds.last \in Nat /\ poller.at \in Nat
    BY <1>2, <1>3 DEF Rounds, PollerRecord
  <2>4. rounds.last <= LogTime[d] + IndexLag /\ poller.at <= LogTime[d] + IndexLag
    BY <1>1, <1>2, <2>1, <2>3 DEF SearchInv
  <2>5. InSight(d)' BY <2>1, <2>4 DEF InSight, Due
  <2> QED BY <2>1, <2>2, <2>5 DEF SearchInv
<1>7. CASE PipelineTick
  <2>1. now' = now + 1 /\ UNCHANGED <<indexed, enabled, used, poller, rounds, edits>>
    BY <1>7 DEF PipelineTick, pollerVars
  <2>2. \A d : (InSight(d) => InSight(d)') /\ InReach(d)' = InReach(d)
    BY <2>1 DEF InSight, Seen, Due, WillSee, InReach
  <2>3. rounds.last <= now' /\ poller.at <= now'
    BY <1>1, <1>3, <2>1 DEF SearchInv, Rounds, PollerRecord
  <2> QED BY <2>1, <2>2, <2>3 DEF SearchInv
<1>8. ASSUME NEW f \in Filter, ToggleFilter(f) \/ DeleteFilter(f) PROVE SearchInv'
  <2>1. UNCHANGED <<now, indexed, used, poller, rounds>> /\ edits' = edits + 1
    BY <1>8 DEF ToggleFilter, DeleteFilter, EditUnchanged, reactionVars
  <2>2. edits' # 0 BY <1>1, <2>1
  <2> QED BY <2>1, <2>2 DEF SearchInv
<1>9. CASE Quit BY <1>5, <1>9 DEF Quit, vars, reactionVars
<1>10. CASE PollerEnds
  <2>1. /\ poller.pc = "idle" /\ UNCHANGED <<now, indexed, enabled, used, rounds, edits>>
        /\ poller'.pc = "ended" /\ UNCHANGED <<poller.at, poller.doc>>
    BY <1>3, <1>10 DEF PollerEnds, vars, reactionVars, PollerRecord
  <2>2. \A d : (InSight(d) => InSight(d)') /\ InReach(d)' = InReach(d)
    BY <2>1 DEF InSight, Seen, Due, WillSee, InReach
  <2> QED BY <2>1, <2>2 DEF SearchInv
<1>11. CASE StopBatcher
  BY <1>5, <1>11 DEF StopBatcher, CloseStopCh, pollerVars, reactionVars
<1>12. CASE BatcherStep /\ UNCHANGED pollerVars
  <2>1. PICK S : S = used OBVIOUS
  <2>2. Moves BY <1>12, <2>1, BatcherMoves DEF PInv
  <2> QED BY <1>5, <1>12, <2>2 DEF Moves, pollerVars
<1>13. CASE PipelineCrash
  <2>1. /\ UNCHANGED <<now, indexed, enabled, used, edits>> /\ Broken
        /\ poller'.at = 0 /\ poller'.doc = {}
    BY <1>13 DEF PipelineCrash, Crash, ReactionsCrash, PollerIdle
  <2>2. \A d : (InSight(d) => InSight(d)') /\ InReach(d)' = InReach(d)
    BY <2>1, BreaksInSight, ReachStays
  <2>3. rounds'.first = rounds.first /\ rounds'.last = rounds.last /\ ~rounds'.whole
    BY <1>3, <2>1 DEF Rounds, Broken
  <2> QED BY <1>1, <2>1, <2>2, <2>3 DEF SearchInv
<1>14. CASE UNCHANGED pipelineVars
  BY <1>5, <1>14 DEF pipelineVars, pollerVars, vars, reactionVars
<1>15. CASE AtRest /\ UNCHANGED pollerVars BY <1>14, <1>15 DEF AtRest, pipelineVars
<1> QED BY <1>4, <1>6, <1>7, <1>8, <1>9, <1>10, <1>11, <1>12, <1>13, <1>14, <1>15
        DEF PipelineNext

(* A log line is looked for until it leaves the search window: failed calls *)
(* and slow ticks, a crash between a search and an insert and the time the  *)
(* process is down are made up for while whole ticks overlap, from the      *)
(* first tick after a longer gap on as before it, and an alert that makes   *)
(* the line a repeat was stored by then.                                    *)
(* "~2m window with overlap so minute-boundary logs are not missed"         *)
(* (es_syslog_poller.go:94-101, es_syslog_repo.go:60-66).                   *)
THEOREM OverlapMissesNothing ==
    ASSUME SearchesComplete PROVE PipelineSpec => []NoLogMissed
<1>1. PipelineInit => SearchInv
  <2> SUFFICES ASSUME PipelineInit PROVE SearchInv OBVIOUS
  <2>1. /\ now = 0 /\ enabled = Filter /\ indexed = {} /\ poller = PollerIdle
        /\ rounds = [whole |-> FALSE, first |-> 0, last |-> 0]
    BY DEF PipelineInit, Init, ReactionsInit
  <2> QED BY <2>1 DEF SearchInv, PollerIdle
<1>2. PInv /\ SearchInv /\ [PipelineNext]_pipelineVars => SearchInv' BY SearchInvStep
<1>3. PInv /\ SearchInv => NoLogMissed
  <2> SUFFICES ASSUME PInv, SearchInv, NEW d \in indexed, edits = 0, InTime(now),
                      rounds.first <= LogTime[d] + PollWindow, LogTime[d] + PollWindow < now
               PROVE  Seen(d)
    BY DEF NoLogMissed, Seen
  <2>1. now \in 0..MaxTime /\ indexed \subseteq Doc /\ rounds \in Rounds
    BY DEF PInv, PollerTypes, InvOf, TypeOK, ReactionsTypeOK
  <2>2. /\ now \in Nat /\ LogTime[d] \in Nat /\ PollWindow \in Nat /\ IndexLag \in Nat
        /\ rounds.last \in Nat
    BY <2>1, PipelineAssumption, ReactionsAssumption DEF Rounds
  <2>3. ~Due(d) BY <2>2 DEF InTime, Due
  <2> QED BY <2>3 DEF SearchInv, InSight, InReach
<1> QED BY <1>1, <1>2, <1>3, PInvAlways, PTL DEF PipelineSpec

-----------------------------------------------------------------------------
(* RuijieMail                                                               *)

MailPollerRecord ==
    [pc : {"idle", "insert", "find", "append", "hold", "post", "create", "link"},
     at : Nat, todo : SUBSET Mail, cur : SUBSET Mail, id : Nat, ts : Nat]

MailTypes ==
    /\ received \in [Mail -> 0 .. MaxTime \cup {Far}]
    /\ alerts \subseteq Mail /\ held \subseteq alerts
    /\ linkOf \in [Mail -> Nat] /\ shownIn \in [Mail -> Seq(Message)]
    /\ mailPoller \in MailPollerRecord /\ mailPolled \in BOOLEAN
    /\ quiet \in [Message -> Nat]

(* Nothing was done about the mail but to store it.                         *)
Fresh(a) == shownIn[a] = <<>> /\ a \notin held /\ linkOf[a] = NotFound

(* What the poller knows about the mail it works on, the incident it found  *)
(* or created and the message it posted; nobody else opens an incident.     *)
MailPollerKnows ==
    /\ mailPoller.pc \in {"idle", "insert"} => mailPoller.cur = {}
    /\ mailPoller.pc = "idle" => mailPoller.todo = {}
    /\ mailPoller.pc = "create" => mailPoller.ts \in 1..parents
    /\ mailPoller.cur \subseteq alerts
    /\ \A a, b \in mailPoller.cur : a = b
    /\ \A a \in mailPoller.cur :
        /\ mailPoller.pc \in {"find", "append", "hold", "post"} => Fresh(a)
        /\ mailPoller.pc = "create" =>
             shownIn[a] = <<mailPoller.ts>> /\ a \notin held /\ linkOf[a] = NotFound
        /\ mailPoller.pc \in {"append", "hold", "link"} =>
             mailPoller.id \in DOMAIN incidents /\ incidents[mailPoller.id].fp = FpOf[a]
        /\ mailPoller.pc = "link" => shownIn[a] = <<incidents[mailPoller.id].ts>> /\ a \notin held
        /\ mailPoller.pc \in {"post", "create"} /\ FpOf[a] # NoFp =>
             OpenRows(incidents, FpOf[a]) = {}

(* Where a mail can be once the poller has left it.                         *)
Filed(a) ==
    /\ a \notin alerts => Fresh(a)
    /\ Len(shownIn[a]) <= 1
    /\ a \in held => shownIn[a] = <<>>
    /\ linkOf[a] # NotFound =>
         /\ linkOf[a] \in DOMAIN incidents
         /\ incidents[linkOf[a]].fp = FpOf[a]
         /\ a \notin held => shownIn[a] = <<incidents[linkOf[a]].ts>>

RowsPosted == \A i \in DOMAIN incidents : incidents[i].ts \in 1..parents

AtMostOneOpen ==
    \A k \in Fingerprint \ {NoFp} : \A i, j \in OpenRows(incidents, k) : i = j

MInv ==
    /\ ReactionsInv
    /\ MailTypes
    /\ MailPollerKnows
    /\ \A a \in Mail : Filed(a)
    /\ RowsPosted
    /\ AtMostOneOpen

(* A mail that arrived is stored, or was not there when this tick searched, *)
(* or is still within the lookback and the tick is yet to start or to come  *)
(* to it.                                                                   *)
Awaited(a) ==
    \/ received[a] = Far
    \/ a \in alerts
    \/ received[a] = now
    \/ now <= received[a] + Lookback /\ (~mailPolled \/ a \in mailPoller.todo)

LookbackInv ==
    /\ \A a \in Mail : received[a] = Far \/ received[a] <= now
    /\ faults = 0 => \A a \in Mail : Awaited(a)

-----------------------------------------------------------------------------
(* Reactions and reminders                                                  *)

LEMMA FaultsBound == ASSUME MInv, Succeeds \/ Fails PROVE faults' \in 0..MaxFaults
  BY FaultsType DEF MInv, ReactionsInv

(* Updates of the table leave what the poller knows true.                   *)
LEMMA UpdatesKeep ==
    ASSUME MInv, UpdatesOnly, ReactionsInv', MailTypes',
           UNCHANGED <<alerts, linkOf, shownIn, held>>,
           mailPoller' = mailPoller \/ mailPoller' = MailPollerIdle
    PROVE  MInv'
<1>1. incidents \in Seq(Row) /\ RowsUpdated(incidents, incidents') /\ parents' = parents
  BY DEF MInv, ReactionsInv, ReactionsTypeOK, UpdatesOnly
<1>2. /\ DOMAIN incidents' = DOMAIN incidents
      /\ \A i \in DOMAIN incidents : /\ incidents'[i].fp = incidents[i].fp
                                     /\ incidents'[i].ts = incidents[i].ts
  BY <1>1, LenProperties DEF RowsUpdated
<1>3. \A k : OpenRows(incidents', k) \subseteq OpenRows(incidents, k)
  BY <1>1, UpdatesOpenNone
<1>4. \A a : Fresh(a)' = Fresh(a) BY DEF Fresh
<1>5. MailPollerKnows'
  <2>1. CASE mailPoller' = mailPoller
    BY <1>1, <1>2, <1>3, <1>4, <2>1, ZenonT(60) DEF MInv, MailPollerKnows
  <2>2. CASE mailPoller' = MailPollerIdle BY <2>2 DEF MailPollerKnows, MailPollerIdle
  <2> QED BY <2>1, <2>2
<1>6. ASSUME NEW a \in Mail PROVE Filed(a)' BY <1>2, <1>4 DEF MInv, Filed
<1>7. RowsPosted' BY <1>1, <1>2 DEF MInv, RowsPosted
<1>8. AtMostOneOpen' BY <1>3 DEF MInv, AtMostOneOpen
<1> QED BY <1>5, <1>6, <1>7, <1>8 DEF MInv

LEMMA MailUnchanged ==
    ASSUME MInv, UNCHANGED mailVars, quiet' \in [Message -> Nat] PROVE MailTypes'
  BY DEF MInv, MailTypes, mailVars

LEMMA HandlersStep ==
    ASSUME MInv, \/ \E k \in DOMAIN events : HandleRuijieEvent(k)
                 \/ React \/ ReminderTick
    PROVE  MInv' /\ UNCHANGED mailVars
<1>1. UNCHANGED mailVars BY DEF HandleRuijieEvent, React, ReminderTick
<1>2. ReactionsInv BY DEF MInv
<1>3. ReactionsInv' /\ UpdatesOnly
  BY <1>2, AddCheckMarkStep, AddHourglassStep, RemoveHourglassStep, ReceiveEventStep,
     RepeatEventStep, HandleUpdateStep, HandleReplyStep, RemindListStep, RemindPostStep,
     RemindBumpStep, RemindDoneStep
     DEF HandleRuijieEvent, React, ReminderTick
<1>4. quiet' \in [Message -> Nat]
  <2>1. quiet \in [Message -> Nat] /\ thread \in [Message -> Seq([post : ThreadPost, at : Nat])]
    BY DEF MInv, MailTypes, ReactionsInv, ReactionsTypeOK
  <2>2. \A m \in Message : Len(thread[m]) \in Nat BY <2>1, LenProperties
  <2> QED BY <2>1, <2>2 DEF HandleRuijieEvent, React, ReminderTick
<1> QED BY <1>1, <1>3, <1>4, MailUnchanged, UpdatesKeep DEF mailVars

LEMMA ClockStep == ASSUME MInv, RuijieTick PROVE MInv'
<1>1. ReactionsInv' /\ UpdatesOnly BY TickStep DEF MInv, RuijieTick
<1>2. MailTypes' /\ UNCHANGED <<alerts, linkOf, shownIn, held, mailPoller>>
  BY DEF MInv, MailTypes, RuijieTick, noMailChange
<1> QED BY <1>1, <1>2, UpdatesKeep

LEMMA ArriveStep == ASSUME MInv, NEW a \in Mail, Arrive(a) PROVE MInv'
<1>1. now \in 0..MaxTime /\ ReactionsInv BY DEF MInv, ReactionsInv, ReactionsTypeOK
<1>2. MailTypes' BY <1>1 DEF MInv, MailTypes, Arrive
<1>3. UpdatesOnly BY <1>1, NoUpdate DEF Arrive, reactionVars
<1>4. ReactionsInv'
  BY <1>1 DEF ReactionsInv, ReactionsTypeOK, KeptIdsExist, Arrive, reactionVars
<1> QED BY <1>2, <1>3, <1>4, UpdatesKeep DEF Arrive

LEMMA MailCrashStep == ASSUME MInv, RuijieCrash PROVE MInv'
<1>1. ReactionsInv' /\ UpdatesOnly BY ReactionsCrashStep DEF MInv, RuijieCrash
<1>2. MailPollerIdle \in MailPollerRecord BY DEF MailPollerIdle, MailPollerRecord, NotFound
<1>3. MailTypes' BY <1>2 DEF MInv, MailTypes, RuijieCrash
<1> QED BY <1>1, <1>3, UpdatesKeep DEF RuijieCrash

LEMMA AtRestStep == ASSUME MInv, UNCHANGED ruijieVars PROVE MInv'
<1>1. ReactionsInv BY DEF MInv
<1>2. UpdatesOnly BY <1>1, NoUpdate DEF ruijieVars, reactionVars
<1>3. ReactionsInv'
  BY <1>1 DEF ReactionsInv, ReactionsTypeOK, KeptIdsExist, ruijieVars, reactionVars
<1>4. quiet' \in [Message -> Nat] BY DEF MInv, MailTypes, ruijieVars
<1> QED BY <1>2, <1>3, <1>4, MailUnchanged, UpdatesKeep DEF ruijieVars, mailVars

-----------------------------------------------------------------------------
(* The poller                                                               *)

LEMMA IdlePoller ==
    /\ MailPollerIdle \in MailPollerRecord /\ MailPollerIdle.pc = "idle"
    /\ MailPollerIdle.cur = {} /\ MailPollerIdle.todo = {}
  BY DEF MailPollerIdle, MailPollerRecord, NotFound

LEMMA NextMailType ==
    ASSUME MInv, NEW todo \in SUBSET Mail
    PROVE  /\ NextMail(todo) \in MailPollerRecord /\ NextMail(todo).todo = todo
           /\ NextMail(todo).cur = {} /\ NextMail(todo).pc \in {"idle", "insert"}
           /\ NextMail(todo).pc = "idle" => todo = {}
<1>1. mailPoller \in MailPollerRecord BY DEF MInv, MailTypes
<1>2. CASE todo = {} BY <1>2, IdlePoller DEF NextMail
<1>3. CASE todo # {}
  <2> DEFINE at == mailPoller.at
             r == [MailPollerIdle EXCEPT !.pc = "insert", !.todo = todo, !.at = at]
  <2>1. at \in Nat BY <1>1 DEF MailPollerRecord
  <2>2. NextMail(todo) = r BY <1>3 DEF NextMail
  <2> HIDE DEF at
  <2>3. /\ r \in MailPollerRecord /\ r.todo = todo /\ r.cur = {} /\ r.pc = "insert"
    BY <2>1 DEF MailPollerIdle, MailPollerRecord, NotFound
  <2> HIDE DEF r
  <2> QED BY <2>2, <2>3
<1> QED BY <1>2, <1>3

(* The poller's mail is the one it has in hand.                             *)
LEMMA InHand ==
    ASSUME MInv, NEW a \in mailPoller.cur
    PROVE  a \in Mail /\ a \in alerts /\ mailPoller.cur = {a}
  BY DEF MInv, MailTypes, MailPollerKnows

(* A step of the poller that posts nothing and creates nothing, with r as   *)
(* the poller's next state.                                                 *)
LEMMA PollerMoves ==
    ASSUME MInv, UNCHANGED <<incidents, now, parents, thread, closed, hourglass, events, seen,
                             reminder>>,
           Succeeds \/ Fails, MailTypes', MailPollerKnows', \A a \in Mail : Filed(a)'
    PROVE  MInv'
<1>1. thread' \in [Message -> Seq([post : ThreadPost, at : Nat])] /\ parents' \in 0..MaxMessages
  BY DEF MInv, ReactionsInv, ReactionsTypeOK
<1>2. ReactionsInv' BY <1>1, FaultsBound, PostsKeep DEF MInv
<1>3. RowsPosted' BY DEF MInv, RowsPosted
<1>4. AtMostOneOpen' BY DEF MInv, AtMostOneOpen
<1> QED BY <1>2, <1>3, <1>4 DEF MInv

(* ... and goes on to the next mail.                                        *)
LEMMA PollerGoesToNext ==
    ASSUME MInv, UNCHANGED <<incidents, now, parents, thread, closed, hourglass, events, seen,
                             reminder>>,
           Succeeds \/ Fails, MailTypes', mailPoller'.cur = {},
           mailPoller'.pc \in {"idle", "insert"},
           mailPoller'.pc = "idle" => mailPoller'.todo = {}, \A a \in Mail : Filed(a)'
    PROVE  MInv'
<1>1. MailPollerKnows' BY DEF MailPollerKnows
<1> QED BY <1>1, PollerMoves

LEMMA PollTickStep == ASSUME MInv, PollTick PROVE MInv'
<1> DEFINE found == InLookback(now)
           r == [MailPollerIdle EXCEPT !.pc = "insert", !.at = now, !.todo = found]
<1>1. now \in Nat
  <2>1. now \in 0..MaxTime BY DEF MInv, ReactionsInv, ReactionsTypeOK
  <2> QED BY <2>1, ReactionsAssumption
<1>2. found \in SUBSET Mail BY DEF InLookback
<1>3. mailPoller' = mailPoller \/ mailPoller' = MailPollerIdle \/ mailPoller' = r BY DEF PollTick
<1>4. r \in MailPollerRecord /\ r.cur = {} /\ r.pc = "insert"
  <2> HIDE DEF found
  <2> QED BY <1>1, <1>2 DEF MailPollerIdle, MailPollerRecord, NotFound
<1> HIDE DEF r
<1>5. /\ mailPoller \in MailPollerRecord /\ mailPoller.pc = "idle"
      /\ mailPoller.cur = {} /\ mailPoller.todo = {}
  BY DEF MInv, MailTypes, MailPollerKnows, PollTick
<1>6. MailTypes'
  BY <1>3, <1>4, <1>5, IdlePoller DEF MInv, MailTypes, PollTick, noMailChange
<1>7. \A a \in Mail : Filed(a)' BY DEF MInv, Filed, Fresh, PollTick, noMailChange
<1>8. /\ UNCHANGED <<incidents, now, parents, thread, closed, hourglass, events, seen, reminder>>
      /\ Succeeds \/ Fails
  BY DEF PollTick
<1> QED BY <1>3, <1>4, <1>5, <1>6, <1>7, <1>8, IdlePoller, PollerGoesToNext

(* A new mail is in hand and nothing was done about it.                     *)
LEMMA InsertAlertStep == ASSUME MInv, NEW a \in Mail, InsertAlertIfNew(a) PROVE MInv'
<1> DEFINE rest == mailPoller.todo \ {a}
           r == [mailPoller EXCEPT !.pc = "find", !.todo = rest, !.cur = {a}]
<1>1. mailPoller \in MailPollerRecord /\ mailPoller.pc = "insert" /\ rest \in SUBSET Mail
  BY DEF MInv, MailTypes, MailPollerRecord, InsertAlertIfNew
<1>2. r \in MailPollerRecord /\ r.pc = "find" /\ r.cur = {a}
  <2> HIDE DEF rest
  <2> QED BY <1>1 DEF MailPollerRecord
<1>3. \/ alerts' = alerts \cup {a} /\ a \notin alerts /\ mailPoller' = r
      \/ (alerts' = alerts \cup {a} \/ alerts' = alerts) /\ mailPoller' = NextMail(rest)
  BY DEF InsertAlertIfNew, IsNew
<1>4. /\ UNCHANGED <<incidents, now, parents, thread, closed, hourglass, events, seen, reminder>>
      /\ UNCHANGED <<received, linkOf, shownIn, held, mailPolled, quiet, restarts>>
      /\ Succeeds \/ Fails
  BY DEF InsertAlertIfNew
<1>5. NextMail(rest) \in MailPollerRecord BY <1>1, NextMailType
<1> HIDE DEF r, rest
<1>6. MailTypes' BY <1>2, <1>3, <1>4, <1>5 DEF MInv, MailTypes
<1>7. \A b : Fresh(b)' = Fresh(b) BY <1>4 DEF Fresh
<1>8. \A b \in Mail : Filed(b)' BY <1>3, <1>4, <1>7 DEF MInv, Filed
<1>9. CASE a \notin alerts /\ alerts' = alerts \cup {a} /\ mailPoller' = r
  <2>1. Fresh(a) BY <1>9 DEF MInv, Filed
  <2>2. MailPollerKnows' BY <1>2, <1>7, <1>9, <2>1 DEF MailPollerKnows
  <2> QED BY <1>4, <1>6, <1>8, <2>2, PollerMoves
<1>10. CASE mailPoller' = NextMail(rest)
  BY <1>1, <1>4, <1>6, <1>8, <1>10, NextMailType, PollerGoesToNext
<1> QED BY <1>3, <1>9, <1>10

LEMMA FindIncidentStep == ASSUME MInv, NEW a \in Mail, FindIncident(a) PROVE MInv'
<1> DEFINE id == OpenIncident(a)
           pc == IF id = NotFound THEN "post" ELSE IF Silent(id) THEN "hold" ELSE "append"
           r == [mailPoller EXCEPT !.id = id, !.pc = pc]
<1>1. /\ mailPoller \in MailPollerRecord /\ mailPoller.pc = "find"
      /\ a \in mailPoller.cur
      /\ mailPoller.todo \in SUBSET Mail /\ incidents \in Seq(Row)
  BY DEF MInv, MailTypes, MailPollerRecord, FindIncident, ReactionsInv, ReactionsTypeOK
<1>2. \/ id = NotFound /\ (FpOf[a] # NoFp => OpenRows(incidents, FpOf[a]) = {})
      \/ id \in DOMAIN incidents /\ incidents[id].fp = FpOf[a]
  BY <1>1, FindOpenFinds, NotFoundNoneOpen DEF OpenIncident
<1>3. id \in Nat
  <2>1. DOMAIN incidents = 1..Len(incidents) /\ Len(incidents) \in Nat BY <1>1, LenProperties
  <2> HIDE DEF id
  <2> QED BY <1>2, <2>1 DEF NotFound
<1>4. /\ pc \in {"post", "hold", "append"}
      /\ id = NotFound => pc = "post"
      /\ pc = "post" => id = NotFound
  OBVIOUS
<1>5. /\ \/ mailPoller' = r
         \/ mailPoller' = NextMail(mailPoller.todo)
      /\ UNCHANGED <<incidents, now, parents, thread, closed, hourglass, events, seen, reminder>>
      /\ UNCHANGED <<noMailChange, mailPolled>>
      /\ Succeeds \/ Fails
  BY DEF FindIncident
<1> HIDE DEF id, pc
<1>6. r \in MailPollerRecord /\ r.id = id /\ r.pc = pc /\ r.cur = mailPoller.cur
  BY <1>1, <1>3, <1>4 DEF MailPollerRecord
<1> HIDE DEF r
<1>7. NextMail(mailPoller.todo) \in MailPollerRecord BY <1>1, NextMailType
<1>8. MailTypes' BY <1>5, <1>6, <1>7 DEF MInv, MailTypes, noMailChange
<1>9. \A b : Fresh(b)' = Fresh(b) BY <1>5 DEF Fresh, noMailChange
<1>10. \A b \in Mail : Filed(b)' BY <1>5, <1>9 DEF MInv, Filed, noMailChange
<1>11. CASE mailPoller' = r
  <2>1. mailPoller.cur = {a} /\ a \in alerts /\ Fresh(a)
    BY <1>1, InHand DEF MInv, MailPollerKnows
  <2>2. NotFound \notin DOMAIN incidents
    <3>1. DOMAIN incidents = 1..Len(incidents) BY <1>1, LenProperties
    <3> QED BY <3>1 DEF NotFound
  <2>3. MailPollerKnows'
    BY <1>2, <1>4, <1>5, <1>6, <1>9, <1>11, <2>1, <2>2 DEF MailPollerKnows, noMailChange
  <2> QED BY <1>5, <1>8, <1>10, <2>3, PollerMoves
<1>12. CASE mailPoller' = NextMail(mailPoller.todo)
  BY <1>1, <1>5, <1>8, <1>10, <1>12, NextMailType, PollerGoesToNext
<1> QED BY <1>5, <1>11, <1>12

LEMMA PostFailsStep == ASSUME MInv, PostFails PROVE MInv'
<1>1. mailPoller \in MailPollerRecord /\ mailPoller.todo \in SUBSET Mail
  BY DEF MInv, MailTypes, MailPollerRecord
<1>2. /\ mailPoller' = NextMail(mailPoller.todo) /\ Fails
      /\ UNCHANGED <<incidents, now, parents, thread, closed, hourglass, events, seen, reminder>>
      /\ UNCHANGED <<noMailChange, mailPolled>>
  BY DEF PostFails
<1>3. MailTypes' BY <1>1, <1>2, NextMailType DEF MInv, MailTypes, noMailChange
<1>4. \A a \in Mail : Filed(a)' BY <1>2 DEF MInv, Filed, Fresh, noMailChange
<1> QED BY <1>1, <1>2, <1>3, <1>4, NextMailType, PollerGoesToNext

(* A post that shows the mail in hand in message m, with r as the poller's  *)
(* next state.                                                              *)
LEMMA ShowMailStep ==
    ASSUME MInv, NEW a \in mailPoller.cur, Fresh(a), NEW m \in Message, ShowIn(a, m),
           NEW r \in MailPollerRecord, mailPoller' = r, r.cur = mailPoller.cur,
           UNCHANGED <<incidents, received, alerts, linkOf, held, mailPolled, quiet>>
    PROVE  /\ MailTypes' /\ \A b \in Mail : Filed(b)'
           /\ shownIn'[a] = <<m>> /\ a \notin held' /\ linkOf'[a] = NotFound
           /\ mailPoller'.cur = {a} /\ a \in alerts'
<1>1. a \in Mail /\ a \in alerts /\ mailPoller.cur = {a} BY InHand
<1>2. shownIn \in [Mail -> Seq(Message)] BY DEF MInv, MailTypes
<1>3. shownIn[a] = <<>> BY DEF Fresh
<1>4. /\ shownIn' \in [Mail -> Seq(Message)] /\ shownIn'[a] = <<m>>
      /\ \A b \in Mail : b # a => shownIn'[b] = shownIn[b]
  <2>1. shownIn' = [shownIn EXCEPT ![a] = Append(shownIn[a], m)] BY DEF ShowIn
  <2>2. Append(shownIn[a], m) = <<m>> /\ <<m>> \in Seq(Message) BY <1>3
  <2> QED BY <1>1, <1>2, <2>1, <2>2
<1>5. MailTypes' BY <1>4 DEF MInv, MailTypes
<1>6. Filed(a)'
  <2>1. Len(<<m>>) <= 1 OBVIOUS
  <2> QED BY <1>1, <1>4, <2>1 DEF Filed, Fresh
<1>7. ASSUME NEW b \in Mail, b # a PROVE Filed(b)'
  BY <1>4, <1>7 DEF MInv, Filed, Fresh
<1> QED BY <1>1, <1>4, <1>5, <1>6, <1>7 DEF Fresh

LEMMA RowIsPosted ==
    ASSUME MInv, NEW i \in DOMAIN incidents PROVE incidents[i].ts \in Message
<1>1. incidents[i].ts \in 1..parents /\ parents \in 0..MaxMessages
  BY DEF MInv, RowsPosted, ReactionsInv, ReactionsTypeOK
<1> QED BY <1>1, ReactionsAssumption DEF Message

LEMMA FollowUpStep == ASSUME MInv, NEW a \in Mail, FollowUp(a) PROVE MInv'
<1> DEFINE m == incidents[mailPoller.id].ts
           r == [mailPoller EXCEPT !.pc = "link"]
<1>1. /\ mailPoller \in MailPollerRecord /\ mailPoller.pc = "append"
      /\ a \in mailPoller.cur /\ Fresh(a)
      /\ mailPoller.id \in DOMAIN incidents /\ incidents[mailPoller.id].fp = FpOf[a]
  BY DEF MInv, MailTypes, MailPollerKnows, FollowUp
<1>2. m \in Message BY <1>1, RowIsPosted
<1>3. /\ r \in MailPollerRecord /\ r.pc = "link" /\ r.cur = mailPoller.cur /\ r.id = mailPoller.id
      /\ r.todo = mailPoller.todo
  BY <1>1 DEF MailPollerRecord
<1>4. /\ ShowIn(a, m) /\ Say(m, "followup", now) /\ mailPoller' = r /\ Succeeds
      /\ UNCHANGED <<incidents, now, parents, closed, hourglass, events, seen, reminder>>
      /\ UNCHANGED <<received, alerts, linkOf, held, mailPolled, quiet, restarts>>
  BY DEF FollowUp
<1> HIDE DEF r, m
<1>5. /\ MailTypes' /\ \A b \in Mail : Filed(b)'
      /\ shownIn'[a] = <<m>> /\ a \notin held' /\ mailPoller'.cur = {a} /\ a \in alerts'
  BY <1>1, <1>2, <1>3, <1>4, ShowMailStep
<1>6. MailPollerKnows' BY <1>1, <1>3, <1>4, <1>5 DEF MailPollerKnows, m
<1>7. thread' \in [Message -> Seq([post : ThreadPost, at : Nat])]
  <2>1. now \in 0..MaxTime BY DEF MInv, ReactionsInv, ReactionsTypeOK
  <2>2. now \in Nat BY <2>1, ReactionsAssumption
  <2> QED BY <1>4, <2>2, SayType DEF MInv, ReactionsInv, ThreadPost
<1>8. ReactionsInv'
  BY <1>4, <1>7, FaultsBound, PostsKeep DEF MInv, ReactionsInv, ReactionsTypeOK
<1>9. RowsPosted' BY <1>4 DEF MInv, RowsPosted
<1>10. AtMostOneOpen' BY <1>4 DEF MInv, AtMostOneOpen
<1> QED BY <1>5, <1>6, <1>8, <1>9, <1>10 DEF MInv

LEMMA PostParentStep == ASSUME MInv, NEW a \in Mail, PostParent(a) PROVE MInv'
<1> DEFINE m == parents + 1
           r == [mailPoller EXCEPT !.pc = "create", !.ts = m]
<1>1. /\ mailPoller \in MailPollerRecord /\ mailPoller.pc = "post"
      /\ a \in mailPoller.cur /\ Fresh(a)
      /\ FpOf[a] # NoFp => OpenRows(incidents, FpOf[a]) = {}
  BY DEF MInv, MailTypes, MailPollerKnows, PostParent
<1>2. m \in Message /\ m \in Nat /\ m \in 1..m /\ m \in 0..MaxMessages /\ parents \in Nat
      /\ 1..parents \subseteq 1..m
  <2>1. parents \in 0..MaxMessages /\ parents < MaxMessages
    BY DEF MInv, ReactionsInv, ReactionsTypeOK, PostParent
  <2> QED BY <2>1, ReactionsAssumption DEF Message
<1>3. /\ ShowIn(a, m) /\ parents' = m /\ mailPoller' = r
      /\ (Succeeds /\ Say(m, "instructions", now)) \/ (Fails /\ UNCHANGED thread)
      /\ UNCHANGED <<incidents, now, closed, hourglass, events, seen, reminder>>
      /\ UNCHANGED <<received, alerts, linkOf, held, mailPolled, quiet, restarts>>
  BY DEF PostParent
<1> HIDE DEF m
<1>4. /\ r \in MailPollerRecord /\ r.pc = "create" /\ r.cur = mailPoller.cur /\ r.ts = m
      /\ r.todo = mailPoller.todo
  BY <1>1, <1>2 DEF MailPollerRecord
<1> HIDE DEF r
<1>5. /\ MailTypes' /\ \A b \in Mail : Filed(b)'
      /\ shownIn'[a] = <<m>> /\ a \notin held' /\ linkOf'[a] = NotFound
      /\ mailPoller'.cur = {a} /\ a \in alerts'
  BY <1>1, <1>2, <1>3, <1>4, ShowMailStep
<1>6. MailPollerKnows' BY <1>1, <1>2, <1>3, <1>4, <1>5 DEF MailPollerKnows
<1>7. thread' \in [Message -> Seq([post : ThreadPost, at : Nat])]
  <2>1. now \in 0..MaxTime BY DEF MInv, ReactionsInv, ReactionsTypeOK
  <2>2. now \in Nat BY <2>1, ReactionsAssumption
  <2> QED BY <1>3, <2>2, SayType DEF MInv, ReactionsInv, ReactionsTypeOK, ThreadPost
<1>8. ReactionsInv' BY <1>2, <1>3, <1>7, FaultsBound, PostsKeep DEF MInv
<1>9. RowsPosted' BY <1>2, <1>3 DEF MInv, RowsPosted
<1>10. AtMostOneOpen' BY <1>3 DEF MInv, AtMostOneOpen
<1> QED BY <1>5, <1>6, <1>8, <1>9, <1>10 DEF MInv

(* The new row is the only open one of its alarm.                           *)
LEMMA CreateIncidentStep == ASSUME MInv, NEW a \in Mail, CreateSlackIncident(a) PROVE MInv'
<1> DEFINE n == Len(incidents) + 1
           row == NewRow(FpOf[a], mailPoller.ts, now + ReminderInterval)
           r == [mailPoller EXCEPT !.pc = "link", !.id = n]
<1>1. /\ mailPoller \in MailPollerRecord /\ mailPoller.pc = "create"
      /\ a \in mailPoller.cur
      /\ mailPoller.ts \in 1..parents /\ mailPoller.cur = {a} /\ a \in alerts
      /\ shownIn[a] = <<mailPoller.ts>> /\ a \notin held /\ linkOf[a] = NotFound
      /\ FpOf[a] # NoFp => OpenRows(incidents, FpOf[a]) = {}
  BY InHand DEF MInv, MailTypes, MailPollerKnows, CreateSlackIncident
<1>2. /\ incidents' = Append(incidents, row) /\ mailPoller' = r
      /\ UNCHANGED <<now, parents, thread, closed, hourglass, events, seen, reminder, faults>>
      /\ UNCHANGED <<noMailChange, mailPolled>>
  BY DEF CreateSlackIncident, Succeeds
<1>3. row \in Row /\ row.fp = FpOf[a] /\ row.ts = mailPoller.ts /\ ~row.resolved
  <2>1. mailPoller.ts \in Nat /\ FpOf[a] \in Fingerprint
    BY <1>1, RuijieAssumption DEF MailPollerRecord
  <2>2. now + ReminderInterval \in Nat BY NextDue DEF MInv, ReactionsInv
  <2> QED BY <2>1, <2>2 DEF NewRow, Row
<1> HIDE DEF row
<1>4. /\ ReactionsInv' /\ n \in Nat
      /\ DOMAIN incidents = 1..Len(incidents) /\ DOMAIN incidents' = 1..n
      /\ \A i \in DOMAIN incidents : incidents'[i] = incidents[i]
      /\ incidents'[n] = row
  BY <1>2, <1>3, RowAdded DEF MInv
<1>5. /\ \A i \in DOMAIN incidents' : i \in DOMAIN incidents \/ i = n
      /\ n \in DOMAIN incidents' /\ DOMAIN incidents \subseteq DOMAIN incidents'
  BY <1>4
<1> HIDE DEF n
<1>6. r \in MailPollerRecord /\ r.pc = "link" /\ r.id = n /\ r.cur = {a}
  BY <1>1, <1>4 DEF MailPollerRecord
<1> HIDE DEF r
<1>7. MailTypes' BY <1>2, <1>6 DEF MInv, MailTypes, noMailChange
<1>8. MailPollerKnows' BY <1>1, <1>2, <1>3, <1>4, <1>5, <1>6 DEF MailPollerKnows, noMailChange
<1>9. ASSUME NEW b \in Mail PROVE Filed(b)'
  <2>1. Filed(b) BY DEF MInv
  <2> QED BY <1>2, <1>4, <1>5, <2>1 DEF Filed, Fresh, noMailChange
<1>10. RowsPosted' BY <1>1, <1>2, <1>3, <1>4, <1>5 DEF MInv, RowsPosted
<1>11. AtMostOneOpen'
  <2> SUFFICES ASSUME NEW k \in Fingerprint \ {NoFp}, NEW i \in OpenRows(incidents', k),
                      NEW j \in OpenRows(incidents', k)
               PROVE  i = j
    BY DEF AtMostOneOpen
  <2>1. ASSUME NEW h \in OpenRows(incidents', k), h # n PROVE h \in OpenRows(incidents, k)
    BY <1>4, <1>5, <2>1 DEF OpenRows
  <2>2. CASE FpOf[a] = k
    <3>1. OpenRows(incidents, k) = {} BY <1>1, <2>2
    <3> QED BY <2>1, <3>1
  <2>3. CASE FpOf[a] # k
    <3>1. n \notin OpenRows(incidents', k) BY <1>3, <1>4, <2>3 DEF OpenRows
    <3> QED BY <2>1, <3>1 DEF MInv, AtMostOneOpen
  <2> QED BY <2>2, <2>3
<1> QED BY <1>4, <1>7, <1>8, <1>9, <1>10, <1>11 DEF MInv

LEMMA LinkAlertStep == ASSUME MInv, NEW a \in Mail, LinkAlert(a) PROVE MInv'
<1>1. /\ mailPoller \in MailPollerRecord /\ mailPoller.pc \in {"link", "hold"}
      /\ a \in mailPoller.cur
      /\ a \in alerts /\ a \notin held /\ mailPoller.todo \in SUBSET Mail
      /\ mailPoller.id \in DOMAIN incidents /\ incidents[mailPoller.id].fp = FpOf[a]
      /\ mailPoller.pc = "link" => shownIn[a] = <<incidents[mailPoller.id].ts>>
      /\ mailPoller.pc = "hold" => shownIn[a] = <<>>
      /\ linkOf \in [Mail -> Nat] /\ mailPoller.id \in Nat
  BY InHand DEF MInv, MailTypes, MailPollerKnows, MailPollerRecord, Fresh, LinkAlert
<1>2. /\ mailPoller' = NextMail(mailPoller.todo) /\ (Succeeds \/ Fails)
      /\ UNCHANGED <<incidents, now, parents, thread, closed, hourglass, events, seen, reminder>>
      /\ UNCHANGED <<received, alerts, shownIn, mailPolled, quiet, restarts>>
      /\ (linkOf' = [linkOf EXCEPT ![a] = mailPoller.id] \/ linkOf' = linkOf)
      /\ held' = IF mailPoller.pc = "hold" THEN held \cup {a} ELSE held
  BY DEF LinkAlert
<1>3. MailTypes'
  <2>1. linkOf' \in [Mail -> Nat] BY <1>1, <1>2
  <2>2. held' \subseteq alerts' BY <1>1, <1>2 DEF MInv, MailTypes
  <2> QED BY <1>1, <1>2, <2>1, <2>2, NextMailType DEF MInv, MailTypes
<1>4. ASSUME NEW b \in Mail PROVE Filed(b)'
  <2>1. Filed(b) BY DEF MInv
  <2>2. CASE b # a
    <3>1. linkOf'[b] = linkOf[b] /\ (b \in held' <=> b \in held) BY <1>1, <1>2, <2>2
    <3> QED BY <1>2, <2>1, <3>1 DEF Filed, Fresh
  <2>3. CASE b = a
    <3>1. linkOf'[a] = mailPoller.id \/ linkOf'[a] = linkOf[a] BY <1>1, <1>2
    <3>2. linkOf[a] # NotFound /\ a \in held' => shownIn'[a] = <<>> BY <1>1, <1>2
    <3> QED BY <1>1, <1>2, <2>1, <2>3, <3>1, <3>2 DEF Filed
  <2> QED BY <2>2, <2>3
<1> QED BY <1>1, <1>2, <1>3, <1>4, NextMailType, PollerGoesToNext

LEMMA MailInitInv == ASSUME RuijieInit PROVE MInv
<1>1. /\ received \in [Mail -> 0 .. MaxTime \cup {Far}] /\ alerts = {} /\ held = {}
      /\ linkOf = [a \in Mail |-> NotFound] /\ shownIn = [a \in Mail |-> <<>>]
      /\ mailPoller = MailPollerIdle /\ mailPolled = FALSE /\ quiet = [m \in Message |-> 0]
  BY DEF RuijieInit
<1>2. MailTypes
  <2>1. linkOf \in [Mail -> Nat] BY <1>1 DEF NotFound
  <2>2. <<>> \in Seq(Message) BY EmptySeq
  <2>3. shownIn \in [Mail -> Seq(Message)] BY <1>1, <2>2
  <2> QED BY <1>1, <2>1, <2>3, IdlePoller DEF MailTypes
<1>3. MailPollerKnows BY <1>1, IdlePoller DEF MailPollerKnows
<1>4. \A a \in Mail : Filed(a) BY <1>1 DEF Filed, Fresh
<1>5. Idle \in ReminderRecord /\ Idle.todo = {} /\ Idle.pc = "idle"
  BY DEF Idle, ReminderRecord, NotFound
<1>6. CASE ReactionsInit
  <2>1. ReactionsInv
    <3>1. incidents = <<>> /\ events = <<>> /\ DOMAIN events = {} BY <1>6 DEF ReactionsInit
    <3> QED BY <1>5, <1>6, <3>1, ReactionsAssumption
         DEF ReactionsInv, ReactionsTypeOK, KeptIdsExist, ReactionsInit
  <2>2. DOMAIN incidents = {} BY <1>6 DEF ReactionsInit
  <2> QED BY <1>2, <1>3, <1>4, <2>1, <2>2 DEF MInv, RowsPosted, AtMostOneOpen, OpenRows
<1>7. CASE ~ReactionsInit
  <2>1. PICK k \in Fingerprint \ {NoFp} : incidents = <<NewRow(k, 1, ReminderInterval)>>
    BY <1>7 DEF RuijieInit
  <2>2. /\ parents = 1 /\ now = 0 /\ faults = 0
        /\ thread = [m \in Message |-> <<>>] /\ closed = {}
        /\ hourglass = [m \in Message |-> {}]
        /\ events = <<>> /\ seen = {} /\ reminder = Idle
    BY <1>7 DEF RuijieInit
  <2>3. NewRow(k, 1, ReminderInterval) \in Row /\ NewRow(k, 1, ReminderInterval).ts = 1
    BY ReactionsAssumption DEF NewRow, Row
  <2>4. incidents \in Seq(Row) /\ DOMAIN incidents = {1} /\ incidents[1].ts = 1
    BY <2>1, <2>3
  <2>5. ReactionsInv
    <3>1. DOMAIN events = {} BY <2>2
    <3> QED BY <1>5, <2>2, <2>4, <3>1, ReactionsAssumption, RuijieAssumption
         DEF ReactionsInv, ReactionsTypeOK, KeptIdsExist
  <2> QED BY <1>2, <1>3, <1>4, <2>2, <2>4, <2>5 DEF MInv, RowsPosted, AtMostOneOpen, OpenRows
<1> QED BY <1>6, <1>7

LEMMA MailNextInv == ASSUME MInv, [RuijieNext]_ruijieVars PROVE MInv'
  BY ArriveStep, ClockStep, PollTickStep, PostFailsStep, InsertAlertStep, FindIncidentStep,
     FollowUpStep, PostParentStep, CreateIncidentStep, LinkAlertStep, HandlersStep,
     MailCrashStep, AtRestStep
     DEF RuijieNext, MailPollerStep, RuijieAtRest

LEMMA MInvAlways == RuijieSpec => []MInv
  BY MailInitInv, MailNextInv, PTL DEF RuijieSpec

(* Type correctness: the poller's memory and the rows stay in shape, and only*)
(* mails that are stored are in hand or held (MailCacher.go:130).           *)
THEOREM MailTypeCorrect == RuijieSpec => []RuijieTypeOK
<1>1. MInv => RuijieTypeOK
  BY DEF MInv, ReactionsInv, MailTypes, MailPollerKnows, MailPollerRecord, RuijieTypeOK
<1> QED BY <1>1, MInvAlways, PTL

(* A mail is shown once, or held once by a paused incident, and filed under *)
(* an incident of its own alarm, whose message shows it: the insert under   *)
(* the Graph id decides alone who goes on to Slack, and the link is written *)
(* last (MailCacher.go:175).                                                *)
THEOREM MailIsShownOnce == RuijieSpec => []MailShownOnce
<1>1. MInv => MailShownOnce
  <2> SUFFICES ASSUME MInv, NEW a \in Mail
               PROVE  Len(shownIn[a]) + (IF a \in held THEN 1 ELSE 0) <= 1
    BY DEF MInv, Filed, MailShownOnce
  <2>1. shownIn[a] \in Seq(Message) /\ Filed(a) BY DEF MInv, MailTypes
  <2>2. Len(shownIn[a]) \in Nat BY <2>1, LenProperties
  <2>3. CASE a \in held BY <2>1, <2>3 DEF Filed
  <2>4. CASE a \notin held BY <2>1, <2>2, <2>4 DEF Filed
  <2> QED BY <2>3, <2>4
<1> QED BY <1>1, MInvAlways, PTL

(* An alarm is never open twice: one goroutine looks up and creates         *)
(* incidents, and in between the handlers can only resolve the row it       *)
(* looked for (MailCacher.go:268).                                          *)
THEOREM AlarmOpenOnce == RuijieSpec => []OneOpenAlarm
<1>1. MInv => OneOpenAlarm
  <2> SUFFICES ASSUME MInv, NEW k \in Fingerprint \ {NoFp}
               PROVE  Cardinality(OpenRows(incidents, k)) <= 1
    BY DEF OneOpenAlarm
  <2>1. \A i, j \in OpenRows(incidents, k) : i = j BY DEF MInv, AtMostOneOpen
  <2>2. CASE OpenRows(incidents, k) = {}
    <3>1. Cardinality(OpenRows(incidents, k)) = 0 BY <2>2, FS_EmptySet
    <3> QED BY <3>1
  <2>3. CASE OpenRows(incidents, k) # {}
    <3>1. PICK i : OpenRows(incidents, k) = {i} BY <2>1, <2>3
    <3>2. Cardinality(OpenRows(incidents, k)) = 1 BY <3>1, FS_Singleton
    <3> QED BY <3>2
  <2> QED BY <2>2, <2>3
<1> QED BY <1>1, MInvAlways, PTL

-----------------------------------------------------------------------------
(* The lookback                                                             *)

(* A failed call is counted for good.                                       *)
LEMMA FaultsStay ==
    ASSUME faults \in Nat, Succeeds \/ Fails \/ UNCHANGED faults
    PROVE  faults' = 0 => faults = 0
  BY DEF Succeeds, Fails

(* The handlers and the reminders leave the clock alone.                    *)
LEMMA HandlersKeepTime ==
    ASSUME NEW k,
           \/ ReceiveEvent(k) \/ RepeatEvent(k) \/ HandleUpdate(k) \/ HandleReply(k)
    PROVE  now' = now /\ (Succeeds \/ Fails \/ UNCHANGED faults)
<1>1. CASE ReceiveEvent(k) BY <1>1 DEF ReceiveEvent
<1>2. CASE RepeatEvent(k) BY <1>2 DEF RepeatEvent
<1>3. CASE HandleUpdate(k) BY <1>3 DEF HandleUpdate
<1>4. CASE HandleReply(k) BY <1>4 DEF HandleReply
<1> QED BY <1>1, <1>2, <1>3, <1>4

LEMMA RemindersKeepTime ==
    ASSUME \/ RemindList \/ (\E i \in DOMAIN incidents : RemindPost(i))
           \/ RemindBump \/ RemindDone
    PROVE  now' = now /\ (Succeeds \/ Fails \/ UNCHANGED faults)
<1>1. CASE RemindList BY <1>1 DEF RemindList
<1>2. ASSUME NEW i \in DOMAIN incidents, RemindPost(i)
      PROVE  now' = now /\ (Succeeds \/ Fails \/ UNCHANGED faults)
  BY <1>2 DEF RemindPost
<1>3. CASE RemindBump BY <1>3 DEF RemindBump
<1>4. CASE RemindDone BY <1>4 DEF RemindDone
<1> QED BY <1>1, <1>2, <1>3, <1>4

LEMMA OthersKeepTime ==
    ASSUME \/ \E k \in DOMAIN events : HandleRuijieEvent(k)
           \/ React \/ ReminderTick
    PROVE  now' = now /\ (Succeeds \/ Fails \/ UNCHANGED faults)
<1>1. CASE \E k \in DOMAIN events : HandleRuijieEvent(k)
  BY <1>1, HandlersKeepTime DEF HandleRuijieEvent
<1>2. CASE React
  BY <1>2 DEF React, AddCheckMark, AddHourglass, RemoveHourglass, SendEvent
<1>3. CASE ReminderTick BY <1>3, RemindersKeepTime DEF ReminderTick
<1> QED BY <1>1, <1>2, <1>3

LEMMA Clock == ASSUME MInv PROVE now \in Nat /\ faults \in Nat /\ now <= MaxTime /\ Far > now
<1>1. now \in 0..MaxTime /\ faults \in 0..MaxFaults
  BY DEF MInv, ReactionsInv, ReactionsTypeOK
<1> QED BY <1>1, ReactionsAssumption, FarAssumption

(* A step within a unit of time keeps the promise if every mail the tick    *)
(* takes off its list is stored, or the tick is to start again.             *)
LEMMA AwaitedKept ==
    ASSUME MInv, LookbackInv, UNCHANGED <<received, now>>, alerts \subseteq alerts',
           Succeeds \/ Fails \/ UNCHANGED faults,
           faults' = 0 =>
             \/ ~mailPolled'
             \/ mailPolled' = mailPolled /\ mailPoller.todo \subseteq mailPoller'.todo \cup alerts'
    PROVE  LookbackInv'
<1>1. \A a \in Mail : (received[a] = Far \/ received[a] <= now)' BY DEF LookbackInv
<1>2. ASSUME faults' = 0, NEW a \in Mail PROVE Awaited(a)'
  <2>1. Awaited(a) BY <1>2, Clock, FaultsStay DEF LookbackInv
  <2> QED BY <1>2, <2>1 DEF Awaited
<1> QED BY <1>1, <1>2 DEF LookbackInv

LEMMA ArriveAwaited == ASSUME MInv, LookbackInv, NEW a \in Mail, Arrive(a) PROVE LookbackInv'
<1>1. received \in [Mail -> 0 .. MaxTime \cup {Far}] BY DEF MInv, MailTypes
<1>2. received'[a] = now /\ \A b \in Mail : b # a => received'[b] = received[b]
  BY <1>1 DEF Arrive
<1>3. UNCHANGED <<alerts, mailPolled, mailPoller, now, faults>> BY DEF Arrive, reactionVars
<1> QED BY <1>2, <1>3, Clock DEF LookbackInv, Awaited

(* The clock moves on after the tick of this unit: what the tick did not    *)
(* store reached the folder since, and is within the lookback of the next.  *)
LEMMA ClockAwaited ==
    ASSUME MInv, LookbackInv, RuijieTick, Lookback # 0 PROVE LookbackInv'
<1>1. /\ now' = now + 1 /\ ~mailPolled' /\ mailPolled /\ mailPoller.todo = {}
      /\ UNCHANGED <<received, alerts, faults>>
  BY DEF RuijieTick, Tick, noMailChange, MInv, MailPollerKnows
<1>2. now \in Nat /\ Lookback \in Nat \ {0} BY Clock, RuijieAssumption
<1>3. ASSUME NEW a \in Mail PROVE received[a] = Far \/ received[a] \in Nat
  BY ReactionsAssumption DEF MInv, MailTypes
<1>4. ASSUME NEW a \in Mail PROVE (received[a] = Far \/ received[a] <= now)'
  BY <1>1, <1>2, <1>3 DEF LookbackInv
<1>5. ASSUME faults' = 0, NEW a \in Mail PROVE Awaited(a)'
  <2>1. received[a] = Far \/ a \in alerts \/ received[a] = now
    BY <1>1, <1>5 DEF LookbackInv, Awaited
  <2> QED BY <1>1, <1>2, <2>1 DEF Awaited
<1> QED BY <1>4, <1>5 DEF LookbackInv

(* The search of the tick finds every mail of the lookback.                 *)
LEMMA SearchAwaited == ASSUME MInv, LookbackInv, PollTick PROVE LookbackInv'
<1>1. UNCHANGED <<received, alerts, now>> /\ (Succeeds \/ Fails)
  BY DEF PollTick, noMailChange
<1>2. \A a \in Mail : (received[a] = Far \/ received[a] <= now)' BY <1>1 DEF LookbackInv
<1>3. ASSUME faults' = 0, NEW a \in Mail PROVE Awaited(a)'
  <2>1. Awaited(a) BY <1>1, <1>3, Clock, FaultsStay DEF LookbackInv
  <2>2. ~Fails BY <1>3, Clock DEF Fails
  <2>3. InLookback(now) \subseteq mailPoller'.todo
    BY <2>2 DEF PollTick, MailPollerIdle
  <2>4. CASE received[a] = Far \/ a \in alerts \/ received[a] = now
    BY <1>1, <2>4 DEF Awaited
  <2>5. CASE received[a] # Far /\ received[a] # now /\ a \notin alerts
    <3>1. now <= received[a] + Lookback /\ received[a] <= now
      BY <2>1, <2>5 DEF Awaited, LookbackInv
    <3>2. a \in InLookback(now) BY <3>1 DEF InLookback
    <3> QED BY <1>1, <2>3, <3>1, <3>2 DEF Awaited
  <2> QED BY <2>4, <2>5
<1> QED BY <1>2, <1>3 DEF LookbackInv

LEMMA InsertAwaited ==
    ASSUME MInv, LookbackInv, NEW a \in Mail, InsertAlertIfNew(a) PROVE LookbackInv'
<1> DEFINE rest == mailPoller.todo \ {a}
           r == [mailPoller EXCEPT !.pc = "find", !.todo = rest, !.cur = {a}]
<1>1. mailPoller \in MailPollerRecord /\ rest \in SUBSET Mail
  BY DEF MInv, MailTypes, MailPollerRecord
<1>2. r.todo = rest
  <2> HIDE DEF rest
  <2> QED BY <1>1 DEF MailPollerRecord
<1>3. NextMail(rest).todo = rest BY <1>1, NextMailType
<1>4. UNCHANGED <<received, now, mailPolled>> /\ (Succeeds \/ Fails)
  BY DEF InsertAlertIfNew
<1>5. \/ alerts' = alerts \cup {a} /\ (mailPoller' = r \/ mailPoller' = NextMail(rest))
      \/ Fails /\ alerts' = alerts
  BY DEF InsertAlertIfNew
<1>6. faults' = 0 => ~Fails BY Clock DEF Fails
<1> HIDE DEF r
<1>7. faults' = 0 => mailPoller.todo \subseteq mailPoller'.todo \cup alerts'
  BY <1>2, <1>3, <1>5, <1>6
<1> QED BY <1>4, <1>5, <1>7, AwaitedKept

(* The post and the row of a mail leave the list of the tick alone.         *)
LEMMA PostingAwaited ==
    ASSUME MInv, LookbackInv,
           PostFails \/ \E a \in Mail : \/ FindIncident(a) \/ FollowUp(a) \/ PostParent(a)
                                        \/ CreateSlackIncident(a) \/ LinkAlert(a)
    PROVE  LookbackInv'
<1>1. mailPoller \in MailPollerRecord /\ mailPoller.todo \in SUBSET Mail
  BY DEF MInv, MailTypes, MailPollerRecord
<1>2. NextMail(mailPoller.todo).todo = mailPoller.todo BY <1>1, NextMailType
<1>3. ASSUME NEW pc, NEW id, NEW ts,
             \/ mailPoller' = [mailPoller EXCEPT !.pc = pc]
             \/ mailPoller' = [mailPoller EXCEPT !.id = id, !.pc = pc]
             \/ mailPoller' = [mailPoller EXCEPT !.pc = pc, !.id = id]
             \/ mailPoller' = [mailPoller EXCEPT !.pc = pc, !.ts = ts]
      PROVE  mailPoller'.todo = mailPoller.todo
  BY <1>1, <1>3 DEF MailPollerRecord
<1>4. CASE PostFails
  BY <1>2, <1>4, AwaitedKept DEF PostFails, noMailChange
<1>5. ASSUME NEW a \in Mail, FindIncident(a) PROVE LookbackInv'
  <2>1. mailPoller'.todo = mailPoller.todo BY <1>2, <1>3, <1>5 DEF FindIncident
  <2> QED BY <1>5, <2>1, AwaitedKept DEF FindIncident, noMailChange
<1>6. ASSUME NEW a \in Mail, FollowUp(a) PROVE LookbackInv'
  <2>1. mailPoller'.todo = mailPoller.todo BY <1>3, <1>6 DEF FollowUp
  <2> QED BY <1>6, <2>1, AwaitedKept DEF FollowUp
<1>7. ASSUME NEW a \in Mail, PostParent(a) PROVE LookbackInv'
  <2>1. mailPoller'.todo = mailPoller.todo BY <1>3, <1>7 DEF PostParent
  <2> QED BY <1>7, <2>1, AwaitedKept DEF PostParent
<1>8. ASSUME NEW a \in Mail, CreateSlackIncident(a) PROVE LookbackInv'
  <2>1. mailPoller'.todo = mailPoller.todo BY <1>3, <1>8 DEF CreateSlackIncident
  <2> QED BY <1>8, <2>1, AwaitedKept DEF CreateSlackIncident, noMailChange
<1>9. ASSUME NEW a \in Mail, LinkAlert(a) PROVE LookbackInv'
  BY <1>2, <1>9, AwaitedKept DEF LinkAlert
<1> QED BY <1>4, <1>5, <1>6, <1>7, <1>8, <1>9

LEMMA AwaitedNext ==
    ASSUME MInv, LookbackInv, [RuijieNext]_ruijieVars, Lookback # 0 PROVE LookbackInv'
<1>1. CASE RuijieCrash
  BY <1>1, AwaitedKept DEF RuijieCrash, ReactionsCrash
<1>2. CASE \/ \E k \in DOMAIN events : HandleRuijieEvent(k)
           \/ React \/ ReminderTick
  <2>1. UNCHANGED mailVars BY <1>2, HandlersStep
  <2>2. now' = now /\ (Succeeds \/ Fails \/ UNCHANGED faults) BY <1>2, OthersKeepTime
  <2> QED BY <2>1, <2>2, AwaitedKept DEF mailVars
<1>3. CASE UNCHANGED ruijieVars
  BY <1>3, AwaitedKept DEF ruijieVars, reactionVars, mailVars
<1> QED BY <1>1, <1>2, <1>3, ArriveAwaited, ClockAwaited, SearchAwaited, InsertAwaited,
           PostingAwaited DEF RuijieNext, MailPollerStep, RuijieAtRest

(* A mail older than the lookback is stored, where the lookback reaches     *)
(* over the last poll (config.go:175 looks back ten minutes, and            *)
(* MailCacher.go:259 never less than one), no call fails and restarts are   *)
(* polled again at once: what one tick leaves, the next one finds           *)
(* (MailCacher.go:145).                                                     *)
THEOREM LookbackMissesNothing ==
    ASSUME Lookback # 0 PROVE RuijieSpec => []NoMailMissed
<1>1. RuijieInit => LookbackInv
  <2> SUFFICES ASSUME RuijieInit PROVE LookbackInv OBVIOUS
  <2>1. \A a \in Mail : received[a] = Far BY DEF RuijieInit
  <2> QED BY <2>1 DEF LookbackInv, Awaited
<1>2. MInv /\ LookbackInv /\ [RuijieNext]_ruijieVars => LookbackInv' BY AwaitedNext
<1>3. MInv /\ LookbackInv => NoMailMissed
  <2> SUFFICES ASSUME MInv, LookbackInv, NEW a \in Mail,
                      faults = 0, now > received[a] + Lookback
               PROVE  a \in alerts
    BY DEF NoMailMissed
  <2>1. now \in Nat /\ Far > now /\ Lookback \in Nat BY Clock, RuijieAssumption
  <2>2. received[a] \in Nat \/ received[a] = Far
    BY ReactionsAssumption DEF MInv, MailTypes
  <2>3. Far \in Nat BY FarAssumption
  <2>4. Awaited(a) BY DEF LookbackInv
  <2> QED BY <2>1, <2>2, <2>3, <2>4 DEF Awaited
<1> QED BY <1>1, <1>2, <1>3, MInvAlways, PTL DEF RuijieSpec

-----------------------------------------------------------------------------
(* Paused incidents                                                         *)

(* At most one element.                                                     *)
Few(S) == \A a, b \in S : a = b

Appending(i) == mailPoller.pc = "append" /\ mailPoller.id = i
FollowupsIn(m) == Since(thread[m], "followup", quiet[m])
RemindersIn(m) == Since(thread[m], "reminder", quiet[m])

(* What may still come to the thread of a paused incident: a reply if the   *)
(* poller has it in hand, a reminder if the tick has it on its list.        *)
Quiet(i) ==
    /\ Few(FollowupsIn(incidents[i].ts)) /\ Few(RemindersIn(incidents[i].ts))
    /\ Appending(i) => FollowupsIn(incidents[i].ts) = {}
    /\ i \in reminder.todo => RemindersIn(incidents[i].ts) = {}

(* Each incident has a message of its own.                                  *)
ThreadsApart ==
    /\ \A i, j \in DOMAIN incidents : incidents[i].ts = incidents[j].ts => i = j
    /\ mailPoller.pc = "create" => \A i \in DOMAIN incidents : incidents[i].ts # mailPoller.ts

QuietInv ==
    /\ ThreadsApart
    /\ \A i \in DOMAIN incidents : incidents[i].snoozed => Quiet(i)

ShownPost == [post : ThreadPost, at : Nat]

LEMMA SinceLast == ASSUME NEW s \in Seq(ShownPost), NEW kind PROVE Since(s, kind, Len(s)) = {}
<1>1. DOMAIN s = 1..Len(s) /\ Len(s) \in Nat BY LenProperties
<1> QED BY <1>1 DEF Since

(* One more post in a thread.                                               *)
LEMMA SinceAppend ==
    ASSUME NEW s \in Seq(ShownPost), NEW p \in ShownPost, NEW kind, NEW n
    PROVE  /\ Since(Append(s, p), kind, n) \subseteq Since(s, kind, n) \cup {Len(s) + 1}
           /\ p.post # kind => Since(Append(s, p), kind, n) = Since(s, kind, n)
<1> DEFINE t == Append(s, p)
<1>1. /\ DOMAIN s = 1..Len(s) /\ Len(s) \in Nat /\ DOMAIN t = 1..(Len(s) + 1)
      /\ \A k \in 1..Len(s) : t[k] = s[k]
      /\ t[Len(s) + 1] = p
  BY LenProperties, AppendProperties
<1> HIDE DEF t
<1>2. \A k \in DOMAIN t : k \in DOMAIN s \/ k = Len(s) + 1 BY <1>1
<1>3. DOMAIN s \subseteq DOMAIN t BY <1>1
<1>4. Since(t, kind, n) \subseteq Since(s, kind, n) \cup {Len(s) + 1}
  BY <1>1, <1>2 DEF Since
<1>5. ASSUME p.post # kind PROVE Since(t, kind, n) = Since(s, kind, n)
  BY <1>1, <1>2, <1>3, <1>5 DEF Since
<1> QED BY <1>4, <1>5 DEF t

LEMMA ThreadTypes ==
    ASSUME MInv
    PROVE  /\ thread \in [Message -> Seq(ShownPost)] /\ quiet \in [Message -> Nat]
           /\ incidents \in Seq(Row) /\ DOMAIN incidents = 1..Len(incidents)
           /\ \A i \in DOMAIN incidents : incidents[i].ts \in Message
<1>1. thread \in [Message -> Seq(ShownPost)] /\ quiet \in [Message -> Nat] /\ incidents \in Seq(Row)
  BY DEF MInv, MailTypes, ReactionsInv, ReactionsTypeOK, ShownPost
<1>2. DOMAIN incidents = 1..Len(incidents) BY <1>1, LenProperties
<1> QED BY <1>1, <1>2, RowIsPosted

(* What a post does to the thread of message m.                             *)
LEMMA SaySince ==
    ASSUME MInv, NEW m \in Message, NEW p \in Message, NEW said \in ThreadPost, NEW at \in Nat,
           Say(p, said, at), NEW kind, NEW n \in Nat
    PROVE  /\ Since(thread'[m], kind, n)
                \subseteq Since(thread[m], kind, n) \cup {Len(thread[m]) + 1}
           /\ p # m \/ said # kind => Since(thread'[m], kind, n) = Since(thread[m], kind, n)
<1>1. thread \in [Message -> Seq(ShownPost)] BY ThreadTypes
<1>2. Post(said, at) \in ShownPost /\ Post(said, at).post = said BY DEF Post, ShownPost
<1>3. thread' = [thread EXCEPT ![p] = Append(thread[p], Post(said, at))] BY DEF Say
<1>4. CASE p # m
  <2>1. thread'[m] = thread[m] BY <1>1, <1>3, <1>4
  <2> QED BY <2>1
<1>5. CASE p = m
  <2>1. thread'[m] = Append(thread[m], Post(said, at)) BY <1>1, <1>3, <1>5
  <2>2. thread[m] \in Seq(ShownPost) BY <1>1
  <2> QED BY <1>2, <1>5, <2>1, <2>2, SinceAppend
<1> QED BY <1>4, <1>5

(* A post of another kind, or in another thread, is not one that counts.    *)
LEMMA SayOther ==
    ASSUME MInv, NEW m \in Message, NEW p \in Message, NEW said \in ThreadPost, NEW at \in Nat,
           Say(p, said, at), NEW kind, NEW n \in Nat, p # m \/ said # kind
    PROVE  Since(thread'[m], kind, n) = Since(thread[m], kind, n)
BY SaySince, SMTT(60)

(* Steps that pause nothing, and post neither a reply nor a reminder.       *)
LEMMA QuietKept ==
    ASSUME MInv, QuietInv, \A m \in Message : quiet'[m] = quiet[m],
           DOMAIN incidents' = DOMAIN incidents,
           \A i \in DOMAIN incidents : /\ incidents'[i].ts = incidents[i].ts
                                       /\ incidents'[i].snoozed => incidents[i].snoozed,
           \/ UNCHANGED thread
           \/ \E p \in Message, said \in ThreadPost \ {"followup", "reminder"}, at \in Nat :
                Say(p, said, at),
           \A i \in DOMAIN incidents : incidents[i].snoozed =>
               /\ Appending(i)' => Appending(i)
               /\ i \in reminder'.todo => i \in reminder.todo,
           \/ mailPoller'.pc # "create"
           \/ mailPoller'.pc = mailPoller.pc /\ mailPoller'.ts = mailPoller.ts
           \/ mailPoller'.ts \notin 1..parents
    PROVE  QuietInv'
<1>1. ThreadsApart'
  <2>1. \A i \in DOMAIN incidents : incidents[i].ts \in 1..parents BY DEF MInv, RowsPosted
  <2> QED BY <2>1 DEF QuietInv, ThreadsApart
<1>2. ASSUME NEW i \in DOMAIN incidents, incidents'[i].snoozed PROVE Quiet(i)'
  <2>1. PICK m \in Message, n \in Nat : m = incidents[i].ts /\ n = quiet[m]
    <3>1. incidents[i].ts \in Message /\ quiet[incidents[i].ts] \in Nat BY ThreadTypes
    <3> QED BY <3>1
  <2>2. Quiet(i) BY <1>2 DEF QuietInv
  <2>3. quiet'[m] = n BY <2>1
  <2>4. ASSUME NEW kind \in {"followup", "reminder"}
        PROVE  Since(thread'[m], kind, n) = Since(thread[m], kind, n)
    <3>1. CASE UNCHANGED thread BY <3>1
    <3>2. CASE \E p \in Message, said \in ThreadPost \ {"followup", "reminder"}, at \in Nat :
                Say(p, said, at)
      <4>1. PICK p \in Message, said \in ThreadPost \ {"followup", "reminder"}, at \in Nat :
                     Say(p, said, at)
        BY <3>2
      <4>2. said # kind BY <2>4
      <4>3. m \in Message /\ n \in Nat BY <2>1
      <4>4. said \in ThreadPost /\ Say(p, said, at) BY <4>1
      <4>5. (p # m \/ said # kind) => Since(thread'[m], kind, n) = Since(thread[m], kind, n)
        BY <4>1, <4>3, <4>4, SaySince
      <4> QED BY <4>2, <4>5
    <3> QED BY <3>1, <3>2
  <2>5. FollowupsIn(m)' = FollowupsIn(m) /\ RemindersIn(m)' = RemindersIn(m)
    BY <2>1, <2>3, <2>4 DEF FollowupsIn, RemindersIn
  <2> QED BY <1>2, <2>1, <2>2, <2>5 DEF Quiet
<1> QED BY <1>1, <1>2 DEF QuietInv

LEMMA QuietInit == ASSUME RuijieInit PROVE QuietInv
<1>1. MInv BY MailInitInv
<1>2. \A i \in DOMAIN incidents : i = 1 /\ ~incidents[i].snoozed
  BY DEF RuijieInit, ReactionsInit, NewRow
<1>3. mailPoller.pc # "create" BY IdlePoller DEF RuijieInit
<1> QED BY <1>2, <1>3 DEF QuietInv, ThreadsApart

(* The clock, the mail folder, a restart, and what people do.               *)
LEMMA QuietOthers ==
    ASSUME MInv, QuietInv,
           \/ \E a \in Mail : Arrive(a)
           \/ RuijieTick \/ React \/ RuijieCrash \/ RuijieAtRest \/ UNCHANGED ruijieVars
    PROVE  QuietInv'
<1>1. UNCHANGED <<incidents, thread, quiet>>
  BY DEF Arrive, RuijieTick, Tick, noMailChange, React, AddCheckMark, AddHourglass,
     RemoveHourglass, SendEvent, RuijieCrash, ReactionsCrash, RuijieAtRest, ruijieVars, reactionVars
<1>2. mailPoller' = mailPoller \/ (mailPoller'.pc # "append" /\ mailPoller'.pc # "create")
  BY IdlePoller DEF Arrive, RuijieTick, React, RuijieCrash, RuijieAtRest, ruijieVars, mailVars
<1>3. reminder' = reminder \/ reminder'.todo = {}
  <2>1. CASE RuijieCrash
    <3>1. reminder' = Idle BY <2>1 DEF RuijieCrash, ReactionsCrash
    <3> QED BY <3>1 DEF Idle
  <2>2. CASE ~RuijieCrash
    BY <2>2 DEF Arrive, RuijieTick, Tick, React, AddCheckMark, AddHourglass, RemoveHourglass,
                SendEvent, RuijieAtRest, ruijieVars, reactionVars
  <2> QED BY <2>1, <2>2
<1>4. \A i \in DOMAIN incidents : /\ Appending(i)' => Appending(i)
                                  /\ i \in reminder'.todo => i \in reminder.todo
  BY <1>2, <1>3 DEF Appending
<1> QED BY <1>1, <1>2, <1>4, QuietKept

(* The poller, up to a post; it takes up an incident that is not paused.    *)
LEMMA QuietPolling ==
    ASSUME MInv, QuietInv,
           \/ PollTick \/ PostFails
           \/ \E a \in Mail : InsertAlertIfNew(a) \/ LinkAlert(a)
    PROVE  QuietInv'
<1>1. UNCHANGED <<incidents, thread, quiet, reminder>>
  BY DEF PollTick, PostFails, InsertAlertIfNew, LinkAlert, noMailChange
<1>2. mailPoller \in MailPollerRecord /\ mailPoller.todo \in SUBSET Mail
  BY DEF MInv, MailTypes, MailPollerRecord
<1>3. \A todo \in SUBSET Mail : NextMail(todo).pc \notin {"append", "create"}
  BY NextMailType
<1>4. mailPoller'.pc \notin {"append", "create"}
  <2>1. CASE PollTick
    <3>1. mailPoller.pc = "idle" BY <2>1 DEF PollTick
    <3> QED BY <1>2, <2>1, <3>1, IdlePoller DEF PollTick, MailPollerIdle
  <2>2. CASE PostFails BY <1>2, <1>3, <2>2 DEF PostFails
  <2>3. ASSUME NEW a \in Mail, InsertAlertIfNew(a) PROVE mailPoller'.pc \notin {"append", "create"}
    <3>1. mailPoller.todo \ {a} \in SUBSET Mail BY <1>2
    <3> QED BY <1>2, <1>3, <2>3, <3>1 DEF InsertAlertIfNew, MailPollerRecord
  <2>4. ASSUME NEW a \in Mail, LinkAlert(a) PROVE mailPoller'.pc \notin {"append", "create"}
    BY <1>2, <1>3, <2>4 DEF LinkAlert
  <2> QED BY <2>1, <2>2, <2>3, <2>4
<1>5. \A i \in DOMAIN incidents : /\ Appending(i)' => Appending(i)
                                  /\ i \in reminder'.todo => i \in reminder.todo
  BY <1>1, <1>4 DEF Appending
<1> QED BY <1>1, <1>4, <1>5, QuietKept

LEMMA QuietFind == ASSUME MInv, QuietInv, NEW a \in Mail, FindIncident(a) PROVE QuietInv'
<1>1. UNCHANGED <<incidents, thread, quiet, reminder>>
  BY DEF FindIncident, noMailChange
<1>2. mailPoller \in MailPollerRecord /\ mailPoller.todo \in SUBSET Mail
  BY DEF MInv, MailTypes, MailPollerRecord
<1>3. PICK id : id = OpenIncident(a) OBVIOUS
<1>4. PICK pc : pc = IF id = NotFound THEN "post" ELSE IF Silent(id) THEN "hold" ELSE "append"
  OBVIOUS
<1>5. \/ mailPoller' = [mailPoller EXCEPT !.id = id, !.pc = pc]
      \/ mailPoller' = NextMail(mailPoller.todo)
  BY <1>3, <1>4 DEF FindIncident
<1>6. /\ mailPoller'.pc # "create"
      /\ mailPoller'.pc = "append" => ~incidents[mailPoller'.id].snoozed
  <2>1. CASE mailPoller' = [mailPoller EXCEPT !.id = id, !.pc = pc]
    <3>1. mailPoller'.pc = pc /\ mailPoller'.id = id BY <1>2, <2>1 DEF MailPollerRecord
    <3>2. pc # "create" /\ (pc = "append" => ~incidents[id].snoozed) BY <1>4 DEF Silent
    <3> QED BY <3>1, <3>2
  <2>2. CASE mailPoller' = NextMail(mailPoller.todo) BY <1>2, <2>2, NextMailType
  <2> QED BY <1>5, <2>1, <2>2
<1>7. \A i \in DOMAIN incidents : incidents[i].snoozed =>
          /\ Appending(i)' => Appending(i)
          /\ i \in reminder'.todo => i \in reminder.todo
  BY <1>1, <1>6 DEF Appending
<1> QED BY <1>1, <1>6, <1>7, QuietKept

(* A new message, and its row, which is not paused.                         *)
LEMMA QuietParent == ASSUME MInv, QuietInv, NEW a \in Mail, PostParent(a) PROVE QuietInv'
<1>1. /\ UNCHANGED <<incidents, quiet, reminder>>
      /\ UNCHANGED thread \/ Say(parents + 1, "instructions", now)
  BY DEF PostParent
<1>2. mailPoller \in MailPollerRecord /\ parents \in Nat /\ now \in Nat /\ parents + 1 \in Message
  <2>1. parents \in 0..MaxMessages /\ now \in 0..MaxTime /\ parents < MaxMessages
    BY DEF MInv, ReactionsInv, ReactionsTypeOK, PostParent
  <2> QED BY <2>1, ReactionsAssumption DEF MInv, MailTypes, Message
<1>3. PICK m : m = parents + 1 OBVIOUS
<1>4. mailPoller' = [mailPoller EXCEPT !.pc = "create", !.ts = m] BY <1>3 DEF PostParent
<1>5. mailPoller'.pc = "create" /\ mailPoller'.ts = m BY <1>2, <1>4 DEF MailPollerRecord
<1>6. mailPoller'.ts \notin 1..parents BY <1>2, <1>3, <1>5
<1>7. "instructions" \in ThreadPost \ {"followup", "reminder"} BY DEF ThreadPost
<1>8. \/ UNCHANGED thread
      \/ \E p \in Message, said \in ThreadPost \ {"followup", "reminder"}, at \in Nat :
            Say(p, said, at)
  BY <1>1, <1>2, <1>7
<1>9. \A i \in DOMAIN incidents : /\ Appending(i)' => Appending(i)
                                  /\ i \in reminder'.todo => i \in reminder.todo
  BY <1>1, <1>5 DEF Appending
<1> QED BY <1>1, <1>6, <1>8, <1>9, QuietKept

LEMMA QuietCreate == ASSUME MInv, QuietInv, NEW a \in Mail, CreateSlackIncident(a) PROVE QuietInv'
<1>1. /\ UNCHANGED <<thread, quiet, reminder>>
      /\ mailPoller.pc = "create" /\ mailPoller \in MailPollerRecord /\ incidents \in Seq(Row)
  BY DEF CreateSlackIncident, noMailChange, MInv, MailTypes, ReactionsInv, ReactionsTypeOK
<1>2. PICK row : row = NewRow(FpOf[a], mailPoller.ts, now + ReminderInterval) OBVIOUS
<1>3. row.ts = mailPoller.ts /\ ~row.snoozed /\ row \in Row
  <2>1. mailPoller.ts \in Nat /\ FpOf[a] \in Fingerprint
    BY <1>1, RuijieAssumption DEF MailPollerRecord
  <2>2. now + ReminderInterval \in Nat BY NextDue DEF MInv, ReactionsInv
  <2> QED BY <1>2, <2>1, <2>2 DEF NewRow, Row
<1>4. incidents' = Append(incidents, row) BY <1>2 DEF CreateSlackIncident
<1>5. PICK n : n = Len(incidents) + 1 OBVIOUS
<1>6. /\ \A i \in DOMAIN incidents' : i \in DOMAIN incidents \/ i = n
      /\ \A i \in DOMAIN incidents : incidents'[i] = incidents[i]
      /\ incidents'[n] = row
  BY <1>1, <1>3, <1>4, <1>5, LenProperties, AppendProperties
<1>7. mailPoller'.pc = "link" BY <1>1 DEF CreateSlackIncident, MailPollerRecord
<1>8. ThreadsApart'
  BY <1>1, <1>3, <1>6, <1>7 DEF QuietInv, ThreadsApart
<1>9. ASSUME NEW i \in DOMAIN incidents', incidents'[i].snoozed PROVE Quiet(i)'
  <2>1. i \in DOMAIN incidents /\ incidents'[i] = incidents[i] BY <1>3, <1>6, <1>9
  <2>2. Quiet(i) BY <1>9, <2>1 DEF QuietInv
  <2>3. PICK m : m = incidents[i].ts OBVIOUS
  <2>4. FollowupsIn(m)' = FollowupsIn(m) /\ RemindersIn(m)' = RemindersIn(m) /\ ~Appending(i)'
    BY <1>1, <1>7 DEF FollowupsIn, RemindersIn, Appending
  <2> QED BY <1>1, <2>1, <2>2, <2>3, <2>4 DEF Quiet
<1> QED BY <1>8, <1>9 DEF QuietInv

(* Few are few after a first one.                                           *)
LEMMA FirstOne == ASSUME NEW S, NEW T, NEW x, T \subseteq S \cup {x}, S = {} PROVE Few(T)
  BY DEF Few

(* The reply in hand is the first since the pause, if there was one.        *)
LEMMA QuietFollowUp == ASSUME MInv, QuietInv, NEW a \in Mail, FollowUp(a) PROVE QuietInv'
<1>1. /\ UNCHANGED <<incidents, quiet, reminder>>
      /\ mailPoller \in MailPollerRecord /\ mailPoller.pc = "append"
      /\ mailPoller.id \in DOMAIN incidents
  BY DEF FollowUp, MInv, MailTypes, MailPollerKnows
<1>2. PICK h \in DOMAIN incidents : h = mailPoller.id BY <1>1
<1>3. PICK p \in Message : p = incidents[h].ts BY ThreadTypes
<1>4. PICK at \in Nat : at = now
  <2>1. now \in 0..MaxTime BY DEF MInv, ReactionsInv, ReactionsTypeOK
  <2> QED BY <2>1, ReactionsAssumption
<1>5. Say(p, "followup", at) /\ "followup" \in ThreadPost
  BY <1>2, <1>3, <1>4 DEF FollowUp, ThreadPost
<1>6. mailPoller'.pc = "link" BY <1>1 DEF FollowUp, MailPollerRecord
<1>7. ThreadsApart' BY <1>1, <1>6 DEF QuietInv, ThreadsApart
<1>8. ASSUME NEW i \in DOMAIN incidents, incidents[i].snoozed PROVE Quiet(i)'
  <2>1. Quiet(i) BY <1>8 DEF QuietInv
  <2>2. PICK m \in Message : m = incidents[i].ts BY ThreadTypes
  <2>3. PICK n \in Nat : n = quiet[m] BY ThreadTypes
  <2>4. quiet'[m] = n /\ incidents'[i].ts = m BY <1>1, <2>2, <2>3
  <2>5. Since(thread'[m], "reminder", n) = Since(thread[m], "reminder", n)
    BY <1>5, SaySince
  <2>6. RemindersIn(m)' = RemindersIn(m) BY <2>3, <2>4, <2>5 DEF RemindersIn
  <2>7. Few(FollowupsIn(m))'
    <3>1. PICK l : l = Len(thread[m]) + 1 OBVIOUS
    <3>2. Since(thread'[m], "followup", n) \subseteq Since(thread[m], "followup", n) \cup {l}
      BY <1>5, <3>1, SaySince
    <3>3. CASE i = h
      <4>1. Since(thread[m], "followup", n) = {}
        BY <1>1, <1>2, <2>1, <2>2, <2>3, <3>3 DEF Quiet, Appending, FollowupsIn
      <4> QED BY <2>4, <3>2, <4>1, FirstOne DEF FollowupsIn
    <3>4. CASE i # h
      <4>1. p # m BY <1>3, <2>2, <3>4 DEF QuietInv, ThreadsApart
      <4>2. Since(thread'[m], "followup", n) = Since(thread[m], "followup", n)
        BY <1>5, <4>1, SaySince
      <4> QED BY <2>1, <2>2, <2>3, <2>4, <4>2 DEF Quiet, FollowupsIn, Few
    <3> QED BY <3>3, <3>4
  <2>8. ~Appending(i)' BY <1>6 DEF Appending
  <2> QED BY <1>1, <2>1, <2>2, <2>4, <2>6, <2>7, <2>8 DEF Quiet
<1> QED BY <1>1, <1>7, <1>8 DEF QuietInv

(* A handler that pauses the incident starts the count anew; one that       *)
(* replies posts something else.                                            *)
LEMMA QuietHandler ==
    ASSUME MInv, QuietInv, NEW k \in DOMAIN events, HandleRuijieEvent(k) PROVE QuietInv'
<1>1. /\ UNCHANGED <<mailPoller, reminder>>
      /\ quiet' = [m \in Message |-> IF Paused(incidents', m) /\ ~Paused(incidents, m)
                                     THEN Len(thread[m]) ELSE quiet[m]]
  BY DEF HandleRuijieEvent, ReceiveEvent, RepeatEvent, HandleUpdate, HandleReply, mailVars
<1>2. UpdatesOnly
  BY ReceiveEventStep, RepeatEventStep, HandleUpdateStep, HandleReplyStep
     DEF HandleRuijieEvent, MInv
<1>3. /\ DOMAIN incidents' = DOMAIN incidents
      /\ \A i \in DOMAIN incidents : incidents'[i].ts = incidents[i].ts
  BY <1>2, ThreadTypes, LenProperties DEF UpdatesOnly, RowsUpdated
<1>4. PICK p, reply, at : p = events[k].ts /\ reply = ReplyTo(events[k].kind) /\ at = now
  OBVIOUS
<1>5. \/ UNCHANGED thread
      \/ UNCHANGED incidents /\ Say(p, reply, at)
  BY <1>4 DEF HandleRuijieEvent, ReceiveEvent, RepeatEvent, HandleUpdate, HandleReply
<1>6. p \in Message /\ at \in Nat /\ reply \in ThreadPost \ {"followup", "reminder"}
  <2>1. ReactionsTypeOK /\ now \in 0..MaxTime BY DEF MInv, ReactionsInv, ReactionsTypeOK
  <2>2. events[k] \in EventRecord BY <2>1, EventType
  <2>3. now \in Nat BY <2>1, ReactionsAssumption
  <2> QED BY <1>4, <2>2, <2>3 DEF EventRecord, ReplyTo, ThreadPost
<1>7. ThreadsApart' BY <1>1, <1>3 DEF QuietInv, ThreadsApart
<1>8. ASSUME NEW i \in DOMAIN incidents, incidents'[i].snoozed PROVE Quiet(i)'
  <2>1. PICK m \in Message : m = incidents[i].ts BY ThreadTypes
  <2>2. PICK n \in Nat : n = quiet[m] BY ThreadTypes
  <2>3. incidents'[i].ts = m /\ Paused(incidents', m) BY <1>3, <1>8, <2>1 DEF Paused
  <2>4. CASE incidents[i].snoozed
    <3>1. Quiet(i) BY <2>4 DEF QuietInv
    <3>2. Paused(incidents, m) BY <2>1, <2>4 DEF Paused
    <3>3. quiet'[m] = n BY <1>1, <2>2, <3>2
    <3>4. ASSUME NEW kind \in {"followup", "reminder"}
          PROVE  Since(thread'[m], kind, n) = Since(thread[m], kind, n)
      <4>1. CASE UNCHANGED thread BY <4>1
      <4>2. CASE Say(p, reply, at)
        <5>1. reply # kind /\ reply \in ThreadPost BY <1>6, <3>4
        <5>2. PICK q \in Message, post \in ThreadPost, time \in Nat :
                  q = p /\ post = reply /\ time = at
          BY <1>6, <5>1
        <5>3. Say(q, post, time) /\ post # kind BY <4>2, <5>1, <5>2
        <5> QED BY <5>3, SayOther, SMTT(60)
      <4> QED BY <1>5, <4>1, <4>2
    <3>5. FollowupsIn(m)' = FollowupsIn(m) /\ RemindersIn(m)' = RemindersIn(m)
      BY <2>2, <3>3, <3>4 DEF FollowupsIn, RemindersIn
    <3>6. Appending(i)' = Appending(i) BY <1>1 DEF Appending
    <3> QED BY <1>1, <2>1, <2>3, <3>1, <3>5, <3>6 DEF Quiet
  <2>5. CASE ~incidents[i].snoozed
    <3>1. ~Paused(incidents, m)
      BY <2>1, <2>5 DEF Paused, QuietInv, ThreadsApart
    <3>2. PICK s : s = thread[m] OBVIOUS
    <3>3. s \in Seq(ShownPost) BY <3>2, ThreadTypes
    <3>4. quiet'[m] = Len(s) BY <1>1, <2>3, <3>1, <3>2
    <3>5. thread'[m] = s BY <1>5, <1>8, <2>5, <3>2
    <3>6. FollowupsIn(m)' = {} /\ RemindersIn(m)' = {}
      BY <3>3, <3>4, <3>5, SinceLast DEF FollowupsIn, RemindersIn
    <3> QED BY <2>3, <3>6 DEF Quiet, Few
  <2> QED BY <2>4, <2>5
<1> QED BY <1>3, <1>7, <1>8 DEF QuietInv

LEMMA BumpKeepsPaused ==
    ASSUME NEW t \in Seq(Row), NEW i \in 1..Len(t), NEW next, NEW j \in 1..Len(t)
    PROVE  BumpReminder(t, i, next)[j].snoozed = t[j].snoozed
<1>1. t[i] \in Row /\ t \in [1..Len(t) -> Row] BY ElementOfSeq
<1> QED BY <1>1 DEF BumpReminder, Row

(* A tick lists no paused incident, and posts each it listed once.          *)
LEMMA QuietReminder == ASSUME MInv, QuietInv, ReminderTick PROVE QuietInv'
<1>1. UNCHANGED <<mailPoller, quiet>> BY DEF ReminderTick, mailVars
<1>2. reminder \in ReminderRecord BY DEF MInv, ReactionsInv, ReactionsTypeOK
<1>3. \A i : Appending(i)' = Appending(i) BY <1>1 DEF Appending
<1>4. CASE RemindList
  <2>1. UNCHANGED <<incidents, thread>> BY <1>4 DEF RemindList
  <2>2. PICK S \in DueBatches : reminder'.todo = S BY <1>4 DEF RemindList
  <2>3. S \subseteq DueRows(incidents, now) BY DEF DueBatches
  <2>4. \A i \in S : ~incidents[i].snoozed BY <2>3 DEF DueRows
  <2> QED BY <1>1, <1>3, <2>1, <2>2, <2>4, QuietKept
<1>5. ASSUME NEW h \in DOMAIN incidents, RemindPost(h) PROVE QuietInv'
  <2>1. UNCHANGED incidents /\ h \in reminder.todo BY <1>5 DEF RemindPost
  <2>2. reminder'.todo = reminder.todo \ {h} BY <1>2, <1>5 DEF RemindPost, ReminderRecord
  <2>3. PICK p \in Message : p = incidents[h].ts BY ThreadTypes
  <2>4. PICK at \in Nat : at = reminder.at BY <1>2 DEF ReminderRecord
  <2>5. UNCHANGED thread \/ Say(p, "reminder", at) BY <1>5, <2>3, <2>4 DEF RemindPost
  <2>6. "reminder" \in ThreadPost BY DEF ThreadPost
  <2>7. CASE UNCHANGED thread BY <1>1, <1>3, <2>1, <2>2, <2>7, QuietKept
  <2>8. CASE Say(p, "reminder", at)
    <3>1. ThreadsApart' BY <1>1, <2>1 DEF QuietInv, ThreadsApart
    <3>2. ASSUME NEW i \in DOMAIN incidents, incidents[i].snoozed PROVE Quiet(i)'
      <4>1. Quiet(i) BY <3>2 DEF QuietInv
      <4>2. PICK m \in Message : m = incidents[i].ts BY ThreadTypes
      <4>3. PICK n \in Nat : n = quiet[m] BY ThreadTypes
      <4>4. quiet'[m] = n /\ incidents'[i].ts = m BY <1>1, <2>1, <4>2, <4>3
      <4>5. Since(thread'[m], "followup", n) = Since(thread[m], "followup", n)
        BY <2>6, <2>8, SaySince
      <4>6. FollowupsIn(m)' = FollowupsIn(m) BY <4>3, <4>4, <4>5 DEF FollowupsIn
      <4>7. CASE i = h
        <5>1. Since(thread[m], "reminder", n) = {}
          BY <2>1, <4>1, <4>2, <4>3, <4>7 DEF Quiet, RemindersIn
        <5>2. PICK l : l = Len(thread[m]) + 1 OBVIOUS
        <5>3. Since(thread'[m], "reminder", n) \subseteq Since(thread[m], "reminder", n) \cup {l}
          BY <2>6, <2>8, <5>2, SaySince
        <5>4. Few(RemindersIn(m))' BY <4>4, <5>1, <5>3, FirstOne DEF RemindersIn
        <5>5. i \notin reminder'.todo BY <2>2, <4>7
        <5> QED BY <1>3, <4>1, <4>2, <4>4, <4>6, <5>4, <5>5 DEF Quiet
      <4>8. CASE i # h
        <5>1. p # m BY <2>3, <4>2, <4>8 DEF QuietInv, ThreadsApart
        <5>2. Since(thread'[m], "reminder", n) = Since(thread[m], "reminder", n)
          BY <2>6, <2>8, <5>1, SaySince
        <5>3. RemindersIn(m)' = RemindersIn(m) BY <4>3, <4>4, <5>2 DEF RemindersIn
        <5> QED BY <1>3, <2>2, <4>1, <4>2, <4>4, <4>6, <5>3 DEF Quiet
      <4> QED BY <4>7, <4>8
    <3> QED BY <2>1, <3>1, <3>2 DEF QuietInv
  <2> QED BY <2>5, <2>7, <2>8
<1>6. CASE RemindBump
  <2>1. UNCHANGED thread /\ UpdatesOnly BY <1>6, RemindBumpStep DEF RemindBump, MInv
  <2>2. /\ DOMAIN incidents' = DOMAIN incidents
        /\ \A i \in DOMAIN incidents : incidents'[i].ts = incidents[i].ts
    BY <2>1, ThreadTypes, LenProperties DEF UpdatesOnly, RowsUpdated
  <2>3. \A i \in DOMAIN incidents : incidents'[i].snoozed = incidents[i].snoozed
    <3>1. PICK c : c = reminder.cur OBVIOUS
    <3>2. PICK next : next = reminder.at + ReminderInterval OBVIOUS
    <3>3. c \in 1..Len(incidents) BY <1>6, <3>1, ThreadTypes
      DEF RemindBump, MInv, ReactionsInv, KeptIdsExist
    <3>4. incidents' = incidents \/ incidents' = BumpReminder(incidents, c, next)
      BY <1>6, <3>1, <3>2 DEF RemindBump
    <3> QED BY <3>3, <3>4, ThreadTypes, BumpKeepsPaused
  <2>4. reminder'.todo = reminder.todo BY <1>2, <1>6 DEF RemindBump, ReminderRecord
  <2> QED BY <1>1, <1>3, <2>1, <2>2, <2>3, <2>4, QuietKept
<1>7. CASE RemindDone
  <2>1. UNCHANGED <<incidents, thread>> /\ reminder'.todo = {} BY <1>7 DEF RemindDone, Idle
  <2> QED BY <1>1, <1>3, <2>1, QuietKept
<1> QED BY <1>4, <1>5, <1>6, <1>7 DEF ReminderTick

LEMMA QuietNext == ASSUME MInv, QuietInv, [RuijieNext]_ruijieVars PROVE QuietInv'
  BY QuietOthers, QuietPolling, QuietFind, QuietFollowUp, QuietParent, QuietCreate,
     QuietHandler, QuietReminder
     DEF RuijieNext, MailPollerStep

(* A paused incident is quiet: from the write that pauses it on its thread  *)
(* gets at most the reply the poller has in hand and the reminder the tick  *)
(* has on its list, however often it is paused and resumed and whatever     *)
(* fails or restarts (MailCacher.go:274, ruijie_mail_repo.go).              *)
THEOREM PausedStaysQuiet == RuijieSpec => []PausedIsQuiet
<1>1. MInv /\ QuietInv => PausedIsQuiet
  <2> SUFFICES ASSUME MInv, QuietInv, NEW i \in DOMAIN incidents, incidents[i].snoozed,
                      NEW S \in {FollowupsIn(incidents[i].ts), RemindersIn(incidents[i].ts)}
               PROVE  Cardinality(S) <= 1
    BY DEF PausedIsQuiet, Paused, FollowupsIn, RemindersIn
  <2>1. Few(S) BY DEF QuietInv, Quiet
  <2>2. CASE S = {}
    <3>1. Cardinality(S) = 0 BY <2>2, FS_EmptySet
    <3> QED BY <3>1
  <2>3. CASE S # {}
    <3>1. PICK x : x \in S BY <2>3
    <3>2. S = {x} BY <2>1, <3>1 DEF Few
    <3>3. Cardinality(S) = 1 BY <3>2, FS_Singleton
    <3> QED BY <3>3
  <2> QED BY <2>2, <2>3
<1>2. RuijieInit => QuietInv BY QuietInit
<1>3. MInv /\ QuietInv /\ [RuijieNext]_ruijieVars => QuietInv' BY QuietNext
<1> QED BY <1>1, <1>2, <1>3, MInvAlways, PTL DEF RuijieSpec
-----------------------------------------------------------------------------
(* SyslogSlack again: reminders that come late                              *)

(* Threads are sequences of replies.                                        *)
LEMMA ThreadOf ==
    ASSUME ReactionsTypeOK, NEW m \in Message
    PROVE  /\ thread[m] \in Seq(ShownPost)
           /\ Len(thread[m]) \in Nat /\ DOMAIN thread[m] = 1 .. Len(thread[m])
           /\ \A n \in DOMAIN thread[m] : thread[m][n].at \in Nat
<1>1. thread[m] \in Seq(ShownPost) BY DEF ReactionsTypeOK, ShownPost
<1>2. Len(thread[m]) \in Nat /\ DOMAIN thread[m] = 1 .. Len(thread[m])
  BY <1>1, LenProperties
<1>3. \A n \in 1 .. Len(thread[m]) : thread[m][n] \in ShownPost BY <1>1, ElementOfSeq
<1>. QED BY <1>1, <1>2, <1>3 DEF ShownPost

(* The places in the thread of m of replies of a kind.                      *)
Replies(m, kind) == {n \in DOMAIN thread[m] : thread[m][n].post = kind}

(* What is said stays where it is, and a reply is the last of its thread.   *)
Said(m, kind, at) ==
    /\ \A x \in Message, k \in ThreadPost :
         Replies(x, k)' = IF x = m /\ k = kind THEN Replies(x, k) \cup {Len(thread[x]) + 1}
                          ELSE Replies(x, k)
    /\ thread'[m][Len(thread[m]) + 1].at = at

OldStay ==
    \A x \in Message : \A n \in DOMAIN thread[x] : thread'[x][n] = thread[x][n]

LEMMA SaidIs ==
    ASSUME ReactionsTypeOK, NEW m \in Message, NEW kind \in ThreadPost, NEW at \in Nat,
           Say(m, kind, at)
    PROVE  Said(m, kind, at) /\ OldStay
<1> DEFINE p == Post(kind, at)
<1>1. p \in ShownPost /\ p.post = kind /\ p.at = at BY DEF Post, ShownPost
<1>2. thread \in [Message -> Seq(ShownPost)] /\ thread' = [thread EXCEPT ![m] = Append(thread[m], p)]
  BY DEF Say, ReactionsTypeOK, ShownPost
<1> HIDE DEF p
<1>3. thread'[m] = Append(thread[m], p) /\ \A x \in Message \ {m} : thread'[x] = thread[x]
  BY <1>2
<1>4. thread[m] \in Seq(ShownPost) /\ DOMAIN thread[m] = 1 .. Len(thread[m]) /\ Len(thread[m]) \in Nat
  BY ThreadOf
<1>5. /\ DOMAIN thread'[m] = DOMAIN thread[m] \cup {Len(thread[m]) + 1}
      /\ \A n \in DOMAIN thread[m] : thread'[m][n] = thread[m][n]
      /\ thread'[m][Len(thread[m]) + 1] = p
  BY <1>1, <1>3, <1>4, AppendProperties
<1>6. ASSUME NEW x \in Message, NEW k \in ThreadPost
      PROVE  Replies(x, k)' = IF x = m /\ k = kind THEN Replies(x, k) \cup {Len(thread[x]) + 1}
                              ELSE Replies(x, k)
  <2>1. CASE x # m BY <2>1, <1>3 DEF Replies
  <2>2. CASE x = m BY <2>2, <1>1, <1>4, <1>5 DEF Replies
  <2>. QED BY <2>1, <2>2
<1>. QED BY <1>1, <1>3, <1>5, <1>6 DEF Said, OldStay

(* What the invariant says of the reactions' variables.                     *)
LEMMA Typed ==
    ASSUME IInv
    PROVE  /\ ReactionsTypeOK /\ reminder \in ReminderRecord /\ now \in Nat /\ FlushKnows
           /\ incidents \in Seq(Row) /\ DOMAIN incidents = 1 .. Len(incidents)
           /\ 1 .. parents \subseteq Message
           /\ \A i \in DOMAIN incidents : incidents[i].ts \in Message
<1>1. ReactionsTypeOK /\ FlushKnows /\ OneIncidentPerMessage BY DEF IInv, InvOf, TypeOK
<1>2. /\ reminder \in ReminderRecord /\ now \in 0 .. MaxTime /\ parents \in 0 .. MaxMessages
      /\ incidents \in Seq(Row)
  BY <1>1 DEF ReactionsTypeOK
<1>3. MaxTime \in Nat /\ MaxMessages \in Nat BY ReactionsAssumption
<1>4. 1 .. parents \subseteq Message BY <1>2, <1>3 DEF Message
<1>5. \A i \in DOMAIN incidents : incidents[i].ts \in 1 .. parents
  BY <1>1 DEF OneIncidentPerMessage
<1>6. now \in Nat BY <1>2, <1>3
<1>. QED BY <1>1, <1>2, <1>4, <1>5, <1>6, LenProperties

(* What a step says in the threads.                                         *)
LEMMA StepSays ==
    ASSUME IInv, [Next]_vars
    PROVE  \/ UNCHANGED thread
           \/ \E m \in Message, kind \in ThreadPost \ {"reminder", "resolved"} : Say(m, kind, now)
           \/ \E k \in DOMAIN events :
                /\ HandleReply(k) /\ events[k].kind = "check" /\ Say(events[k].ts, "resolved", now)
           \/ \E i \in DOMAIN incidents :
                RemindPost(i) /\ Succeeds /\ Say(incidents[i].ts, "reminder", reminder.at)
<1> DEFINE Other == \E m \in Message, kind \in ThreadPost \ {"reminder", "resolved"} : Say(m, kind, now)
<1>0. /\ ReactionsTypeOK /\ \A i \in DOMAIN incidents : incidents[i].ts \in Message
      /\ 1 .. parents \subseteq Message /\ FlushKnows
  BY Typed
<1>1. ASSUME NEW f \in Flusher, FlushAppend(f) PROVE Other
  <2>1. flush[f].id \in DOMAIN incidents BY <1>0, <1>1 DEF FlushKnows, FlushAppend
  <2>2. Say(incidents[flush[f].id].ts, "followup", now) BY <1>1 DEF FlushAppend
  <2>. QED BY <1>0, <2>1, <2>2 DEF ThreadPost
<1>2. ASSUME NEW f \in Flusher, FlushInstruct(f) PROVE Other \/ UNCHANGED thread
  <2>1. flush[f].ts \in Message BY <1>0, <1>2 DEF FlushKnows, FlushInstruct
  <2>2. Say(flush[f].ts, "instructions", now) \/ UNCHANGED thread
    BY <1>2 DEF FlushInstruct
  <2>. QED BY <2>1, <2>2 DEF ThreadPost
<1>3. ASSUME NEW f \in Flusher, FlushStep(f), ~FlushAppend(f), ~FlushInstruct(f)
      PROVE  UNCHANGED thread
  BY <1>3 DEF FlushStep, FlushFind, FlushFails, FlushPost, FlushCreate, FlushLink, reactionVars
<1>4. ASSUME NEW k \in DOMAIN events, HandleReply(k)
      PROVE  \/ UNCHANGED thread \/ Other
             \/ events[k].kind = "check" /\ Say(events[k].ts, "resolved", now)
  <2>1. events[k].ts \in Message /\ events[k].kind \in {"check", "pause", "unpause"}
    BY <1>0, EventType DEF EventRecord
  <2>2. UNCHANGED thread \/ Say(events[k].ts, ReplyTo(events[k].kind), now)
    BY <1>4 DEF HandleReply
  <2>. QED BY <2>1, <2>2 DEF ReplyTo, ThreadPost
<1>5. ASSUME NEW i \in DOMAIN incidents, RemindPost(i)
      PROVE  UNCHANGED thread \/ (Succeeds /\ Say(incidents[i].ts, "reminder", reminder.at))
  BY <1>5 DEF RemindPost
<1>6. CASE ReactionsNext
  BY <1>4, <1>5, <1>6
     DEF ReactionsNext, Tick, AddCheckMark, AddHourglass, RemoveHourglass, SendEvent,
         ReceiveEvent, RepeatEvent, HandleUpdate, RemindList, RemindBump, RemindDone
<1>. QED
  BY <1>1, <1>2, <1>3, <1>6
     DEF Next, BatcherNext, AtRest, StoreAndEnqueue, FlushTake, FlushNothing, CloseStopCh,
         ReadStopKeys, StopReturns, Crash, ReactionsCrash, vars, reactionVars

(* What a step does to the reminders still to be posted.                    *)
LEMMA StepTodo ==
    ASSUME IInv, [Next]_vars
    PROVE  \/ reminder'.todo \subseteq reminder.todo
           \/ /\ RemindList /\ UNCHANGED thread
              /\ \A i \in reminder'.todo : ~incidents[i].resolved
<1>0. reminder \in ReminderRecord BY DEF IInv, InvOf, TypeOK, ReactionsTypeOK
<1>1. CASE RemindList
  <2>1. PICK S \in DueBatches : reminder'.todo = S BY <1>1 DEF RemindList
  <2>2. S \subseteq DueRows(incidents, now) BY DEF DueBatches
  <2>. QED BY <1>1, <2>1, <2>2 DEF DueRows, RemindList
<1>2. CASE UNCHANGED reminder BY <1>2
<1>3. CASE reminder' = Idle BY <1>3 DEF Idle
<1>4. ASSUME NEW i \in DOMAIN incidents, RemindPost(i) PROVE reminder'.todo \subseteq reminder.todo
  BY <1>0, <1>4 DEF RemindPost, ReminderRecord
<1>5. CASE RemindBump BY <1>0, <1>5 DEF RemindBump, ReminderRecord
<1>6. CASE ReactionsNext
  BY <1>1, <1>2, <1>3, <1>4, <1>5, <1>6
     DEF ReactionsNext, Tick, AddCheckMark, AddHourglass, RemoveHourglass, SendEvent,
         ReceiveEvent, RepeatEvent, HandleUpdate, HandleReply, RemindDone
<1>7. ASSUME NEW f \in Flusher, FlushStep(f) PROVE UNCHANGED reminder
  BY <1>7 DEF FlushStep, FlushFind, FlushFails, FlushAppend, FlushPost, FlushInstruct,
              FlushCreate, FlushLink, SlackUnchanged, reactionVars
<1>. QED
  BY <1>2, <1>3, <1>6, <1>7
     DEF Next, BatcherNext, AtRest, StoreAndEnqueue, FlushTake, FlushNothing, CloseStopCh,
         ReadStopKeys, StopReturns, Crash, ReactionsCrash, vars, reactionVars

-----------------------------------------------------------------------------
(* Reminders after a place in the thread of m.                              *)
Late(m, n) == {r \in Replies(m, "reminder") : r > n}

(* After "Reminders stopped." the tick has one reminder to post at most.    *)
Stopped(m, n, i) ==
    /\ i \in DOMAIN incidents /\ incidents[i].ts = m /\ incidents[i].resolved
    /\ Few(Late(m, n))
    /\ i \in reminder.todo => Late(m, n) = {}

(* Who says that reminders are stopped has resolved the row before.         *)
LateInv ==
    \A m \in Message : \A n \in Replies(m, "resolved") : \E i \in DOMAIN incidents : Stopped(m, n, i)

(* Where neither the word nor a reminder is said.                           *)
LEMMA StoppedKept ==
    ASSUME IInv, [Next]_vars, NEW m \in Message, NEW n, NEW i, Stopped(m, n, i),
           Replies(m, "reminder")' = Replies(m, "reminder")
    PROVE  Stopped(m, n, i)'
<1>1. Late(m, n)' = Late(m, n) BY DEF Late
<1>2. i \in DOMAIN incidents' /\ incidents'[i].ts = m /\ incidents'[i].resolved
  BY RowsStayStep DEF RowsStay, Stopped
<1>3. i \in reminder'.todo => i \in reminder.todo BY StepTodo DEF Stopped
<1>. QED BY <1>1, <1>2, <1>3 DEF Stopped

LEMMA LateStep == ASSUME IInv, LateInv, [Next]_vars PROVE LateInv'
<1>0. ReactionsTypeOK /\ reminder \in ReminderRecord /\ now \in Nat BY Typed
<1>1. CASE \A m \in Message : /\ Replies(m, "reminder")' = Replies(m, "reminder")
                              /\ Replies(m, "resolved")' = Replies(m, "resolved")
  <2>1. ASSUME NEW m \in Message, NEW n \in Replies(m, "resolved")'
        PROVE  \E i \in DOMAIN incidents' : Stopped(m, n, i)'
    <3>1. PICK i \in DOMAIN incidents : Stopped(m, n, i) BY <1>1, <2>1 DEF LateInv
    <3>2. Stopped(m, n, i)' BY <1>1, <3>1, StoppedKept
    <3>. QED BY <3>2 DEF Stopped
  <2>. QED BY <2>1 DEF LateInv
<1>2. CASE UNCHANGED thread BY <1>1, <1>2 DEF Replies
<1>3. ASSUME NEW m \in Message, NEW kind \in ThreadPost \ {"reminder", "resolved"}, Say(m, kind, now)
      PROVE  LateInv'
  <2>1. Said(m, kind, now) BY <1>0, <1>3, SaidIs
  <2>. QED BY <1>1, <2>1 DEF Said, ThreadPost
<1>4. ASSUME NEW k \in DOMAIN events, HandleReply(k), events[k].kind = "check",
             Say(events[k].ts, "resolved", now)
      PROVE  LateInv'
  <2>1. PICK p \in Message : p = events[k].ts BY <1>0, EventType DEF EventRecord
  <2>2. Said(p, "resolved", now) BY <1>0, <1>4, <2>1, SaidIs DEF ThreadPost
  <2>3. /\ \A x \in Message : Replies(x, "reminder")' = Replies(x, "reminder")
        /\ \A x \in Message \ {p} : Replies(x, "resolved")' = Replies(x, "resolved")
        /\ Replies(p, "resolved")' = Replies(p, "resolved") \cup {Len(thread[p]) + 1}
    BY <2>2 DEF Said, ThreadPost
  <2>4. ASSUME NEW m \in Message, NEW n \in Replies(m, "resolved")'
        PROVE  \E i \in DOMAIN incidents' : Stopped(m, n, i)'
    <3>1. CASE n \in Replies(m, "resolved")
      <4>1. PICK i \in DOMAIN incidents : Stopped(m, n, i) BY <3>1 DEF LateInv
      <4>2. Stopped(m, n, i)' BY <2>3, <4>1, StoppedKept
      <4>. QED BY <4>2 DEF Stopped
    <3>2. CASE n \notin Replies(m, "resolved")
      <4>1. m = p /\ n = Len(thread[p]) + 1 BY <2>3, <2>4, <3>2
      <4>2. PICK i \in DOMAIN incidents : incidents[i].ts = p /\ incidents[i].resolved
        BY <1>4, <2>1 DEF IInv, InvOf, KeptIdsExist, HandleReply
      <4>3. Late(m, n) = {} BY <1>0, <4>1, ThreadOf DEF Late, Replies
      <4>4. Stopped(m, n, i) BY <4>1, <4>2, <4>3 DEF Stopped, Few
      <4>5. Stopped(m, n, i)' BY <2>3, <4>4, StoppedKept
      <4>. QED BY <4>5 DEF Stopped
    <3>. QED BY <3>1, <3>2
  <2>. QED BY <2>4 DEF LateInv
<1>5. ASSUME NEW h \in DOMAIN incidents, RemindPost(h), Succeeds,
             Say(incidents[h].ts, "reminder", reminder.at)
      PROVE  LateInv'
  <2>1. PICK p \in Message : p = incidents[h].ts BY Typed
  <2>2. reminder.at \in Nat BY <1>0 DEF ReminderRecord
  <2>3. Said(p, "reminder", reminder.at)
    BY <1>0, <1>5, <2>1, <2>2, SaidIs DEF ThreadPost
  <2>4. /\ \A x \in Message : Replies(x, "resolved")' = Replies(x, "resolved")
        /\ \A x \in Message \ {p} : Replies(x, "reminder")' = Replies(x, "reminder")
        /\ Replies(p, "reminder")' = Replies(p, "reminder") \cup {Len(thread[p]) + 1}
    BY <2>3 DEF Said, ThreadPost
  <2>5. UNCHANGED incidents /\ h \in reminder.todo BY <1>5 DEF RemindPost
  <2>6. h \notin reminder'.todo
    <3>1. \/ reminder' = [reminder EXCEPT !.pc = "bump", !.todo = @ \ {h}, !.cur = h]
          \/ reminder' = [reminder EXCEPT !.todo = @ \ {h}]
      BY <1>5 DEF RemindPost
    <3>. QED BY <1>0, <3>1 DEF ReminderRecord
  <2>7. ASSUME NEW m \in Message, NEW n \in Replies(m, "resolved")'
        PROVE  \E i \in DOMAIN incidents' : Stopped(m, n, i)'
    <3>1. PICK i \in DOMAIN incidents : Stopped(m, n, i) BY <2>4, <2>7 DEF LateInv
    <3>2. CASE m # p
      <4>1. Stopped(m, n, i)' BY <2>4, <3>1, <3>2, StoppedKept
      <4>. QED BY <4>1 DEF Stopped
    <3>3. CASE m = p
      <4>1. i = h BY <2>1, <3>1, <3>3 DEF IInv, InvOf, OneIncidentPerMessage, Stopped
      <4>2. Late(m, n) = {} BY <2>5, <3>1, <4>1 DEF Stopped
      <4>3. Late(m, n)' \subseteq Late(m, n) \cup {Len(thread[p]) + 1}
        BY <2>4, <3>3 DEF Late
      <4>4. Few(Late(m, n)') BY <4>2, <4>3, FirstOne
      <4>5. Stopped(m, n, i)' BY <2>5, <2>6, <3>1, <4>1, <4>4 DEF Stopped, Few
      <4>. QED BY <4>5 DEF Stopped
    <3>. QED BY <3>2, <3>3
  <2>. QED BY <2>7 DEF LateInv
<1>. QED BY <1>2, <1>3, <1>4, <1>5, StepSays

LEMMA FewAreOne == ASSUME NEW S, Few(S) PROVE Cardinality(S) <= 1
<1>1. CASE S = {} BY <1>1, FS_EmptySet
<1>2. CASE S # {}
  <2>1. PICK x : S = {x} BY <1>2 DEF Few
  <2>. QED BY <2>1, FS_Singleton
<1>. QED BY <1>1, <1>2

(* After "Reminders stopped." a thread gets one reminder at most, of the    *)
(* tick that had listed the incident before: that tick's bump undoes the    *)
(* far-off due time, but no later tick lists an incident with resolved_at   *)
(* (slack_reminder.go:55-89, es_syslog_repo.go:95-117).                     *)
THEOREM OneReminderIsLate == Spec => []AtMostOneLateReminder
<1>1. Init => LateInv BY DEF Init, ReactionsInit, LateInv, Replies
<1>2. LateInv => AtMostOneLateReminder
  <2> SUFFICES ASSUME LateInv, NEW m \in Message, NEW n \in SaysStopped(m)
               PROVE  Cardinality({r \in Reminders(m) : r > n}) <= 1
    BY DEF AtMostOneLateReminder
  <2>1. n \in Replies(m, "resolved") /\ {r \in Reminders(m) : r > n} = Late(m, n)
    BY DEF SaysStopped, Reminders, Replies, Late
  <2>2. Few(Late(m, n)) BY <2>1 DEF LateInv, Stopped
  <2>. QED BY <2>1, <2>2, FewAreOne
<1>. QED BY <1>1, <1>2, LateStep, InvAlways, PTL DEF Spec

-----------------------------------------------------------------------------
(* SyslogSlack: the time between two reminders                              *)

NoTrouble == faults = 0 /\ crashes = 0

(* What becomes of a row i in a step that bumps none.                       *)
RowChange(i) ==
    \/ incidents'[i] = incidents[i]
    \/ incidents'[i].resolved \/ incidents'[i].snoozed
    \/ incidents'[i].due = now + ReminderInterval

(* A step that is none of the worker's, or ends its tick.                   *)
AsideOfReminders ==
    /\ reminder' = reminder \/ (reminder.pc = "list" /\ reminder' = Idle)
    /\ now' \in {now, now + 1}
    /\ \A i \in DOMAIN incidents : RowChange(i)
    /\ \A m \in Message : Replies(m, "reminder")' = Replies(m, "reminder")
    /\ OldStay

LEMMA NothingSaid ==
    ASSUME UNCHANGED thread
    PROVE  OldStay /\ \A x \in Message, k \in ThreadPost : Replies(x, k)' = Replies(x, k)
BY DEF OldStay, Replies

(* What the statements leave of a row.                                      *)
LEMMA ResolvedRow ==
    ASSUME NEW t \in Seq(Row), NEW i \in 1 .. Len(t), NEW j \in 1 .. Len(t)
    PROVE  MarkResolved(t, i)[j] = t[j] \/ MarkResolved(t, i)[j].resolved = TRUE
<1>1. t[i] \in Row /\ t \in [1 .. Len(t) -> Row] BY ElementOfSeq
<1>2. [t[i] EXCEPT !.resolved = TRUE, !.due = Far].resolved = TRUE BY <1>1 DEF Row
<1>. QED BY <1>1, <1>2 DEF MarkResolved

LEMMA SnoozedRow ==
    ASSUME NEW t \in Seq(Row), NEW i \in 1 .. Len(t), NEW j \in 1 .. Len(t)
    PROVE  Snooze(t, i)[j] = t[j] \/ Snooze(t, i)[j].snoozed = TRUE
<1>1. t[i] \in Row /\ t \in [1 .. Len(t) -> Row] BY ElementOfSeq
<1>2. [t[i] EXCEPT !.snoozed = TRUE, !.due = Far].snoozed = TRUE BY <1>1 DEF Row
<1>. QED BY <1>1, <1>2 DEF Snooze

LEMMA UnsnoozedRow ==
    ASSUME NEW t \in Seq(Row), NEW i \in 1 .. Len(t), NEW j \in 1 .. Len(t), NEW next
    PROVE  Unsnooze(t, i, next)[j] = t[j] \/ Unsnooze(t, i, next)[j].due = next
<1>1. t[i] \in Row /\ t \in [1 .. Len(t) -> Row] BY ElementOfSeq
<1>2. [t[i] EXCEPT !.snoozed = FALSE, !.due = next].due = next BY <1>1 DEF Row
<1>. QED BY <1>1, <1>2 DEF Unsnooze

LEMMA BumpedRow ==
    ASSUME NEW t \in Seq(Row), NEW i \in 1 .. Len(t), NEW j \in 1 .. Len(t), NEW next
    PROVE  IF j = i THEN BumpReminder(t, i, next)[j].due = next
           ELSE BumpReminder(t, i, next)[j] = t[j]
<1>1. t[i] \in Row /\ t \in [1 .. Len(t) -> Row] BY ElementOfSeq
<1>2. [t[i] EXCEPT !.due = next].due = next BY <1>1 DEF Row
<1>. QED BY <1>1, <1>2 DEF BumpReminder

LEMMA RowsChange ==
    ASSUME IInv, [Next]_vars, ~RemindBump
    PROVE  \A i \in DOMAIN incidents : RowChange(i)
<1>0. /\ ReactionsTypeOK /\ incidents \in Seq(Row) /\ DOMAIN incidents = 1 .. Len(incidents)
      /\ now + ReminderInterval \in Nat
  BY Typed, NextDue
<1>1. CASE UNCHANGED incidents BY <1>1 DEF RowChange
<1>2. ASSUME NEW f \in Flusher, FlushCreate(f) PROVE \A i \in DOMAIN incidents : RowChange(i)
  <2>1. PICK row : incidents' = Append(incidents, row) BY <1>2 DEF FlushCreate
  <2>. QED BY <1>0, <2>1 DEF RowChange
<1>3. ASSUME NEW k \in DOMAIN events, HandleUpdate(k), NEW i \in DOMAIN incidents
      PROVE  RowChange(i)
  <2>1. /\ events[k].pc = "writing" /\ events[k].kind \in {"check", "pause", "unpause"}
        /\ events[k].id \in DOMAIN incidents
    BY <1>0, <1>3, EventType DEF HandleUpdate, EventRecord, IInv, InvOf, KeptIdsExist
  <2>2. UNCHANGED incidents \/ incidents' = UpdateFor(events[k])
    BY <1>3 DEF HandleUpdate
  <2>3. PICK id \in 1 .. Len(incidents) : id = events[k].id BY <1>0, <2>1
  <2>4. \/ UNCHANGED incidents
        \/ incidents' = MarkResolved(incidents, id)
        \/ incidents' = Snooze(incidents, id)
        \/ incidents' = Unsnooze(incidents, id, now + ReminderInterval)
    BY <2>1, <2>2, <2>3 DEF UpdateFor
  <2>5. PICK next : next = now + ReminderInterval OBVIOUS
  <2>6. i \in 1 .. Len(incidents) BY <1>0
  <2>7. CASE UNCHANGED incidents BY <2>7 DEF RowChange
  <2>8. CASE incidents' = MarkResolved(incidents, id)
    <3>1. MarkResolved(incidents, id)[i] = incidents[i] \/ MarkResolved(incidents, id)[i].resolved = TRUE
      BY <1>0, <2>6, ResolvedRow
    <3>. QED BY <2>8, <3>1 DEF RowChange
  <2>9. CASE incidents' = Snooze(incidents, id)
    <3>1. Snooze(incidents, id)[i] = incidents[i] \/ Snooze(incidents, id)[i].snoozed = TRUE
      BY <1>0, <2>6, SnoozedRow
    <3>. QED BY <2>9, <3>1 DEF RowChange
  <2>10. CASE incidents' = Unsnooze(incidents, id, now + ReminderInterval)
    <3>1. incidents' = Unsnooze(incidents, id, next) BY <2>5, <2>10
    <3>2. \/ Unsnooze(incidents, id, next)[i] = incidents[i]
          \/ Unsnooze(incidents, id, next)[i].due = next
      BY <1>0, <2>6, UnsnoozedRow
    <3>. QED BY <2>5, <3>1, <3>2 DEF RowChange
  <2>. QED BY <2>4, <2>7, <2>8, <2>9, <2>10
<1>4. CASE ReactionsNext
  BY <1>1, <1>3, <1>4
     DEF ReactionsNext, Tick, AddCheckMark, AddHourglass, RemoveHourglass, SendEvent,
         ReceiveEvent, RepeatEvent, HandleReply, RemindList, RemindPost, RemindDone
<1>5. ASSUME NEW f \in Flusher, FlushStep(f), ~FlushCreate(f) PROVE UNCHANGED incidents
  BY <1>5 DEF FlushStep, FlushFind, FlushFails, FlushAppend, FlushPost, FlushInstruct,
              FlushLink, reactionVars
<1>. QED
  BY <1>1, <1>2, <1>4, <1>5
     DEF Next, BatcherNext, AtRest, StoreAndEnqueue, FlushTake, FlushNothing, CloseStopCh,
         ReadStopKeys, StopReturns, Crash, ReactionsCrash, vars, reactionVars

(* Where nothing fails and nothing restarts.                                *)
LEMMA TroubleStays ==
    ASSUME IInv, [Next]_vars, NoTrouble'
    PROVE  NoTrouble /\ UNCHANGED faults /\ ~Crash
<1>1. faults \in Nat /\ crashes \in Nat
  BY ReactionsAssumption, BatcherAssumption
     DEF IInv, InvOf, TypeOK, ReactionsTypeOK, BatcherTypeOK
<1>2. ASSUME NEW f \in Flusher, FlushStep(f) PROVE (Succeeds \/ Fails) /\ UNCHANGED crashes
  BY <1>2 DEF FlushStep, FlushFind, FlushFails, FlushAppend, FlushPost, FlushInstruct,
              FlushCreate, FlushLink, SlackUnchanged, FlushUnchanged, reactionVars, Succeeds
<1>3. ASSUME ReactionsNext PROVE Succeeds \/ Fails
  BY <1>3 DEF ReactionsNext, Tick, AddCheckMark, AddHourglass, RemoveHourglass, SendEvent,
       ReceiveEvent, RepeatEvent, HandleUpdate, HandleReply, RemindList, RemindPost, RemindBump,
       RemindDone, Succeeds
<1>4. \/ (Succeeds \/ Fails) /\ UNCHANGED crashes
      \/ Crash
  BY <1>2, <1>3
     DEF Next, BatcherNext, AtRest, StoreAndEnqueue, FlushTake, FlushNothing, CloseStopCh,
         ReadStopKeys, StopReturns, vars, reactionVars, batcherVars, Succeeds
<1>. QED BY <1>1, <1>4 DEF NoTrouble, Succeeds, Fails, Crash

LEMMA StepKinds ==
    ASSUME IInv, [Next]_vars, NoTrouble'
    PROVE  \/ RemindList
           \/ \E i \in DOMAIN incidents : RemindPost(i) /\ Succeeds
           \/ RemindBump /\ Succeeds
           \/ AsideOfReminders
<1>0. ReactionsTypeOK /\ now \in Nat BY Typed
<1>1. UNCHANGED faults /\ ~Crash BY TroubleStays
<1> SUFFICES ASSUME ~RemindList, ~RemindBump, ~ \E i \in DOMAIN incidents : RemindPost(i)
    PROVE AsideOfReminders
  BY <1>1 DEF Succeeds
<1>2. \A i \in DOMAIN incidents : RowChange(i) BY RowsChange
<1>3. OldStay /\ \A m \in Message : Replies(m, "reminder")' = Replies(m, "reminder")
  <2>1. CASE UNCHANGED thread BY <2>1, NothingSaid DEF ThreadPost
  <2>2. ASSUME NEW m \in Message, NEW kind \in ThreadPost \ {"reminder"}, Say(m, kind, now)
        PROVE  OldStay /\ \A x \in Message : Replies(x, "reminder")' = Replies(x, "reminder")
    <3>1. Said(m, kind, now) /\ OldStay BY <1>0, <2>2, SaidIs
    <3>. QED BY <3>1 DEF Said, ThreadPost
  <2>3. ASSUME NEW k \in DOMAIN events, Say(events[k].ts, "resolved", now)
        PROVE  OldStay /\ \A x \in Message : Replies(x, "reminder")' = Replies(x, "reminder")
    <3>1. events[k].ts \in Message BY <1>0, EventType DEF EventRecord
    <3>. QED BY <2>2, <2>3, <3>1 DEF ThreadPost
  <2>. QED BY <2>1, <2>2, <2>3, StepSays
<1>4. ASSUME NEW f \in Flusher, FlushStep(f) PROVE UNCHANGED <<now, reminder>>
  BY <1>4 DEF FlushStep, FlushFind, FlushFails, FlushAppend, FlushPost, FlushInstruct,
              FlushCreate, FlushLink, SlackUnchanged, reactionVars
<1>5. CASE ReactionsNext
  <2>1. /\ reminder' = reminder \/ (reminder.pc = "list" /\ reminder' = Idle)
        /\ now' \in {now, now + 1}
    BY <1>5 DEF ReactionsNext, Tick, AddCheckMark, AddHourglass, RemoveHourglass, SendEvent,
       ReceiveEvent, RepeatEvent, HandleUpdate, HandleReply, RemindDone
  <2>. QED BY <1>2, <1>3, <2>1 DEF AsideOfReminders
<1>6. CASE UNCHANGED <<now, reminder>> BY <1>2, <1>3, <1>6 DEF AsideOfReminders
<1>. QED
  BY <1>1, <1>4, <1>5, <1>6
     DEF Next, BatcherNext, AtRest, StoreAndEnqueue, FlushTake, FlushNothing, CloseStopCh,
         ReadStopKeys, StopReturns, vars, reactionVars

-----------------------------------------------------------------------------
Bumping(i) == reminder.pc = "bump" /\ reminder.cur = i

(* Incident i, reminded of in the tick of time at, is not due before the    *)
(* interval is over, or its bump is next; and what is on the list was due.  *)
Spaced(m, at, i) ==
    /\ i \in DOMAIN incidents /\ incidents[i].ts = m
    /\ at <= now
    /\ i \in reminder.todo => at + ReminderInterval <= reminder.at
    /\ Bumping(i) => at <= reminder.at
    /\ \/ incidents[i].resolved \/ incidents[i].snoozed \/ Bumping(i)
       \/ at + ReminderInterval <= incidents[i].due

(* Each reminder is bumped, or about to be.                                 *)
SpacedInv ==
    NoTrouble =>
        /\ reminder.at <= now
        /\ RemindersSpaced
        /\ \A m \in Message : \A r \in Replies(m, "reminder") :
             \E i \in DOMAIN incidents : Spaced(m, thread[m][r].at, i)

LEMMA SpacedTypes ==
    ASSUME IInv
    PROVE  /\ now \in Nat /\ ReminderInterval \in Nat /\ reminder \in ReminderRecord
           /\ reminder.at \in Nat
           /\ \A i \in DOMAIN incidents : incidents[i].due \in Nat
           /\ \A m \in Message : \A r \in Replies(m, "reminder") :
                r \in DOMAIN thread[m] /\ r \in Nat /\ thread[m][r].at \in Nat
<1>1. /\ ReactionsTypeOK /\ now \in Nat /\ reminder \in ReminderRecord
      /\ incidents \in Seq(Row) /\ DOMAIN incidents = 1 .. Len(incidents)
  BY Typed
<1>2. reminder.at \in Nat BY <1>1 DEF ReminderRecord
<1>3. \A i \in DOMAIN incidents : incidents[i].due \in Nat
  <2>1. \A i \in 1 .. Len(incidents) : incidents[i] \in Row BY <1>1, ElementOfSeq
  <2>. QED BY <1>1, <2>1 DEF Row
<1>4. \A m \in Message : \A r \in Replies(m, "reminder") :
         r \in DOMAIN thread[m] /\ r \in Nat /\ thread[m][r].at \in Nat
  BY <1>1, ThreadOf DEF Replies
<1>5. ReminderInterval \in Nat BY ReactionsAssumption
<1>. QED BY <1>1, <1>2, <1>3, <1>4, <1>5

(* What was posted at one time.                                             *)
LEMMA SpacedAside ==
    ASSUME IInv, [Next]_vars, AsideOfReminders, reminder.at <= now,
           NEW m \in Message, NEW at \in Nat, NEW i, Spaced(m, at, i)
    PROVE  Spaced(m, at, i)'
<1>0. now \in Nat /\ ReminderInterval \in Nat /\ reminder.at \in Nat /\ reminder \in ReminderRecord
  BY SpacedTypes
<1>1. i \in DOMAIN incidents' /\ incidents'[i].ts = m /\ (incidents[i].resolved => incidents'[i].resolved)
  BY RowsStayStep DEF RowsStay, Spaced
<1>2. at <= now /\ at <= now' BY <1>0 DEF Spaced, AsideOfReminders
<1>3. \/ reminder' = reminder
      \/ reminder.pc = "list" /\ reminder'.pc = "idle" /\ reminder'.todo = {}
  <2>1. Idle.pc = "idle" /\ Idle.todo = {} BY DEF Idle
  <2>. QED BY <2>1 DEF AsideOfReminders
<1>4. /\ i \in reminder'.todo => at + ReminderInterval <= reminder'.at
      /\ Bumping(i)' => at <= reminder'.at
      /\ Bumping(i) => Bumping(i)'
  BY <1>3 DEF Spaced, Bumping
<1>5. RowChange(i) BY DEF AsideOfReminders, Spaced
<1>6. \/ incidents'[i].resolved \/ incidents'[i].snoozed \/ Bumping(i)'
      \/ at + ReminderInterval <= incidents'[i].due
  BY <1>0, <1>1, <1>2, <1>4, <1>5 DEF Spaced, RowChange
<1>. QED BY <1>1, <1>2, <1>4, <1>6 DEF Spaced

LEMMA SpacedList ==
    ASSUME IInv, [Next]_vars, RemindList,
           NEW m \in Message, NEW at \in Nat, NEW i, Spaced(m, at, i)
    PROVE  Spaced(m, at, i)'
<1>0. /\ now \in Nat /\ ReminderInterval \in Nat
      /\ \A h \in DOMAIN incidents : incidents[h].due \in Nat
  BY SpacedTypes
<1>1. UNCHANGED <<incidents, now>> /\ reminder.pc = "idle" BY DEF RemindList
<1>2. PICK S \in DueBatches : reminder' = [pc |-> "list", at |-> now, todo |-> S, cur |-> NotFound]
  BY DEF RemindList
<1>3. S \subseteq DueRows(incidents, now) BY DEF DueBatches
<1>4. ~Bumping(i) /\ ~Bumping(i)' /\ reminder'.at = now /\ reminder'.todo = S
  BY <1>1, <1>2 DEF Bumping
<1>5. i \in S => at + ReminderInterval <= now BY <1>0, <1>3, <1>4 DEF DueRows, Spaced
<1>. QED BY <1>1, <1>4, <1>5 DEF Spaced

LEMMA SpacedBump ==
    ASSUME IInv, [Next]_vars, RemindBump, Succeeds,
           NEW m \in Message, NEW at \in Nat, NEW i, Spaced(m, at, i)
    PROVE  Spaced(m, at, i)'
<1>0. /\ now \in Nat /\ ReminderInterval \in Nat /\ reminder.at \in Nat /\ reminder \in ReminderRecord
  BY SpacedTypes
<1>1. UNCHANGED now /\ reminder.pc = "bump"
      /\ reminder' = [reminder EXCEPT !.pc = "list", !.cur = NotFound]
  BY DEF RemindBump
<1>2. reminder'.pc = "list" /\ reminder'.at = reminder.at /\ reminder'.todo = reminder.todo
  BY <1>0, <1>1 DEF ReminderRecord
<1>3. PICK c : c = reminder.cur OBVIOUS
<1>4. PICK next \in Nat : next = reminder.at + ReminderInterval BY <1>0
<1>5. incidents' = BumpReminder(incidents, c, next)
  BY <1>3, <1>4, ReactionsAssumption, SMTT(120)
     DEF RemindBump, Succeeds, Fails, IInv, InvOf, TypeOK, ReactionsTypeOK
<1>6. incidents \in Seq(Row) /\ DOMAIN incidents = 1 .. Len(incidents) /\ c \in 1 .. Len(incidents)
      /\ i \in 1 .. Len(incidents)
  BY <1>1, <1>3, Typed DEF IInv, InvOf, KeptIdsExist, Spaced
<1>7. IF i = c THEN incidents'[i].due = next ELSE incidents'[i] = incidents[i]
  <2>1. IF i = c THEN BumpReminder(incidents, c, next)[i].due = next
        ELSE BumpReminder(incidents, c, next)[i] = incidents[i]
    BY <1>6, BumpedRow
  <2>. QED BY <1>5, <2>1
<1>8. i \in DOMAIN incidents' /\ incidents'[i].ts = m
  BY RowsStayStep DEF RowsStay, Spaced
<1>9. CASE i = c
  <2>1. at + ReminderInterval <= incidents'[i].due
    BY <1>0, <1>1, <1>3, <1>4, <1>7, <1>9 DEF Spaced, Bumping
  <2>. QED BY <1>1, <1>2, <1>8, <2>1 DEF Spaced, Bumping
<1>10. CASE i # c
  <2>1. incidents'[i] = incidents[i] /\ ~Bumping(i) BY <1>3, <1>7, <1>10 DEF Bumping
  <2>. QED BY <1>1, <1>2, <1>8, <2>1 DEF Spaced, Bumping
<1>. QED BY <1>9, <1>10

LEMMA SpacedPost ==
    ASSUME IInv, [Next]_vars, NEW h \in DOMAIN incidents, RemindPost(h), Succeeds,
           NEW m \in Message, NEW at \in Nat, NEW i, Spaced(m, at, i)
    PROVE  Spaced(m, at, i)'
<1>0. /\ now \in Nat /\ ReminderInterval \in Nat /\ reminder.at \in Nat /\ reminder \in ReminderRecord
  BY SpacedTypes
<1>1. UNCHANGED <<incidents, now>> /\ h \in reminder.todo /\ reminder.pc = "list"
  BY DEF RemindPost
<1>2. reminder' = [reminder EXCEPT !.pc = "bump", !.todo = @ \ {h}, !.cur = h]
  BY ReactionsAssumption, SMTT(60)
     DEF RemindPost, Succeeds, Fails, IInv, InvOf, TypeOK, ReactionsTypeOK
<1>3. /\ reminder'.pc = "bump" /\ reminder'.at = reminder.at
      /\ reminder'.todo = reminder.todo \ {h} /\ reminder'.cur = h
  BY <1>0, <1>2 DEF ReminderRecord
<1>4. ~Bumping(i) /\ (Bumping(i)' <=> i = h) BY <1>1, <1>3 DEF Bumping
<1>5. i = h => at <= reminder.at BY <1>0, <1>1 DEF Spaced
<1>. QED BY <1>1, <1>3, <1>4, <1>5 DEF Spaced

LEMMA SpacedStep == ASSUME IInv, SpacedInv, [Next]_vars PROVE SpacedInv'
<1> SUFFICES ASSUME NoTrouble'
             PROVE  /\ reminder'.at <= now'
                    /\ RemindersSpaced'
                    /\ \A m \in Message : \A r \in Replies(m, "reminder")' :
                         \E i \in DOMAIN incidents' : Spaced(m, thread[m][r].at, i)'
  BY DEF SpacedInv
<1>0. /\ now \in Nat /\ ReminderInterval \in Nat /\ reminder.at \in Nat /\ reminder \in ReminderRecord
      /\ \A m \in Message : \A r \in Replies(m, "reminder") :
           r \in DOMAIN thread[m] /\ r \in Nat /\ thread[m][r].at \in Nat
  BY SpacedTypes
<1>1. /\ NoTrouble /\ reminder.at <= now /\ RemindersSpaced
      /\ \A m \in Message : \A r \in Replies(m, "reminder") :
           \E i \in DOMAIN incidents : Spaced(m, thread[m][r].at, i)
  BY TroubleStays DEF SpacedInv
<1>2. \A m \in Message : \A r, q \in Replies(m, "reminder") :
         r < q => thread[m][q].at >= thread[m][r].at + ReminderInterval
  BY <1>1 DEF RemindersSpaced, NoTrouble, Reminders, Replies
<1>3. ASSUME reminder'.at <= now', OldStay,
             \A m \in Message : Replies(m, "reminder")' = Replies(m, "reminder"),
             \A m \in Message, at \in Nat : \A i : Spaced(m, at, i) => Spaced(m, at, i)'
      PROVE  /\ reminder'.at <= now'
             /\ RemindersSpaced'
             /\ \A m \in Message : \A r \in Replies(m, "reminder")' :
                         \E i \in DOMAIN incidents' : Spaced(m, thread[m][r].at, i)'
  <2>1. \A m \in Message : \A r \in Replies(m, "reminder") : thread'[m][r] = thread[m][r]
    BY <1>0, <1>3 DEF OldStay
  <2>2. RemindersSpaced'
    <3>1. \A m \in Message : Reminders(m)' = Replies(m, "reminder")
      BY <1>3 DEF Reminders, Replies
    <3>. QED BY <1>2, <2>1, <3>1 DEF RemindersSpaced
  <2>3. ASSUME NEW m \in Message, NEW r \in Replies(m, "reminder")'
        PROVE  \E i \in DOMAIN incidents' : Spaced(m, thread[m][r].at, i)'
    <3>1. PICK at \in Nat : at = thread[m][r].at /\ at = thread'[m][r].at
      BY <1>0, <1>3, <2>1, <2>3
    <3>2. PICK i \in DOMAIN incidents : Spaced(m, at, i) BY <1>1, <1>3, <2>3, <3>1
    <3>3. Spaced(m, at, i)' BY <1>3, <3>2
    <3>4. Spaced(m, thread[m][r].at, i)' BY <3>1, <3>3 DEF Spaced
    <3>. QED BY <3>4 DEF Spaced
  <2>. QED BY <1>3, <2>2, <2>3
<1>4. CASE AsideOfReminders
  <2>1. reminder'.at <= now' BY <1>0, <1>1, <1>4 DEF AsideOfReminders, Idle
  <2>. QED BY <1>1, <1>3, <1>4, <2>1, SpacedAside DEF AsideOfReminders
<1>5. CASE RemindList
  <2>1. reminder'.at <= now' /\ UNCHANGED thread BY <1>0, <1>5 DEF RemindList
  <2>2. OldStay /\ \A m \in Message : Replies(m, "reminder")' = Replies(m, "reminder")
    BY <2>1, NothingSaid DEF ThreadPost
  <2>. QED BY <1>3, <1>5, <2>1, <2>2, SpacedList
<1>6. CASE RemindBump /\ Succeeds
  <2>1. reminder'.at <= now' /\ UNCHANGED thread
    BY <1>0, <1>1, <1>6 DEF RemindBump, ReminderRecord
  <2>2. OldStay /\ \A m \in Message : Replies(m, "reminder")' = Replies(m, "reminder")
    BY <2>1, NothingSaid DEF ThreadPost
  <2>. QED BY <1>3, <1>6, <2>1, <2>2, SpacedBump
<1>7. ASSUME NEW h \in DOMAIN incidents, RemindPost(h), Succeeds
      PROVE  /\ reminder'.at <= now'
             /\ RemindersSpaced'
             /\ \A m \in Message : \A r \in Replies(m, "reminder")' :
                         \E i \in DOMAIN incidents' : Spaced(m, thread[m][r].at, i)'
  <2>1. /\ UNCHANGED <<incidents, now>> /\ h \in reminder.todo
        /\ reminder' = [reminder EXCEPT !.pc = "bump", !.todo = @ \ {h}, !.cur = h]
        /\ Say(incidents[h].ts, "reminder", reminder.at)
    BY <1>7, ReactionsAssumption, SMTT(60)
       DEF RemindPost, Succeeds, Fails, IInv, InvOf, TypeOK, ReactionsTypeOK
  <2>2. /\ reminder'.pc = "bump" /\ reminder'.at = reminder.at
        /\ reminder'.todo = reminder.todo \ {h} /\ reminder'.cur = h
    BY <1>0, <2>1 DEF ReminderRecord
  <2>3. PICK p \in Message : p = incidents[h].ts BY Typed
  <2>4. PICK now0 \in Nat : now0 = reminder.at BY <1>0
  <2>5. Said(p, "reminder", now0) /\ OldStay
    BY <2>1, <2>3, <2>4, SaidIs, Typed DEF ThreadPost
  <2>6. PICK last \in Nat : last = Len(thread[p]) + 1 BY ThreadOf, Typed
  <2>7. /\ \A m \in Message \ {p} : Replies(m, "reminder")' = Replies(m, "reminder")
        /\ Replies(p, "reminder")' = Replies(p, "reminder") \cup {last}
        /\ thread'[p][last].at = now0
    BY <2>5, <2>6 DEF Said, ThreadPost
  <2>8. \A m \in Message : \A r \in Replies(m, "reminder") : thread'[m][r] = thread[m][r]
    BY <1>0, <2>5 DEF OldStay
  <2>9. \A r \in Replies(p, "reminder") : r < last BY <2>6, ThreadOf, Typed DEF Replies
  <2>10. ASSUME NEW r \in Replies(p, "reminder")
         PROVE  thread[p][r].at + ReminderInterval <= now0
    <3>1. PICK i \in DOMAIN incidents : Spaced(p, thread[p][r].at, i) BY <1>1
    <3>2. i = h BY <2>3, <3>1 DEF Spaced, IInv, InvOf, OneIncidentPerMessage
    <3>. QED BY <2>1, <2>4, <3>1, <3>2 DEF Spaced
  <2>11. RemindersSpaced'
    <3>1. \A m \in Message : Reminders(m)' = Replies(m, "reminder")'
      BY DEF Reminders, Replies
    <3>2. ASSUME NEW m \in Message, NEW r \in Replies(m, "reminder")', NEW q \in Replies(m, "reminder")',
                 r < q
          PROVE  thread'[m][q].at >= thread'[m][r].at + ReminderInterval
      <4>1. CASE r \in Replies(m, "reminder") /\ q \in Replies(m, "reminder")
        BY <1>2, <2>8, <3>2, <4>1
      <4>2. CASE m = p /\ r \in Replies(m, "reminder") /\ q = last
        BY <1>0, <2>7, <2>8, <2>10, <4>2
      <4>3. CASE m = p /\ r = last
        <5>1. q \in Nat /\ (q < last \/ q = last) BY <1>0, <2>7, <2>9, <4>3
        <5>. QED BY <3>2, <4>3, <5>1
      <4>. QED BY <2>7, <4>1, <4>2, <4>3
    <3>. QED BY <3>1, <3>2 DEF RemindersSpaced
  <2>12. ASSUME NEW m \in Message, NEW r \in Replies(m, "reminder")'
         PROVE  \E i \in DOMAIN incidents' : Spaced(m, thread[m][r].at, i)'
    <3>1. CASE r \in Replies(m, "reminder")
      <4>1. PICK at \in Nat : at = thread[m][r].at /\ at = thread'[m][r].at
        BY <1>0, <2>8, <3>1
      <4>2. PICK i \in DOMAIN incidents : Spaced(m, at, i) BY <1>1, <3>1, <4>1
      <4>3. Spaced(m, at, i)' BY <1>7, <4>2, SpacedPost
      <4>4. Spaced(m, thread[m][r].at, i)' BY <4>1, <4>3 DEF Spaced
      <4>. QED BY <4>4 DEF Spaced
    <3>2. CASE r \notin Replies(m, "reminder")
      <4>1. m = p /\ r = last BY <2>7, <2>12, <3>2
      <4>2. h \in DOMAIN incidents' /\ Spaced(m, thread[m][r].at, h)'
        BY <1>0, <1>1, <2>1, <2>2, <2>3, <2>4, <2>7, <4>1 DEF Spaced, Bumping
      <4>. QED BY <4>2
    <3>. QED BY <3>1, <3>2
  <2>13. reminder'.at <= now' BY <1>1, <2>1, <2>2
  <2>. QED BY <2>11, <2>12, <2>13
<1>. QED BY <1>4, <1>5, <1>6, <1>7, StepKinds

(* Reminders of one incident are an interval apart while no call fails and  *)
(* no restart comes, however often it is paused and resumed: a reminder is  *)
(* posted and bumped in one tick, and nothing moves the due time of an open *)
(* incident but a bump and a resumption, each to a full interval from its   *)
(* own time (slack_reminder.go:55-89, slack_events.go:207-222).             *)
THEOREM RemindersKeepApart == Spec => []RemindersSpaced
<1>1. Init => SpacedInv
  <2> SUFFICES ASSUME Init PROVE SpacedInv OBVIOUS
  <2>1. now = 0 /\ reminder = Idle /\ \A m \in Message : thread[m] = <<>>
    BY DEF Init, ReactionsInit
  <2>2. \A m \in Message : Replies(m, "reminder") = {} /\ Reminders(m) = {}
    BY <2>1 DEF Replies, Reminders
  <2>. QED BY <2>1, <2>2 DEF SpacedInv, RemindersSpaced, Idle
<1>2. SpacedInv => RemindersSpaced BY DEF SpacedInv, RemindersSpaced, NoTrouble
<1>. QED BY <1>1, <1>2, SpacedStep, InvAlways, PTL DEF Spec

-----------------------------------------------------------------------------
(* SyslogSlack: Stop; SyslogPipeline: a post for each insert                *)

(* While Stop flushes, what is pending has a key that Stop read and has not *)
(* flushed yet; after it, nothing is pending.                               *)
StopReads ==
    /\ main = "flushing" => \A k \in Fingerprint : pending[k] # {} => k \in stopKeys
    /\ main = "stopped" => \A k \in Fingerprint : pending[k] = {}

LEMMA StopReadsStep == ASSUME IInv, StopReads, [Next]_vars PROVE StopReads'
<1>1. CASE UNCHANGED <<pending, main, stopKeys>> BY <1>1 DEF StopReads
<1>2. CASE main' = "run" \/ main' = "stopping" BY <1>2 DEF StopReads
<1>3. ASSUME NEW a \in Alert, StoreAndEnqueue(a) PROVE StopReads'
  BY <1>2, <1>3 DEF StoreAndEnqueue
<1>4. ASSUME NEW f \in Flusher, NEW k \in Fingerprint, FlushTake(f, k) PROVE StopReads'
  <2>1. /\ \A j \in Fingerprint : pending'[j] = IF j = k THEN {} ELSE pending[j]
        /\ stopKeys \ {k} \subseteq stopKeys' /\ main' = main
    BY <1>4 DEF FlushTake, IInv, InvOf, TypeOK, BatcherTypeOK
  <2>. QED BY <2>1 DEF StopReads
<1>5. ASSUME NEW f \in Flusher, FlushStep(f) PROVE StopReads'
  BY <1>1, <1>5 DEF FlushStep, FlushFind, FlushFails, FlushAppend, FlushPost, FlushInstruct,
                    FlushCreate, FlushLink, FlushUnchanged
<1>6. ASSUME NEW k \in Fingerprint, FlushNothing(k) PROVE StopReads'
  BY <1>6 DEF FlushNothing, StopReads
<1>7. CASE CloseStopCh \/ Crash BY <1>2, <1>7 DEF CloseStopCh, Crash
<1>8. CASE ReadStopKeys BY <1>8 DEF ReadStopKeys, StopReads
<1>9. CASE StopReturns BY <1>9 DEF StopReturns, StopReads
<1>10. CASE UNCHANGED batcherVars BY <1>1, <1>10 DEF batcherVars
<1>11. CASE AtRest \/ UNCHANGED vars BY <1>10, <1>11 DEF AtRest, vars
<1>. QED BY <1>3, <1>4, <1>5, <1>6, <1>7, <1>8, <1>9, <1>10, <1>11 DEF Next, BatcherNext

(* When Stop has returned, no batch waits for a timer that the exit kills:  *)
(* every key pending when Stop reads them is flushed by Stop, unless its    *)
(* timer came first, and Enqueue adds nothing once stopCh is closed         *)
(* (slack_batcher.go:65-90, 199-215).                                       *)
THEOREM StopLeavesNoTimer == Spec => []StopLeavesNothingPending
<1>1. Init => StopReads BY DEF Init, BatcherInit, StopReads
<1>2. IInv /\ StopReads /\ [Next]_vars => StopReads' BY StopReadsStep
<1>3. StopReads => StopLeavesNothingPending BY DEF StopReads, StopLeavesNothingPending
<1>. QED BY <1>1, <1>2, <1>3, InvAlways, PTL DEF Spec

(* However often searches find a document again, filters share or lose it   *)
(* and rows are purged, Slack shows each row once, and no row that was not  *)
(* stored: only an inserted row is enqueued (es_syslog_poller.go:158-176).  *)
THEOREM OncePerInsert == PipelineSpec => []ShownOncePerInsert
<1>1. PInv => ShownOncePerInsert
  <2> SUFFICES ASSUME PInv, NEW a \in Alert PROVE posts[a] <= (IF a \in used THEN 1 ELSE 0)
    BY DEF ShownOncePerInsert
  <2>1. InvOf(used) BY DEF PInv
  <2>2. posts[a] <= 1 BY <2>1 DEF InvOf, ShownAtMostOnce
  <2>3. a \notin used => posts[a] = 0 BY <2>1 DEF InvOf, OnePlace
  <2>. QED BY <2>2, <2>3
<1>. QED BY <1>1, PInvAlways, PTL
=============================================================================
