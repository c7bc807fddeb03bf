---------------------------- MODULE IncidentTable ----------------------------
(***************************************************************************)
(* The table es_syslog_slack_incidents and the statements the repository   *)
(* EsSyslogRepository runs on it.  PostgreSQL executes every statement     *)
(* atomically, and no caller wraps two of them in a transaction, so each   *)
(* operator below is one atomic read or one atomic write.                  *)
(*                                                                         *)
(* A definition whose name adds a defect to another's (...NoResolvedCheck,  *)
(* ...Forgotten) is a faulty variant of the definition that follows it.    *)
(* No specification uses one: the properties are checked to reject them.   *)
(*                                                                         *)
(* A table is the sequence of its rows in insertion order; the primary key *)
(* of a row is its position.  Rows are never deleted.                      *)
(***************************************************************************)
EXTENDS Naturals, Sequences

CONSTANTS
    Fingerprint,   \* values of the column dedup_fingerprint
    Far            \* a time no run reaches: "fifty years from now"

ASSUME FarAssumption == Far \in Nat

(* resolved and snoozed stand for "resolved_at IS NOT NULL" and             *)
(* "snoozed_at IS NOT NULL"; ts is the Slack timestamp that names the       *)
(* parent message, due is next_reminder_at.                                 *)
Row == [fp : Fingerprint, ts : Nat, resolved : BOOLEAN, snoozed : BOOLEAN, due : Nat]

NewRow(fp, ts, due) ==
    [fp |-> fp, ts |-> ts, resolved |-> FALSE, snoozed |-> FALSE, due |-> due]

(* ErrRecordNotFound: the id no row has. *)
NotFoundAsMinusOne == 0 - 1
NotFound == 0

OpenRows(tab, fp) == {i \in DOMAIN tab : tab[i].fp = fp /\ ~tab[i].resolved}

(* WHERE dedup_fingerprint = fp AND resolved_at IS NULL ORDER BY id DESC    *)
(* LIMIT 1                                                                  *)
FindOpenUnsnoozed(tab, fp) ==
    LET open == {i \in OpenRows(tab, fp) : ~tab[i].snoozed} IN
    IF open = {} THEN NotFound ELSE CHOOSE i \in open : \A j \in open : j <= i
FindOpenAnyAlarm(tab, fp) ==
    LET open == {i \in DOMAIN tab : ~tab[i].resolved} IN
    IF open = {} THEN NotFound ELSE CHOOSE i \in open : \A j \in open : j <= i
FindOpen(tab, fp) ==
    IF OpenRows(tab, fp) = {} THEN NotFound
    ELSE CHOOSE i \in OpenRows(tab, fp) : \A j \in OpenRows(tab, fp) : j <= i

(* WHERE message_ts = ts: (channel_id, message_ts) is a unique index.       *)
ByMessage(tab, ts) ==
    IF \E i \in DOMAIN tab : tab[i].ts = ts
    THEN CHOOSE i \in DOMAIN tab : tab[i].ts = ts
    ELSE NotFound

(* WHERE resolved_at IS NULL AND snoozed_at IS NULL AND                     *)
(* next_reminder_at <= until                                                *)
DueRowsNoResolvedCheck(tab, until) ==
    {i \in DOMAIN tab : ~tab[i].snoozed /\ tab[i].due <= until}
DueRows(tab, until) ==
    {i \in DOMAIN tab : ~tab[i].resolved /\ ~tab[i].snoozed /\ tab[i].due <= until}

(* UPDATE ... WHERE id = i: not guarded by resolved_at.                     *)
MarkResolved(tab, i) ==
    [tab EXCEPT ![i] = [@ EXCEPT !.resolved = TRUE, !.due = Far]]

(* UPDATE ... WHERE id = i: guarded by nothing, so it also brings a due     *)
(* time of Far back to the near future.                                     *)
BumpReminderForgotten(tab, i, next) == tab
BumpReminder(tab, i, next) == [tab EXCEPT ![i] = [@ EXCEPT !.due = next]]

(* UPDATE ... WHERE id = i AND resolved_at IS NULL; no row matching is not  *)
(* an error.                                                                *)
SnoozeSavesRow(tab, i) ==
    [tab EXCEPT ![i] = [@ EXCEPT !.snoozed = TRUE, !.resolved = FALSE, !.due = Far]]
Snooze(tab, i) ==
    IF tab[i].resolved THEN tab
    ELSE [tab EXCEPT ![i] = [@ EXCEPT !.snoozed = TRUE, !.due = Far]]

Unsnooze(tab, i, next) ==
    IF tab[i].resolved THEN tab
    ELSE [tab EXCEPT ![i] = [@ EXCEPT !.snoozed = FALSE, !.due = next]]
=============================================================================
