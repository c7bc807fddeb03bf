---------------------------- MODULE SyslogPipeline ----------------------------
(***************************************************************************)
(* EsSyslogPoller in front of the batcher of SyslogSlack: in every tick it *)
(* searches Elasticsearch for each enabled filter, drops hits that repeat  *)
(* a stored alarm, stores the others and enqueues them for Slack.  Filters *)
(* are edited and old alerts purged meanwhile, and the program is stopped  *)
(* the way main.go stops it: the poller ends before the batcher.           *)
(*                                                                         *)
(* A Doc is an Elasticsearch document (es_index + es_doc_id); an Alert is  *)
(* a row of es_syslog_alerts, whose id is never used again once the row is *)
(* deleted.  The clock runs on whatever the poller does: a tick has no     *)
(* timeout, the interval no upper bound, and the process may be down for   *)
(* any time.  Reminders and reactions touch nothing modelled here and take *)
(* no steps.                                                               *)
(***************************************************************************)
EXTENDS SyslogSlack

CONSTANTS
    Filter,         \* filters people define
    NoFilter,       \* no filter
    Doc,            \* documents Elasticsearch may receive
    DocOf,          \* [Alert -> Doc]: the document a row is about
    DocFp,          \* [Doc -> Fingerprint]: DedupFingerprint of the document
    Matches,        \* [Filter -> SUBSET Doc]: documents a filter's query finds
    LogTime,        \* [Doc -> Nat]: @timestamp of the document
    PollWindow,     \* how far back a search looks (2 minutes in the code)
    SearchAhead,    \* and how far ahead (30 seconds)
    HitLimit,       \* "size" of a search (500 in the code)
    DedupWindow,    \* cfg.EsSyslogDedupWindow
    RetentionAge,   \* cfg.EsSyslogRetentionDays
    IndexLag,       \* a document becomes searchable at most this late
    MaxEdits        \* bound: changes to the filters

ASSUME PipelineAssumption ==
    /\ NoFilter \notin Filter
    /\ DocOf \in [Alert -> Doc] /\ DocFp \in [Doc -> Fingerprint]
    /\ \A a \in Alert : Fp[a] = DocFp[DocOf[a]]
    /\ Matches \in [Filter -> SUBSET Doc]
    /\ LogTime \in [Doc -> Nat]
    /\ PollWindow \in Nat /\ SearchAhead \in Nat /\ HitLimit \in Nat \ {0}
    /\ DedupWindow \in Nat /\ RetentionAge \in Nat /\ IndexLag \in Nat /\ MaxEdits \in Nat

VARIABLES
    indexed,    \* documents Elasticsearch can find
    enabled,    \* filters with enabled = true
    deleted,    \* filters that were deleted
    owner,      \* [Alert -> Filter or NoFilter]: the filter_id of the stored alert
    created,    \* [Alert -> Nat]: created_at
    used,       \* rows that were ever stored
    poller,     \* the poller goroutine
    rounds,     \* history: the starts of the last whole tick and of the first of
                \* those that overlap up to it; is the tick under way whole so far?
    quit,       \* the poller's stop channel is closed
    edits

pollerVars == <<indexed, enabled, deleted, owner, created, used, poller, rounds, quit, edits>>
pipelineVars == <<vars, pollerVars>>

(* pc: search = a filter is next, hit = a hit is next, insert = the row for *)
(* the hit doc is next, enqueue = its new row is enqueued next.             *)
PollerRecord ==
    [pc : {"idle", "search", "hit", "insert", "enqueue", "ended"}, at : Nat,
     filters : SUBSET Filter, filter : Filter \cup {NoFilter}, hits : SUBSET Doc,
     doc : SUBSET Doc, row : SUBSET Alert]

PollerIdle ==
    [pc |-> "idle", at |-> 0, filters |-> {}, filter |-> NoFilter, hits |-> {},
     doc |-> {}, row |-> {}]

(* The types of the poller's state; an alert is stored for a filter, and a  *)
(* document has at most one row.                                            *)
PipelineTypeOK ==
    /\ TypeOK
    /\ indexed \in SUBSET Doc
    /\ enabled \in SUBSET Filter /\ deleted \in SUBSET Filter
    /\ owner \in [Alert -> Filter \cup {NoFilter}]
    /\ created \in [Alert -> Nat] /\ used \in SUBSET Alert
    /\ poller \in PollerRecord
    /\ rounds \in [whole : BOOLEAN, first : Nat, last : Nat]
    /\ quit \in BOOLEAN
    /\ edits \in 0..MaxEdits
    /\ \A a \in stored : owner[a] # NoFilter
    /\ \A a, b \in stored : DocOf[a] = DocOf[b] => a = b

PipelineInit ==
    /\ Init
    /\ indexed = {}
    /\ enabled = Filter
    /\ deleted = {}
    /\ owner = [a \in Alert |-> NoFilter]
    /\ created = [a \in Alert |-> 0]
    /\ used = {}
    /\ poller = PollerIdle
    /\ rounds = [whole |-> FALSE, first |-> 0, last |-> 0]
    /\ quit = FALSE
    /\ edits = 0

-----------------------------------------------------------------------------
(* Elasticsearch, the clock, and people who edit filters *)

Index(d) ==
    /\ d \notin indexed
    /\ LogTime[d] <= now /\ now <= LogTime[d] + IndexLag
    /\ indexed' = indexed \cup {d}
    /\ UNCHANGED <<vars, enabled, deleted, owner, created, used, poller, rounds, quit, edits>>

(* Nothing the program does holds time up.                                  *)
PipelineTick ==
    /\ now < MaxTime
    /\ now' = now + 1
    /\ UNCHANGED <<incidents, parents, thread, closed, hourglass, events, seen, reminder, faults,
                   batcherVars, pollerVars>>

EditUnchanged ==
    /\ edits < MaxEdits /\ edits' = edits + 1
    /\ UNCHANGED <<reactionVars, link, pending, flush, main, stopKeys, shown, posts, crashes,
                   indexed, owner, created, used, poller, rounds, quit>>

ToggleFilter(f) ==
    /\ f \notin deleted
    /\ enabled' = IF f \in enabled THEN enabled \ {f} ELSE enabled \cup {f}
    /\ UNCHANGED <<stored, deleted>>
    /\ EditUnchanged

(* One transaction: the filter's alerts go with it. *)
DeleteFilter(f) ==
    /\ f \notin deleted
    /\ deleted' = deleted \cup {f}
    /\ enabled' = enabled \ {f}
    /\ stored' = {a \in stored : owner[a] # f}
    /\ EditUnchanged

-----------------------------------------------------------------------------
(* EsSyslogPoller.tick: one goroutine, one tick at a time *)

PollUnchanged ==
    UNCHANGED <<incidents, now, parents, thread, closed, hourglass, events, seen, reminder,
                flush, main, stopKeys, shown, posts, crashes, indexed, enabled, deleted,
                quit, edits>>

(* Retention runs at most once a day, and its delete may fail.              *)
MaybeRetention ==
    \/ UNCHANGED stored
    \/ stored' = {a \in stored : created[a] + RetentionAge >= now}

(* A tick is whole if no call of it fails, and a moment t is in time if the *)
(* last whole tick started so shortly before that no document, indexed      *)
(* late, left the window in between: a tick at t overlaps with it.          *)
InTime(t) == t + IndexLag <= rounds.last + PollWindow
Broken == rounds' = [rounds EXCEPT !.whole = FALSE]

(* Then the enabled filters are listed; with none, or if the list fails,    *)
(* the tick is over.  The window of its searches is that of its start.      *)
PollStart ==
    /\ poller.pc = "idle"
    /\ MaybeRetention
    /\ \/ /\ Succeeds
          /\ IF enabled = {} THEN UNCHANGED <<poller, rounds>>
             ELSE /\ poller' = [PollerIdle EXCEPT !.pc = "search", !.at = now,
                                                  !.filters = enabled]
                  /\ rounds' = [rounds EXCEPT !.whole = TRUE]
       \/ Fails /\ UNCHANGED <<poller, rounds>>
    /\ PollUnchanged /\ UNCHANGED <<link, pending, owner, created, used>>

(* The newest HitLimit documents of the window.                             *)
HitsNoOverlap(f, at) ==
    LET found == {d \in indexed \cap Matches[f] : LogTime[d] \in at .. at + SearchAhead} IN
    {S \in SUBSET found :
        /\ Cardinality(S) = IF Cardinality(found) <= HitLimit
                            THEN Cardinality(found) ELSE HitLimit
        /\ \A d \in S, e \in found \ S : LogTime[d] >= LogTime[e]}
Hits(f, at) ==
    LET found == {d \in indexed \cap Matches[f] :
                     LogTime[d] \in at - PollWindow .. at + SearchAhead} IN
    {S \in SUBSET found :
        /\ Cardinality(S) = IF Cardinality(found) <= HitLimit
                            THEN Cardinality(found) ELSE HitLimit
        /\ \A d \in S, e \in found \ S : LogTime[d] >= LogTime[e]}

PollSearch(f) ==
    /\ poller.pc = "search" /\ f \in poller.filters
    /\ \/ /\ Succeeds
          /\ \E S \in Hits(f, poller.at) :
               poller' = [poller EXCEPT !.pc = "hit", !.filters = @ \ {f}, !.filter = f,
                                        !.hits = S]
          /\ UNCHANGED rounds
       \/ /\ Fails
          /\ poller' = [poller EXCEPT !.filters = @ \ {f}]
          /\ Broken
    /\ PollUnchanged /\ UNCHANGED <<stored, link, pending, owner, created, used>>

(* WHERE dedup_fingerprint = fp AND timestamp_utc >= since: no upper bound. *)
DedupExistsForgotten(d) == \E a \in stored : DocOf[a] = d
DedupExists(d) ==
    \E a \in stored : Fp[a] = DocFp[d] /\ LogTime[DocOf[a]] + DedupWindow >= LogTime[d]

(* The next hit, newest first: skipped if the alarm is known, or if the     *)
(* query fails.                                                             *)
PollHit(d) ==
    /\ poller.pc = "hit" /\ d \in poller.hits
    /\ \A e \in poller.hits : LogTime[d] >= LogTime[e]
    /\ \/ /\ Succeeds
          /\ poller' = IF DedupExists(d)
                       THEN [poller EXCEPT !.hits = @ \ {d}]
                       ELSE [poller EXCEPT !.pc = "insert", !.hits = @ \ {d}, !.doc = {d}]
          /\ UNCHANGED rounds
       \/ /\ Fails
          /\ poller' = [poller EXCEPT !.hits = @ \ {d}]
          /\ Broken
    /\ PollUnchanged /\ UNCHANGED <<stored, link, pending, owner, created, used>>

(* A new row, which nothing was linked to before.                           *)
Insert(a) ==
    /\ a \notin used
    /\ stored' = stored \cup {a}
    /\ owner' = [owner EXCEPT ![a] = poller.filter]
    /\ created' = [created EXCEPT ![a] = now]
    /\ used' = used \cup {a}
    /\ poller' = [poller EXCEPT !.pc = "enqueue", !.doc = {}, !.row = {a}]

InsertWithoutFilter(d, a) ==
    /\ \A b \in stored : DocOf[b] # d
    /\ a \notin used
    /\ stored' = stored \cup {a}
    /\ created' = [created EXCEPT ![a] = now]
    /\ used' = used \cup {a}
    /\ poller' = [poller EXCEPT !.pc = "enqueue", !.doc = {}, !.row = {a}]
    /\ UNCHANGED owner

(* INSERT ... ON CONFLICT DO NOTHING: only a row that was written goes on   *)
(* to Slack.                                                                *)
InsertIfNew(d, a) ==
    \/ (\A b \in stored : DocOf[b] # d) /\ Insert(a)
    \/ /\ \E b \in stored : DocOf[b] = d
       /\ poller' = [poller EXCEPT !.pc = "hit", !.doc = {}]
       /\ UNCHANGED <<stored, owner, created, used>>

PollInsert(d) ==
    /\ poller.pc = "insert" /\ d \in poller.doc
    /\ \/ /\ Succeeds
          /\ \E a \in Alert : DocOf[a] = d /\ InsertIfNew(d, a)
          /\ UNCHANGED rounds
       \/ /\ Fails
          /\ poller' = [poller EXCEPT !.pc = "hit", !.doc = {}]
          /\ Broken
          /\ UNCHANGED <<stored, owner, created, used>>
    /\ PollUnchanged /\ UNCHANGED <<link, pending>>

PollEnqueue(a) ==
    /\ poller.pc = "enqueue" /\ a \in poller.row
    /\ pending' = Enqueued(a)
    /\ poller' = [poller EXCEPT !.pc = "hit", !.row = {}]
    /\ Succeeds
    /\ PollUnchanged /\ UNCHANGED <<stored, link, owner, created, used, rounds>>

PollNextFilter ==
    /\ poller.pc = "hit" /\ poller.hits = {}
    /\ poller' = [poller EXCEPT !.pc = "search", !.filter = NoFilter]
    /\ Succeeds
    /\ PollUnchanged
    /\ UNCHANGED <<stored, link, pending, owner, created, used, rounds>>

PollDone ==
    /\ poller.pc = "search" /\ poller.filters = {}
    /\ poller' = PollerIdle
    /\ rounds' = IF rounds.whole
                 THEN [whole |-> FALSE, last |-> poller.at,
                       first |-> IF InTime(poller.at) THEN rounds.first ELSE poller.at]
                 ELSE rounds
    /\ Succeeds
    /\ PollUnchanged /\ UNCHANGED <<stored, link, pending, owner, created, used>>

-----------------------------------------------------------------------------
(* EsSyslogPoller.Stop *)

Quit ==
    /\ MayStop /\ ~quit
    /\ quit' = TRUE
    /\ UNCHANGED <<vars, indexed, enabled, deleted, owner, created, used, poller, rounds,
                   edits>>

PollerEnds ==
    /\ quit /\ poller.pc = "idle"
    /\ poller' = [poller EXCEPT !.pc = "ended"]
    /\ UNCHANGED <<vars, indexed, enabled, deleted, owner, created, used, rounds, quit,
                   edits>>

(* wg.Wait has returned *)
StopBatcherAnytime == quit /\ CloseStopCh /\ UNCHANGED pollerVars
StopBatcher == poller.pc = "ended" /\ CloseStopCh /\ UNCHANGED pollerVars

(* The first tick of the new process comes when it comes: the time the      *)
(* process is down passes before it.                                        *)
PipelineCrash ==
    /\ Crash
    /\ poller' = PollerIdle
    /\ Broken
    /\ quit' = FALSE
    /\ UNCHANGED <<indexed, enabled, deleted, owner, created, used, edits>>

BatcherStep ==
    \/ \E f \in Flusher, k \in Fingerprint : FlushTake(f, k)
    \/ \E f \in Flusher : FlushStep(f)
    \/ \E k \in Fingerprint : FlushNothing(k)
    \/ ReadStopKeys
    \/ StopReturns

PollerStep ==
    \/ PollStart
    \/ \E f \in Filter : PollSearch(f)
    \/ \E d \in Doc : PollHit(d) \/ PollInsert(d)
    \/ \E a \in Alert : PollEnqueue(a)
    \/ PollNextFilter
    \/ PollDone

PipelineNext ==
    \/ \E d \in Doc : Index(d)
    \/ PipelineTick
    \/ \E f \in Filter : ToggleFilter(f) \/ DeleteFilter(f)
    \/ PollerStep
    \/ Quit
    \/ PollerEnds
    \/ StopBatcher
    \/ BatcherStep /\ UNCHANGED pollerVars
    \/ PipelineCrash
    \/ AtRest /\ poller.pc \in {"idle", "ended"} /\ UNCHANGED pollerVars

PipelineSpec == PipelineInit /\ [][PipelineNext]_pipelineVars

-----------------------------------------------------------------------------
(* Properties *)

(* README.md:155 "Alerts are deduplicated by host, device, and normalized   *)
(* message within the configured dedup window": two stored alerts of one    *)
(* alarm are further apart than the window, in whatever order their log     *)
(* lines were indexed, found by filters, and interrupted by crashes.        *)
DedupSpacing ==
    \A a, b \in stored :
        LET s == LogTime[DocOf[a]]  t == LogTime[DocOf[b]] IN
        a # b /\ Fp[a] = Fp[b] => s + DedupWindow < t \/ t + DedupWindow < s

(* es_syslog_poller.go:96 "~2m window with overlap so minute-boundary logs  *)
(* are not missed": when a log line has left the search window, an alert of *)
(* its alarm was stored that makes it a repeat.  The next ticks make up for *)
(* failed calls, crashes and slow ticks as long as whole ticks start so     *)
(* often that their windows overlap by the time a document takes to be      *)
(* indexed, which nothing in the code sees to; what a longer gap swallowed  *)
(* is lost, and the lines the first tick after it reaches are found again.  *)
(* Holds while filters stay as they are and a search stays below its size.  *)
NoLogMissed ==
    \A d \in indexed :
        /\ edits = 0
        /\ rounds.first <= LogTime[d] + PollWindow
        /\ LogTime[d] + PollWindow < now /\ InTime(now)
        => \E a \in used : Fp[a] = DocFp[d] /\ LogTime[DocOf[a]] + DedupWindow >= LogTime[d]

(* However often searches find a document again, filters share or lose it   *)
(* and alerts are purged, Slack shows each row once and no row that was     *)
(* never stored.                                                            *)
ShownOncePerInsert == \A a \in Alert : posts[a] <= (IF a \in used THEN 1 ELSE 0)

(* When Stop has returned, every alert this process stored is shown or in   *)
(* the hands of a timer's flush, also one the poller was storing when the   *)
(* program was told to stop: the batcher is stopped after the poller.       *)
StopLeavesNothingBehind ==
    main = "stopped" /\ crashes = 0 /\ faults = 0 =>
        \A a \in stored : shown[a] # {} \/ \E f \in Flusher : a \in flush[f].batch
=============================================================================
