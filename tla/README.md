# DevOpsCoreAutomation: TLA+ models, model checks and proofs

This directory specifies the concurrent core of the program in `src/` in TLA+, checks the
specifications with TLC on small instances, and proves the properties that matter most with
TLAPS for every value of the constants. `PROJECT.json` is the index: which module belongs to
which part of the code, which lines each definition stands for, what every run checks, which
faulty variant of the code each property rejects, and which hazards are covered by what.

Run a check with `tlc -config <run>.cfg <module>.tla`, the proofs with
`tlapm <name>_proofs.tla`.

## 1. The system

One Go process (`src/cmd/api/main.go`) of a network operator. It scans optical line terminals
(OLTs) over SSH, watches syslog, mail alarms and Better Stack incidents and reports them to
Slack, rotates the passwords of network devices, runs command workflows, and serves a web
interface. PostgreSQL holds everything that outlives the process.

| Component | State it keeps | Operations | Interacts with |
|---|---|---|---|
| Syslog poller `scheduler/es_syslog_poller.go` | nothing but its goroutine; table `es_syslog_alerts`, filters | tick: retention, list filters, search, dedup, insert, enqueue; Stop | Elasticsearch, repository, calls the batcher |
| Syslog Slack batcher `syslog/slack_batcher.go` | `pending` batches and their timers, under a mutex | Enqueue, flush (timer goroutines), Stop | repository, Slack |
| Reminder worker `syslog/slack_reminder.go` | its goroutine | tick: list due incidents, post, bump | table `es_syslog_slack_incidents`, Slack |
| Slack events handler `handlers/slack_events.go` | `seen` event ids, under a mutex | one HTTP goroutine per event: resolve (check mark), pause and un-pause (hourglass) | the incident tables of syslog and Ruijie, Slack |
| Better Stack worker `betterstack/worker.go` | its goroutine; table `better_stack_slack_incidents` | tick: post new incidents, announce resolved ones, remind | Better Stack, Slack, repository |
| SSH pool `shell/pool.go` | map of entries (`p.mu`), one mutex and session per entry | SendCommand with re-dial, keep-alive round, Close | OLTs; used by every OLT scan |
| WebSocket hub `webSocket/` | map of clients, a buffered channel per client | register, unregister, broadcast; read and write pump per client | browsers; scans broadcast results |
| OLT scan scheduler `scheduler/scheduler.go` | a semaphore, the health buffer; tables of readings, history and inventory | power, description, health, port, inventory and backup scans, by cron job or request; flush at shutdown | SSH pool, repositories, hub |
| Workflows (IP, NOC) `scheduler/WorkflowScheduler.go`, `handlers/workflow_handler.go` | `jobMap`, the entries gocron holds; jobs, devices and runs in the database | edit jobs and devices, reload the schedule, run a job on its devices, sync the devices of the NOC page, make a backup for a BNG check | gocron, devices, repository, HTTP |
| NOC data collector `scheduler/noc_data_collector.go`, `nocdata/`, `handlers/noc_data_handler.go` | `running` flag; device rows, logins, exclusions | weekly run, discovery of a range, retries, recovery, removal of duplicates | devices, NOC password targets |
| NOC password rotation `nocpass/`, `scheduler/noc_pass_rotator.go`, `handlers/noc_pass_handler.go` | policies, passwords, saved and kept users, host state and credentials in the database | periodic and on-demand runs of a policy, edits, keep lists, saved users | devices, NOC data rows, HTTP |
| Ruijie mail alarms `Ruijie/MailCacher.go` | its goroutines; mail and incident tables | fetch, store, post to Slack, remind | Microsoft Graph, Slack, events handler |
| Activity log `scheduler/activity_log_slack.go` | the days it posted | one summary a day | Slack |
| IP capacity `handlers/ip_capacity_handler.go`, `repository/ip_capacity_repo.go` | nodes and their dated upgrades and downgrades with running totals | edit nodes and actions, import, recalculate, histories by day | HTTP |
| Authentication and roles `Auth/`, `middleware/`, `handlers/auth_handler.go`, `handlers/user_handler.go` | users, tokens | login, refresh, role checks | HTTP |
| Access OLTs, histories, listings | tables | create, edit, list | HTTP |
| Parsers `extractor/`, transports `shell/`, device dialogues `excessCommands/` | none | text and terminal work | devices |

Shutdown (`main.go:191-235`) runs in a fixed order: health buffer, workflow schedulers,
password rotator, data collector, syslog poller (which waits for its loop and then stops the
batcher), reminder worker, activity log, Ruijie poller and reminder, Better Stack worker, SSH pool,
HTTP server.

### What is hard here

- Goroutines meet in the database and in Slack, not under a lock: every flow is "read a row,
  call Slack, write a row", and two flows may interleave at each of these calls.
- Calls to Slack, PostgreSQL, Elasticsearch and devices fail one by one, after earlier steps of
  the same handler took effect.
- The process is killed or restarted with batches, timers and handlers in flight; the database
  and the Slack channel stay.
- Slack repeats events, Elasticsearch returns documents late, twice and through several filters.
- `ReloadAll` of the workflow scheduler runs in every editing request, without a lock, while
  executions of the jobs it removes go on.
- Two kinds of mutex in the SSH pool are taken in nested ways, with dials under one of them.
- A password rotation changes a device and a table that cannot be changed together, for hours, while
  people edit the policy it read, and may remove the very user it needs to log in.
- Two collections that find the same device decide, each from its own list, which row goes.
- Edits of one capacity node recalculate it from what they read, in transactions that overlap.

What makes each component correct is what its module's properties say; section 3 lists them.
The complete list of hazards, each at its line with the properties that cover it, is
`hazards` in `PROJECT.json`.

## 2. Modules, and how they correspond to the code

A step of a model ends where the code lets somebody else in: a statement on the database, a
request to another service, a lock, a channel operation. Everything between two of these is
one action. Texts, formatting and logging are left out, and payloads are model values.

```
IncidentTable          rows and statements of an incident table
  └ SlackReactions     events handler + reminder worker + people in the channel
      ├ SyslogSlack    + batcher, shutdown, crash          ─ implements → AlarmDelivery
      │   └ SyslogPipeline   + poller, Elasticsearch, filters, retention
      └ RuijieMail     + mail poller, mail folder, crash
BetterStack            worker + its store + Better Stack + Slack
SSHPool                pool, callers, keep-alive, Close
WebSocketHub           hub, pumps, browsers
Workflow               requests, ReloadAll, executions of jobs, their three tables
OltScans               cron jobs and requests that scan, tables of readings, health buffer
AddressRange           IPv4 subnets and ranges as they are typed
  └ NocData            jobs, collections of rows, the device table
NocPass                rotator, requests, devices and what the tables know of them
CapacityLedger         requests and their transactions on nodes and actions
```

**IncidentTable** is the table as a sequence of rows and one operator per statement of
`es_syslog_repo.go`; what a `WHERE` guards, and what it leaves unguarded
(`BumpReminder`, `MarkResolved`), is kept exactly.

**SlackReactions.** `events` is the list of reactions Slack reports; an event is `sent`, then
`writing` (its row was read), `replying` (updated), `done`. `ReceiveEvent` is `Handle` up to the
first statement, with the `seen` map; `RepeatEvent` is a repeated delivery; `HandleUpdate` and
`HandleReply` are the rest of `resolveSyslogIncident` and `setSyslogIncidentSnoozed`. The
reminder worker is `RemindList`, `RemindPost`, `RemindBump`, `RemindDone`. `thread` and `closed`
are what Slack shows.

**SyslogSlack** adds the batcher: `pending` is its map of batches, `flush[f]` a goroutine inside
`flush` with the next call as its `pc`. `FlushTake` is the part under the mutex; `FlushFind`,
`FlushAppend` or `FlushPost`, `FlushInstruct`, `FlushCreate`, `FlushLink` are its calls in order,
`FlushFails` its error returns. `CloseStopCh`, `ReadStopKeys`, `FlushTake(Main, k)` and
`StopReturns` are `Stop`. `Crash` clears memory and keeps database and Slack. `shown` and `posts`
are observers: which posts contain an alert.

**AlarmDelivery** is what the pipeline promises the channel. `SyslogSlack!Delivery` maps the
detailed state to it: an alert is new, stored, shown, linked; a message is posted, open, paused,
resolved.

**SyslogPipeline** puts the poller in front: documents that become searchable late (`Index`),
filters that are toggled and deleted, retention, the overlapping search window, the dedup check
and the insert as two statements, and the shutdown order of `main.go`. The clock runs on whatever the
poller does and whether or not the process is up. `rounds` is an observer: when the last tick began
that was whole (no call of it failed), and when the first of the whole ticks began that overlap up to
it, each within the window, less the delay of Elasticsearch, of the one before. A longer gap starts
a new row of them.

**RuijieMail** is the other user of SlackReactions: the same handlers and the same reminder worker
over the table of Ruijie incidents. `mailPoller` is `MailPoller.poll`: `PollTick` (the mails of the
lookback), `NextMail`, `InsertAlertIfNew`, and `postSlack` with `FindIncident`, `FollowUp` or
`PostParent`, `CreateSlackIncident`, `LinkAlert`, and the error returns in each. A mail without
source or type has no fingerprint and never repeats. `shownIn`, `held` and `quiet` are observers: which
posts contain a mail, which mails a paused incident took in silence, and how many posts a thread had
when its incident was last paused.

**BetterStack** is the single goroutine of the worker with every call and error path, over
`BetterStackRepository` as it is: the condition `"id = ? AND ..."` of its two guarded updates is
passed without the id (`betterstack_repo.go:78,84`), PostgreSQL refuses both statements, and
`MarkResolved` and `Bump` change nothing. What the worker does after a resolution was marked, its
announcement, is therefore never reached and has no action. (`worker_test.go` has a Store in memory
that runs the updates; the program has no such Store.)

**SSHPool** has one `pc` per goroutine and both kinds of mutex as variables. `live` and `target`
say which sessions are open and with which device.

**WebSocketHub** has the hub's select, the range over the clients of one broadcast, and both
pumps. Buffers are sequences with the capacity as a constant.

**Workflow** is one scope (IP or NOC) of the workflow scheduler with the handlers that drive it.
`adm[a]` is a request that edits jobs or devices, or Main while it starts; its `pc` walks through
`ReloadAll`: `StartReload` (read `jobMap`), `RemoveTag`, `ResetMap`, `ListJobs`, `NewGocronJob`,
`RememberTag`, `EndReload`. `runner[g]` is a goroutine inside `runJob`: `Load`, then for each device
`StartDevice` and `Send`, then `EndJob`. `viewer` is the device sync of the NOC page and `checker`
the on-demand backups of the BNG check. `regs` counts the entries gocron holds for a job. Three
facts about libraries matter and are kept: gorm's `Save` writes a soft-deleted row anew, gorm leaves
a false field with a default out of an INSERT (so the run-once jobs the handlers create disabled are
stored enabled, and `register` skips them for their schedule only), and an entry in singleton mode
never runs twice at once. `overwritten`, `lastRuns` and `overlapped` are observers.

**OltScans** has one `run[g]` per goroutine: a cron job waits for the semaphore, a request starts only
when it is free, a Huawei scan takes none. `Erase`, `Collect`, `ReplaceAll`, `DeleteExceptHosts`,
`BulkUpsert`, `PairSnapshots`, `InsertHistory`, `ReplaceByHost`, `SaveOltInventory` and `SaveSummary`
are the statements of the scans in their order; what a scan read of an OLT is the number of the
scan. `buffer` is `healthBuf`, which `FlushHealthBuffer` empties at shutdown.

**NocData** has `job[j]`, the weekly run or a request, and `slot[s]`, a goroutine inside
`collectOne` with the copy of the row it was given: `Take`, `CollectOne`, `UpdateSnapshot`,
`FindByIdentity`, `RemoveDuplicate`. `RunAllNow` has the `running` flag; `CreateDevice`,
`FindByRangeHost`, `UpsertDiscoveredDevice` are the discovery of a range, `RetryRange`,
`RunFailedDevices`, `ResetListed` the retries, `ListFailed`, `ResetForRecovery` the recovery. A
device is itself: its hostname, model, version and serial together, and a row that lacks one of the
four has no identity. The snapshot of some families (`SerialOptional`: Cisco) is complete without a
serial; then no duplicates are looked for. `stranded`, `leftover` and
`dismissed` are the histories its properties excuse. **AddressRange** has the operators of `range.go`:
the hosts a discovery walks over and those an exclusion matches, from a subnet and two ends as they
are typed. The walk counts in 32 bits: `WalkEnds` is false of a range that ends at the last address, and
a discovery of it goes on over all addresses (`StillToWalk`).

**NocPass** has `worker[w]`, the rotator or a request inside `RunPolicy`: `GetPolicy`,
`ResolveTargets`, `EnsurePolicyPasswords`, then for each host `BeginHost`, and for each login
`ListProtectedKeepUsers`, `DiscoverExistingUsers`, `SendCommands`, `SaveConfirmedCredentials`, and
in the end `SaveOutcome`. `dev` is what the devices really have, `policies`, `passwords`, `state` and
the credentials what the tables know. Which device a policy owns (`PolicyMatchesRow`,
`PolicyOwnsRow`, `SavedUserMatchesRow`) are operators over the attributes of a host. `settings`,
`doubted`, `raced` and `mixed` are observers: what was last asked of a policy, hosts whose rotation was
cut off or ran twice at once, policies edited or run while another goroutine held them, and hosts
where a saved user bore the name of one the rotations log in with or set.

**CapacityLedger** has one transaction `tx[r]` per request: the edit (`CreateNode`, `UpdateNode`,
`DeleteNode`, `CreateAction`, `ReadAction` and then `UpdateAction` or `DeleteAction`, or `MissesAction` when
the row has gone, `ImportActions`), `Recalculate` for each node it touched, `Commit` or `Rollback`. A
transaction keeps the columns it wrote and overlays them on the committed tables, as at the level read
committed. `LatestAction`, `DayHistory` and `AllHistory` are what the pages show. `DayOf` is the day of a moment by the clock of
the program, `DayInDatabase` by that of the database, `Shift` moments ahead or behind: `ListHistoryDays`
groups by the second, the rest reads by the first. `skewed` is the history of nodes another edit overlapped.

A definition named for a defect (`...Forgotten`, `...Unlocked` and so on, explained at the top of
each module) is a faulty variant of the definition next to it. No specification uses one. They
are there to show that the properties reject the faults: `mutants` in `PROJECT.json`.

## 3. Runs

| Run | Question | Properties |
|---|---|---|
| `slack_liveness` | is every alert shown, by a timer or by Stop, does a check mark resolve and only that, does a due reminder go out, and do batcher, handlers and reminders do what the channel was promised? | ClosedIsResolved, EveryAlertShown, CheckMarkResolves, DueIsReminded, ImplementsDelivery |
| `pipeline_safety` | from Elasticsearch to the thread: late documents, shared filters, a toggle or a purge, a failed call, a crash, a slow tick, a gap between ticks, the shutdown | ShownAtMostOnce, LinkedWhereShown, DedupSpacing, NoLogMissed, StopLeavesNothingBehind |
| `ruijie` | polls that read a mail again, restarts, pauses: is a mail shown once, an alarm open once, a pause kept? | MailShownOnce, OneOpenAlarm, NoMailMissed, PausedIsQuiet |
| `betterstack` | what may failures and restarts do to messages and rows, and is an open incident tracked in spite of them? | EachLossExplained, OpenIsTracked |
| `pool` | do callers, keep-alive and Close ever share, mix up or lose a session, or wait for each other for ever? | TypeOK, OneUserPerSession, RightDevice, NoSessionForgotten, CallsReturn |
| `hub` | does a browser miss a message unknowingly, does a broken connection stay, does a slow one hold up others? | GaplessFeed, BrokenIsLetGo, BroadcastPassed |
| `workflow` | do edits, reloads that overlap, a sync, on-demand backups and two executions at once leave gocron, the jobs and the runs consistent? | ScheduledAsStored, StatusTellsLastRuns, PendingIsRunning |
| `olt_scans` | do scans that overlap, an OLT that does not answer or a shutdown bring back old readings, lose or double a snapshot? | EachSnapshotOnce, NeverOlder |
| `noc_data` | do the weekly run, requests and two collections of one device leave one row of it, and never none? | OneRowPerDevice, PendingIsCollected, DeviceKept |
| `noc_pass` | do runs, edits, saved users of any name, a broken session, a restart and a midnight keep tables and devices together, and everybody's access? | ConfirmedIsActual, PasswordOnRecord, NotLockedOut, EditsSurvive, KeptUsersStay |
| `capacity` | do late entries, edits and imports in overlapping transactions leave totals and history adding up, with the database's clock behind? | LedgerAddsUp, DaysAddUp |

All of the above pass. One run is expected to end in a counterexample, a disagreement between the
code and what the repository says of it (`findings` quotes the lines): in
`betterstack_never_resolved` no incident is ever marked resolved, and reminders go on. They come at
every poll, too, whatever the reminder says of the next one (`slack.go:97`), since no row is due later.

### Known to go wrong, and not part of a passing property

The models have these behaviours too; what a passing property says leaves them out by name.

- A check mark made after the parent message was posted and before its row is saved is dropped: the
  handler finds no row. `CheckMarkStopsReminders` (SyslogSlack) says what the message itself
  promises, "✅ - resolve it and stop reminders" (`slack_blocks.go:189`), and TLC refutes it;
  `CheckMarkResolves` is about messages whose row is there.
- Two requests that reload the schedule at once: a tag noted after the other request read `jobMap`
  is dropped with the old map. A job may then be scheduled twice until later reloads, and a deleted or
  disabled one until the program restarts. `ScheduledAsStored` says what holds in spite of it, that every
  enabled job is scheduled if the jobs could be listed, and asks for exactly the table's jobs only while
  no two reloads overlapped (`overlapped`). `jobMap` has no lock either, so Go may end the program: `Crash`
  is free to happen while reloads overlap.
- A log line is lost when a whole search window passes between two ticks that read all they ask
  for. Nothing prevents it: a tick runs on `context.Background()` with an Elasticsearch client that has
  no timeout, the interval has no upper bound (`es_syslog_poller.go:41`), the window is always two
  minutes (line 97), and an outage takes as long as it takes. `NoLogMissed` is about the documents for
  which this did not happen, before such a gap and from the first tick after it on.
- The history page lists its days by the time zone of the database's session
  (`ip_capacity_repo.go:382`) and reads each by the program's own; `config.go:189` and the compose file
  set no zone for either to share. With PostgreSQL at UTC and the program east of it, an action of a day's first hours is
  listed for the day before, and its own day is missing unless a later action lists it. `DaysAddUp`
  bounds what the newest snapshot may lack; that it never lacks anything is false with `Shift < 0`.
- A discovery of a range that ends at 255.255.255.255 never ends: the counter of `WalkIPv4Range`
  (`range.go:68`) wraps.
- A Nokia power, description or port scan deletes the rows of every OLT that is not Nokia
  (`power_repo.go:117`, called at `scheduler.go:231`), the Huawei readings with them, until the next
  Huawei scan. `HuaweiReadingsStay` (OltScans) says the opposite and TLC refutes it; `NeverOlder` is
  about Nokia.
- An edit of a policy while a run holds it is written over by the run's end (`raced` in EditsSurvive).
- A saved user may be named like a setup user or like FIBERX or SUPPORT (`CreateSavedUser` does not
  compare them). Giving it to a host changes the password the rotations log in with, or one they set,
  and deleting it takes that user away. Without `mixed`, the history of hosts this happened to,
  `noc_pass` violates both `NotLockedOut` and `ConfirmedIsActual`.
- Two edits of one capacity node that overlap miss each other's actions until the next
  recalculation of the node (`skewed` in LedgerAddsUp); an editor who may not see costs writes back
  the cost read before the transaction.

### Bounds, and why they are enough

- *Two goroutines of a kind* (timers, callers, collections, transactions): every race here is between
  two parties reading and writing one row, entry or batch; Main, the reminder worker, the keep-alive
  or the weekly run is the third.
- *Two or three alerts or mails of one alarm*: a first message and a repeat, and in `pipeline_safety`
  a document found by two filters, a late one and a spare row for a second insert.
- *A few troubles in all*. A failed call, a crash or a request of an administrator can each hit at
  any step. Together they are bounded: one in `pipeline_safety` (the constraint `OneTrouble`, which counts an
  edit of a filter, the shutdown, a tick that takes time and a gap between whole ticks, and keeps the
  first of the two filters as it is) and `olt_scans`; two reactions, or a failed call, a crash or a Stop, in `slack_liveness`
  (`EventsOrTrouble`; it cuts off only steps that no fairness asks for); two in `ruijie` (`TwoEvents`, reactions counted), `workflow`, `noc_pass`
  (midnights counted) and `betterstack`; three in `noc_data`; four requests and a failed transaction in `capacity`, two at a
  time. The properties about races need two parties, and the excuses they make need one trouble.
- *Clock up to 1-3 units*: a reminder interval (`slack_liveness`), four polls with a lookback of two, so
  that an incident leaves it (`betterstack`: 3), a search window of 2 plus a late document and a repeat just outside the
  dedup window (`pipeline_safety`: 3), a lookback and a unit beyond it (`ruijie`: 2).
- *Two sessions, three calls* in the pool: a host that is dialled, dropped, and used again, or two
  hosts. The theorems of section 4 cover any number.
- *Two jobs, two devices, three rows of runs, two executions, two administrators* in `workflow`: a job that
  runs while it is edited, deleted or run again, a group of two devices, and two reloads that overlap.
  `RoomForRuns` holds an execution back when the table of runs could not take its rows. The constraint
  `FewAtWork` has at most three goroutines at work at once, and none beside two administrators; without
  it the run has 8 million states, takes longer, and passes as well.
- *Two hosts, three policies, two days* in `noc_pass`: a host rotated on an earlier day and a new one,
  a random policy and one with a manual password, and a policy a request creates.
- *One device on two addresses, three rows* in `noc_data`: two rows of one address in ranges that
  overlap, and the row of the other address.
- *Addresses*: the two hosts are 10.130.5.0 and 10.130.6.0, found by a range of single numbers and by
  one of addresses, excluded by either form; an exclusion typed backwards is refused. `MCNocData`
  also assumes, and TLC evaluates, that a discovery walks over exactly the hosts an exclusion of the
  same subnet and range matches, under six masks with ends before, at and behind each other.
- *Two Nokia OLTs, a Huawei, three scans* in `olt_scans`: a pair of snapshots and the one after it.
- *Two nodes, three actions, three moments of two days* in `capacity`: an action entered
  before, between and after existing ones, and a day without one; the clock of the database one moment
  behind, which puts a moment of each day into the day before.
- *Buffers of one* in the hub instead of 256: full and empty are the cases; three messages are
  what a gap takes.
- *`Far`* (fifty years ahead in the code) is a time the clock cannot reach, by assumption.
- Symmetry is used for interchangeable elements only (executions, spare rows, mails, the setup users,
  collections, requests), and in no run with a liveness property.

Every run keeps deadlock checking on: the action `AtRest` lets a system stutter only when its
goroutines really have nothing to do.

### Fairness

Runs with liveness properties use `FairSpec`: weak fairness per goroutine step, which is the Go
scheduler and the assumption that a call is answered or fails in the end (Slack, Better Stack and SSH
calls have timeouts; the search in Elasticsearch has none, and SyslogPipeline states no liveness). In
BetterStack it covers the worker and its ticker. The SSH pool assumes strong
fairness of every goroutine's step instead, because a goroutine that waits for a `sync.Mutex` gets
it in the end (the mutex hands over to a waiter that starves). People, documents, crashes and
shutdown requests are never obliged to happen. Where a failure legitimately drops work, because the code
has no retry there, the property excuses it, as EveryAlertShown does.
Whatever fails in the other modules is not retried by the code, or is retried a week later, so they
state no liveness.

## 4. Proofs

Eight modules hold what TLAPS proves, for any number of alerts, mails, incidents, hosts, policies and
goroutines, any windows and intervals, and any number of crashes and failures. `SlackAlarms_proofs`
has the proofs of the two users of SlackReactions, SyslogSlack with SyslogPipeline and RuijieMail, and
before them the lemmas about the incident table, the handlers and the reminder worker that both use;
`Connections_proofs` has those of the SSH pool and of the WebSocket hub.

| Theorem | Property | Argument |
|---|---|---|
| *SlackAlarms_proofs*, of SyslogSlack | | |
| `TypeCorrect` | TypeOK | induction over the actions |
| `NeverShownTwice` | ShownAtMostOnce | an alert that is pending, in a batch before its post, or not stored has no post, and it is in one of these places only |
| `LinksLeadHome` | LinkedWhereShown | a flush about to link holds an incident id whose row names a message in `shown` of its whole batch and carries the batch's fingerprint |
| `NoMessageTwice` | OneIncidentPerMessage | the message a flush is about to save is posted, has no row yet, and is no other flush's |
| `ClosedMeansResolved` | ClosedIsResolved | an event that replies to a check mark has a resolved row, and no statement takes that back |
| `OneReminderIsLate` | AtMostOneLateReminder | the row of a thread that says so is resolved and never unresolved, so after it only an entry of the list of the tick under way can be reminded of, once |
| `RemindersKeepApart` | RemindersSpaced | an open row of a thread with a reminder is due an interval after it or later, unless the bump of that reminder is the worker's next step |
| `StopLeavesNoTimer` | StopLeavesNothingPending | once stopCh is closed pending batches only leave, and what is pending has a key that Stop still has to flush |
| `DeliveryImplemented` | ImplementsDelivery | each step is one of AlarmDelivery's, or a stutter: a linked alert is done with, an alert has one home, a message one alarm |
| *of SyslogPipeline* | | |
| `PipelineTypeCorrect` | PipelineTypeOK | induction; two rows are never of one document |
| `AlertsAreSpaced` | DedupSpacing | the document the poller is about to insert repeats no stored alarm, and nobody else stores one |
| `StillShownOnce`, `LinksStillLeadHome` | ShownAtMostOnce, LinkedWhereShown | the batcher's invariant over the rows that were ever stored, since it may hold alerts whose rows were purged |
| `StopFlushesAll` | StopLeavesNothingBehind | after Stop's flush no timer and no batch is left, and the poller no longer adds any |
| `OncePerInsert` | ShownOncePerInsert | an alert with a post, pending or in a flush, was inserted |
| `OverlapMissesNothing` | NoLogMissed | a document within reach of the ticks that overlap up to the last whole one was handled, or no whole tick began since it had to be searchable, and the tick under way, if it began since, is whole so far and has the document in its window, has yet to handle it; when a whole tick ends, it overlaps with the last or starts a new row |
| *of RuijieMail* | | |
| `MailTypeCorrect` | RuijieTypeOK | induction over the actions |
| `MailIsShownOnce` | MailShownOnce | a mail in the poller's hand is stored by it alone, and has no post before the poller posts it |
| `AlarmOpenOnce` | OneOpenAlarm | only the poller makes incidents, and between its look-up and its insert nobody else does |
| `PausedStaysQuiet` | PausedIsQuiet | each incident has a message of its own; since it was paused its thread had no reply while the poller has one in hand, and no reminder while the tick has one on its list |
| `LookbackMissesNothing` | NoMailMissed | a mail not stored is younger than the lookback or in the poll under way |
| *BetterStack_proofs* | | |
| `TypeCorrect` | TypeOK | each row has a message of its own, about its incident |
| `LossesAreExplained` | EachLossExplained | messages without a row are counted; each is paid by a failure or a restart, the one in hand apart |
| *Connections_proofs*, of SSHPool | | |
| `TypeCorrect` | TypeOK | every mutex is held exactly by the goroutine between Lock and Unlock |
| `SessionsNotShared` | OneUserPerSession | two entries never have one driver, sessions are numbered freshly, and an entry's mutex has one holder |
| `CommandsReachTheirDevice` | RightDevice | an entry, mapped or removed, belongs to one host, and so do the sessions it gets |
| `SessionsKept` | NoSessionForgotten | a driver is replaced only after its session was closed |
| *of WebSocketHub* | | |
| `HubTypeCorrect` | HubTypeOK | the hub has a client exactly from its hand-over to the close of its channel |
| `FeedHasNoGaps` | GaplessFeed | the queue holds the last messages broadcast, the hub works on the one before them, and a client was fed last that one or the one before |
| `NoPanic` | NeverOnClosed | a channel is closed when its client leaves the hub's map, and the hub sends only to clients in it |
| *OltScans_proofs* | | |
| `TypeCorrect` | TypeOK | induction over the actions |
| `NokiaScansTakeTurns` | OneNokiaScan | the semaphore is taken exactly while a scan is past its wait |
| `ReadingsNeverGoBack` | NeverOlder | scans of Nokia take turns, and what is stored of an OLT is never newer than the scan that runs |
| `SnapshotsKeepTheirPlace` | EachSnapshotOnce | the scans of history, insert and buffer are one increasing sequence in which each stands once |
| *NocPass_proofs* | | |
| `TypeCorrect` | TypeOK | every goroutine holds what its place in the code needs; a rotation touches the row of states before it writes it |
| `EditsAreKept` | EditsSurvive | of a policy nobody raced for, one goroutine at most has the row in hand, and it is the row of the table |
| `PasswordsAreOnRecord` | PasswordOnRecord | a generated password is in a row that is stored before any host is reached, and a row's password of today is not replaced |
| `KeptUsersAreSpared` | KeptUsersStay | the users a rotation began with and still to be kept are in the lists it reads, now or when it read them |
| `NobodyIsLockedOut` | NotLockedOut | each session spares the user it is logged in with, and what it removes or sets leaves that one in |
| `ConfirmedPasswordsAreActual` | ConfirmedIsActual | host by host: a rotation that knows itself alone at its host has set on the device what it writes into the table of credentials, before the state of the host says so; one that is not alone has its host in doubt |
| *NocData_proofs* | | |
| `DataIsTyped` | TypeOK | a row's identity is the device of its host; what jobs and collections hold are rows and ids; no row has an id not yet given |
| `NoRowIsForgotten` | PendingIsCollected | a reset and the list it is made for are one step of a job, and a collection that ends writes or strands its row |
| `NoDuplicateStays` | OneRowPerDevice | a row says ok only after its collection wrote it, and that collection then looks for all rows of its device, itself |
| `NoDeviceIsLost` | DeviceKept | for each row a collection is about to remove the device has a row that outranks it, higher in address or, of one address, lower in id: so the first of the device's rows is on nobody's list |
| `WalkMeetsMatches`, of AddressRange | | octets in order are numbers in order; a mask ends in one octet, keeps those before it and clears those behind it, so what lies between two addresses of a subnet is of that subnet; the walk of a range that ends at the last address meets every address |
| *Workflow_proofs* | | |
| `WorkIsTyped` | TypeOK | rows are never removed, so what a goroutine names stays there |
| `PendingRunsAreAlive` | PendingIsRunning | a new row is pending and its maker's alone; nobody else ends it, and no edit touches the table of runs |
| `StatusIsEarned` | StatusTellsLastRuns | an execution's `failed` says what became of the runs it made, and a run that has ended stays as it is, also after its execution |
| `ScheduleFollowsTable` | ScheduledAsStored | a reload that removed an entry lists the jobs afterwards and registers what the table enables then, whoever else reloads; and of a reload nobody joined, `jobMap` remembers exactly the entries gocron holds |
| *CapacityLedger_proofs* | | |
| `LedgerIsTyped` | TypeOK | induction over the actions |
| `LedgerIsRight` | LedgerAddsUp | what a transaction has recalculated adds up in what it sees until a commit touches the node, and then it is no longer fresh and its commit leaves the node skewed; a commit changes rows only of the nodes it works on |
| `DaysAreRight` | DaysAddUp | of a ledger that adds up: the last action up to a day tells the sum of all up to that day, since days grow with time; and a clock that is behind by less than a day lists an action at most one day early |

Hardly any of these is inductive alone. Each proof module has the conjunction that is (`IInv`,
`PInv` with `StopInv` and `SearchInv`, `MInv` with `QuietInv` and `LookbackInv`, `BSInv`, and `TInv`,
`EditInv`, `RecordInv`, `KeptInv`, `StateInv` and `ConfirmInv` in NocPass_proofs, `DataInv`
of NocData_proofs, which theorem `DataIsSound` states, `RunInv` of theorem `WorkIsSound` and `SchedInv`
in Workflow_proofs, `HubIInv` of the hub, `IInv` of theorem `LedgerIsSound` in CapacityLedger_proofs): the types, and what each goroutine holds at each `pc`, which is where the argument of the table is. The proofs show `Init => Inv`,
`Inv /\ [Next]_vars => Inv'` with one lemma per action, and that the invariant implies the
property. Action properties (NeverOlder, KeptUsersStay, DeviceKept) and the refinement follow step by step under
the invariant. NocPass has several invariants one upon the other instead of one: its lemmas say once
what each action does to the goroutine that takes it, and the proofs of the invariants use only
those.

The proofs assume the named assumptions on the constants, and three theorems a hypothesis besides:

- `OverlapMissesNothing`: `SearchesComplete`, what an operator has to see to: every document is one of
  a filter, and no window holds more of a filter's documents than a search returns. That ticks come
  often enough is no hypothesis but part of `NoLogMissed`, document by document (`rounds.first`,
  `InTime`), since the code does not see to it.
- `LookbackMissesNothing`: `Lookback # 0`. The code forces at least a minute (`MailCacher.go:259`).
- `NobodyIsLockedOut`: a setup user exists on each device at first, without which nobody can log in
  to begin with.

CapacityLedger needs an argument about sums: that a node's running total is its initial capacity and
the amounts of its actions so far, whatever their number. The library's induction theorems take an
operator and cannot be used; instead `EveryNumber` says of a *set* of numbers that it has all up to a
bound when it has 0 and, with a number, the next, and follows from the least number outside it
(`WFMin` of the library). From it follow that a total over a sequence exists and adds up
(`TotalsAdd`), that a sum splits over disjoint parts (`SumOfParts`), that the order a recalculation
reads in exists (`OrderExists`), and that the total after a row is the sum up to it (`RunningTotal`,
`RecalculatedAddsUp`). The invariant of the transactions is the other half: each holds, by a lock
of the edit itself, the committed rows it edits, no two edit one action or create one row, what it
writes belongs to nodes it works on, and those cannot be deleted meanwhile. So a commit leaves alone
the rows of all other nodes, in the tables and in what each other transaction sees.

What the proofs changed in the models: the powers of two in `Block` of AddressRange are a table, since
the provers know nothing of `2^k`; `Buffered` of OltScans, a CASE with overlapping arms, is an IF;
`Show` of AlarmDelivery says in parentheses which subsets it means, which
SANY and tlapm read differently; `KeptUsersStay` is about users kept without a break, because a user
dropped from the list and kept again while a rotation runs is removed by it; the assumption of
NocPass says that passwords an administrator types are no generated ones; `PausedIsQuiet` of
RuijieMail counts from the write that pauses the incident, for which `quiet` is kept. Counted from
the reply that says so, as it was at first, it holds only as long as that reply is posted each time:
an incident that is paused, resumed and paused again with its second reply lost has replies after
the first one. In NocData a complete snapshot of a Cisco may lack the serial, and its row then has no
identity and says ok beside another row of the device; duplicates the program finds in its table at
the start are `leftover` ones; and the tables it may find have identities of the rows' own hosts. In
Workflow a job may be found with a status whose runs nobody remembers: `overwritten` has those jobs
from the start, and the run starts with such a job. CapacityLedger has the columns an edit writes and
those a recalculation writes as variables of their own (`nodes`, `current`, `actions`, `ledger`), an
import as a function of its rows instead of one built row by row, and sums by `Totals`, without
RECURSIVE operators; its reachable states are the same.

Only model-checked: the liveness properties (fairness and ENABLED are beyond the prover: EveryAlertShown,
CheckMarkResolves, DueIsReminded, OpenIsTracked, CallsReturn, BrokenIsLetGo, BroadcastPassed).
Every invariant and action property of
the passing runs is proved, under the hypotheses above. Proved and in no run's list: OneIncidentPerMessage, AtMostOneLateReminder,
RemindersSpaced, StopLeavesNothingPending and ShownOncePerInsert of the syslog modules. TLC finds no
violation of them under the constants of the runs; to break the two about reminders takes more
intervals of time than those runs have.

## 5. Abstractions to keep in mind

- `EveryAlertShown` holds while the process lives. `StopLeavesNothingBehind` leaves alerts in the
  hands of a flush that a timer began: Stop does not wait for it, and the exit of the process may
  end it (`Crash`).
- A batch may be flushed any time after its first alert; the batch window is not modelled, nor is
  the truncation of the display of a batch of more than 18 alerts.
- Reminder intervals are at least an hour. Below that the batcher uses the configured value and
  the reminder worker six hours.
- The order of reminders within a tick is left open.
- The `seen` map of the events handler does not expire (ten minutes in the code).
- A reaction is on the parent message; the lookup of the parent of a reacted reply is not modelled.
  Each handler looks for a syslog and then for a Ruijie incident; a message is at most one of the two,
  so each model has its own table.
- Editing the text of a filter is not modelled; toggling one is a single step.
- A reminder listed before a check mark may still go out after "Reminders stopped.", and
  overlapping hourglass handlers may leave an incident paused with no hourglass on its message. The
  model has both behaviours; theorem `OneReminderIsLate` bounds the first, and PausedIsQuiet does for Ruijie.
- Workflow: the look-up of a job and of its devices is one step, and so are the read and the save of
  a device by `UpdateDevice`. Requests choose among a few jobs (`Inputs`). Devices of all vendors
  and types are one group. The log table and the files of backups are not modelled. In Go a map that
  one goroutine ranges over while another writes may also end the process: that is `Crash`.
- One unit of the clock is a poll in BetterStack, a length of time that divides the search window in
  SyslogPipeline, the shortest interval of interest in SyslogSlack. In SyslogPipeline it runs on during ticks and outages.
- BetterStack counts time in polls. The calls of a tick to Better Stack end after 45 seconds; a tick that Slack or the database
  hold up longer, or an outage, is a poll that comes late, so fewer polls fit into the lookback, which the code counts in days:
  `OpenIsTracked` is about an incident that is in it for one poll more than calls fail. The list of due rows is cut at 50
  (`betterstack_repo.go:45`), which the model leaves out: since no row is ever due later, the same 50 are reminded at every poll
  and those beyond them never.
- Closing the SSH pool closes the sessions its map holds at that moment; a call in flight may dial
  again, and that session ends with the process. No property says otherwise.
- The size of a search and the limit of the reminder query are constants; `NoLogMissed` is
  checked below the size of a search. Retention purges a row after its document left the search
  window.
- RuijieMail: the table is empty at first, or has one open incident. The poller polls at least once
  per unit of time, a restart takes less than the lookback, and a poll reads fewer mails than its
  limit of 50. The instruction in the thread is one step with the parent message; it may be missing.
- OltScans: every OLT of a vendor is scanned with every kind. A scan's readings carry its number and
  nothing else. Backups, the monthly cleanup and purges, the histories of ports and of Huawei health
  are left out.
- NocData: one request is under way at a time, beside the weekly run; two collections at once stand
  for any number of them. `stranded` rows were left pending by a crash or a failed call,
  `leftover` devices had duplicates at the start or kept one when a cleanup failed, and of `dismissed` ones an administrator
  deleted a row. The run has no range that ends at 255.255.255.255; theorem `WalkMeetsMatches` covers it.
- NocPass: the rows of NOC data and the setup logins do not change, and the setup users are not the
  ones a rotation sets. They are tried in any order. The
  password of a saved user is one value, not that of a setup user in the run. `began` is history: the users that were to be kept when a
  rotation began and still are. `doubted` hosts had two rotations at once, or one cut off
  between device and table.
- CapacityLedger: read committed; the row locks a recalculation takes are taken at its commit, the
  rows of an import stored in one step, and province, name and type are one key.

## 6. Plan

Done: every component with shared state and more than one party: syslog to Slack, Ruijie mail, Better
Stack, SSH pool, WebSocket hub, workflows, OLT scans, NOC data, NOC passwords, capacity ledger; the
proofs of section 4.

## 7. Not modelled

- *Device output parsers* (`extractor/`, `nocdata/` parsing, mail text): regular expressions over
  text; their results are values the models are given.
- *Transports and dialogues* (`shell/` but the pool, `excessCommands/`): terminal I/O whose other half
  is the device. What a failed or broken-off dialogue does to the callers' state is modelled where
  it is called.
- *Authentication and roles*: checks of one request against a token and one row; nothing is kept
  between requests. The routes' roles matter where they change what is stored (CapacityLedger's
  costs).
- *Activity log*: one message a day by one goroutine, from one query.
- *Access OLT records, histories and listings*: one statement per request on rows nobody else uses,
  or reading only.
- *Credentials encryption*: a cipher call on each side. *Wiring and configuration*: but for the
  shutdown order, which SyslogPipeline and OltScans have.
- Parts left out of modelled components are named in their notes in `PROJECT.json`.
