# Twillingate in TLA+

Twillingate is an analytics server: one Go binary, one SQLite database and a
directory of event files per project. These modules model the parts of it whose
correctness depends on the order in which things happen: what two threads, a
crash or a failed write can do to an event between the browser that sends it
and the day its month is deleted; what queries, shares and widgets answer while
files, logs and rows change under them; and what a revoked key or a purged
project can still do. TLC checks small instances. TLAPS proves every safety
property the runs check but four, for every calendar, set of events, number of
threads and bound that satisfies the assumptions its section names.

## The system

| Part (source) | State it keeps | Operations | What is hard | What makes it correct |
|---|---|---|---|---|
| Ingest server (`internal/server`) | counters | validate, clamp, enqueue | none of its own: one request, one thread | clamped timestamps stay in the late window |
| Ingest buffer (`internal/pipeline`) | bounded channel, one batch | `Enqueue`, `Run`, `write` | full channel, retries, shutdown | nothing lost uncounted, handlers never block |
| Event log (`internal/archive/log.go`) | open files, remembered ids | `WriteEvents`, `Rotate`, `OpenLog` | partial failures, crashes, torn lines | acknowledged means durable |
| Daily pass (`internal/archive/maintain.go`) | files only | rotate, claim, dump, expire, merge | each step may fail or be the last before a crash; a writer runs beside it | no event lost, none counted twice, months become final |
| Listing and native queries (`internal/archive/files.go`, `internal/native`) | none between queries | list, open by name, retry | files move while they are read | an answer counts each event once |
| Derived statistics (`internal/archive/maintain.go:163`, `files.go:164`) | files of sessions, identities, aliases | derive, list as current | no manifest: only modification times tell what a file was made from | a derived file read as current stands for the events listed |
| Open log cache (`internal/native/logcache.go`) | decoded lines by file, bytes charged and reserved | read, update, evict, reserve | a log that was cut and grew again; decodes that grow together | a cached log equals the file; the bytes stay within the bound |
| Shared scans (`internal/native/many.go`) | turns, scans, answers under way | group, scan, put out, answer | requests that leave, fail or panic while sharing a scan | each request is answered once, with its own answer |
| Registry (`internal/manage/registry.go`) | snapshot, version | `Reload`, `withhold`, `Snapshot` | reads without a transaction, racing reloads, another process | a revoked key is refused |
| Management operations (`internal/manage`) | none | transactions and audit, then reload | the reload after a commit fails | as the registry |
| Monitor (`internal/monitor`) | busy slots, locks, pending rows | tick, scheduled and manual checks | checks overlap with the tick's list, shutdown | each request is answered, none runs twice |
| Jobs (`internal/jobs`) | last day done | daily pass, purge, sweep, outbox flush | racing another process, at-least-once delivery | files removed only for projects gone; no form event lost |
| Identity salt (`internal/identity`) | salt and its time | `Current`, rotation | two writes for one rotation, two processes | no salt links visits a day apart |
| Reporting caches (`internal/reporting`) | entries, flights, generations | get, claim, settle, invalidate | one load for many waiters | no waiter stuck, no stale row stored after an invalidation |
| Order of dashboards (`internal/reporting/order.go`, `place.go`) | rows with a sort key, group numbers, group names | create, update, copy, rename, archive, purge | several writes computed from one reading; archiving takes no lock | a group stays together and keeps its name |
| OAuth login (`internal/api`) | burnt codes | authorize, exchange, refresh | replay | a code is used once |
| SDK (`sdk/src/twillingate.ts`) | queue, stored batches | emit, flush, beacon, retry | unload, several tabs | counted once, bounded |
| SQLite store, configuration, enrichment, query evaluation, Parquet, console, CLI | | | sequential | tested as functions |

How they meet: a handler asks the registry's snapshot whether its key is
accepted, clamps the event's time and calls `Enqueue`. The buffer's one worker
calls `WriteEvents`, which appends to the log of the event's day and syncs it;
until it returns nil the batch is tried again. Once a day (and at start) the
daily pass turns the logs of past days into Parquet files and merges final
months. Queries read all of these files, by name and without a lock. Forms and
the monitor write events through the same log. The registry is reloaded from
the database after every write of this process and, by a poll of
`meta.config_version`, after those of another one.

## Modules

| Module | Models | Code |
|---|---|---|
| `EventFiles` | names of a project's files, what a listing shows of them | `archive/maintain.go:33`, `archive/files.go:117`, `log.go:286` |
| `Archive` | the event log's writer, the daily pass, crashes, the clock | `archive/log.go`, `archive/maintain.go`, row rules of `dump.go` and `merge.go` |
| `EventStore` | abstract: acknowledged events stay readable until their month expires | the promise of the above |
| `ArchiveReader` | a query beside `Archive` | `native/engine.go:246-409`, `archive/files.go:48` |
| `Registry` | projects, keys, snapshot, version, reloads, polls | `manage/registry.go`, `manage/ops.go`, `store/sqlite/registry.go` |
| `Pipeline` | channel, handlers, worker, shutdown | `pipeline/pipeline.go`, `app/app.go:339` |
| `Monitor` | monitor rows, ticks, slot and manual checks, worker pool, shutdown | `monitor/monitor.go`, `store/sqlite/monitors.go`, `store/monitors.go` |
| `MonitorReads` | the daily reading of a domain or a certificate | `monitor/monitor.go`, `store/sqlite/monitors.go`, `reporting/ops_monitor.go` |
| `DerivedFiles` | session, identity and alias files beside the daily pass and readers | `archive/maintain.go:163-240`, `archive/files.go:117-265`, `archive/derived.go` |
| `LogCache` | what the cache of open logs answers beside the writer | `native/logcache.go`, `archive/log.go` |
| `LogBudget` | the bytes of that cache | `native/logcache.go` |
| `SharedScan` | one call of `AnswerMany` | `native/many.go` |
| `AnswerQueue` | how its answers leave | `native/many.go` |
| `Salter` | the visitor salt in two processes | `identity/identity.go`, `jobs/jobs.go` |
| `ShareCache` | the rows of public shares | `reporting/share_cache.go`, `reporting/ops_widget_share.go` |
| `WidgetCache` | the values of widgets, one load for many calls | `reporting/cache.go`, `reporting/stream.go` |
| `DashboardOrder` | dashboards: their order, groups and names | `reporting/order.go`, `place.go`, `ops_dashboard.go`, `ops_duplicate.go`, `store/sqlite/reporting.go` |
| `Outbox` | forms, submissions, attribution, the outbox | `store/sqlite/forms.go`, `jobs/attribution.go`, `store/sqlite/purge.go` |
| `Sweep` | the files of purged projects | `jobs/jobs.go:180-260`, `manage/registry.go` |
| `SdkQueue` | a browser's batches in several tabs | `sdk/src/twillingate.ts`, `server/ingest.go` |
| `Selections` | a sequence without some of its elements, for the four modules that need it | |
| `MCArchive`, `MCArchiveReader`, `MCDerived` | instances for TLC | |
| `MCServer`, `MCServerLive` | parts that do not meet, checked in one run | |
| `Archive_proofs`, `ArchiveCounted_proofs` | theorems about `Archive`: types and durability, then counting and the refinement of `EventStore` | |
| `ArchiveReader_proofs` | theorems about `ArchiveReader` | |
| `Intake_proofs` | theorems about `SdkQueue`, `Pipeline`, `Outbox`, `Registry` and `Sweep` | |
| `Queries_proofs` | theorems about `LogBudget`, `LogCache`, `DerivedFiles`, `SharedScan` and `AnswerQueue` | |
| `Monitor_proofs` | theorems about `Monitor` and `MonitorReads` | |
| `Caches_proofs` | theorems about `WidgetCache`, `ShareCache` and `Salter` | |
| `Selections_proofs` | lemmas about `Selections`, and induction over sequences | |

`MCServer` and `MCServerLive` are sums: a behaviour is one of one part, chosen
in its first state, and the variables of the other parts keep the values they
begin with. They state nothing about parts together.

### Archive

`dir` is the set of names in a project's directory and `content[f]` the lines
of each; a name is its kind (`log`, `closed`, `dumping`, `day`, `month`), day
and number. A line is one append of an event: an event written again after a
failed batch, or sent again after its id was forgotten, has a second line with
the next copy number, so that deduplication has something to do. `handles` are
the open files of `Log.files`, `unlinked` those whose name the pass has removed
(what is then appended reaches no file), `torn` the logs with a partial last
line, `unsynced` the lines that a power loss may take.

The writer holds the log's mutex from `WriteEvents` to `SyncLogs` (or to the
failure that ends it), which is `batch # {}`; `Rotate` is the only step of the
pass that needs it. One action per day appended, so the pass, a crash and the
clock may come between two days of one batch. `AppendFails` is a write that is
cut back, `AppendTears` one that is not, `SyncFails` a failed fsync (which
covers nothing, then or later).

The pass is `pc` and `todo`: each loop of `maintainProject` works through a
listing taken when it began, however stale it has become, in any order (the
code's order is one of them). The months loop decides on one listing what to
delete and what to merge, file by file. Every step may fail and leave the pass
to go on, and the pass may stop for a shutdown.

`Crash` is the end of the process anywhere: memory is lost, and if
`CrashLoses`, any set of unsynced lines too, tearing a log that was already
closed or claimed. The restart's `OpenLog` is part of it: it cuts torn tails of
open logs only.

Two things the code leaves to time are guards. `InWindow`: a timestamp is
clamped when received and written within seconds, so an event received before
midnight may be written after it, but not after the day's first pass, which
starts at 03:00 or with the process (`PassStarts` is the same bound seen from
the pass). `OnePass` in `ArchiveReader`: a query that overlaps a pass has ended
before a second pass begins a day later.

Left out of `Archive`: the derived files (rebuilt from the Parquet files when
missing), `RemoveProject`, the loss of a directory entry before its directory
is synced, `Close` (a crash that loses nothing), and the columns a dump and a
merge convert. One project: projects share the mutex and nothing else. An
event's day is fixed; a client that sends one id with two times sends two
events, as the docs say.

### ArchiveReader

A query lists (`QueryLists`), opens the listed names one by one (`QueryReads`)
and answers. A name that is gone ends the attempt with nothing kept; the next
attempt is the next `QueryLists`. A name that is there is read whatever file it
now names, as the code does. `reborn` is history: the listed names that went
and came back before they were read.

### Registry

A thread is a request of this process (or its daily pass). `OpWrites` commits
and goes on to reload; a reload is three reads with anything in between, then
`Publish` under the mutex and `Stamps`, which puts off the next poll.
`PollTaken` is the successful compare-and-swap of `lastCheck`; `lastPoll`
remembers whose value it holds, for the swap back of a cancelled poll.
`missed` and `unseen` are history: the projects written since a reload began,
and since the one the snapshot came from. `OutsideWrites` is the CLI or the
console process. Left out: creating and moving projects (a move withholds
nobody, a creation's key is unknown until a reload), the rules read between
keys and version, several keys of a project.

### Pipeline

`Enqueue` is three actions, because the channel may change between finding it
full and dropping its oldest event. A batch is written at once or fails; after
as many attempts as the configuration allows it is given up. The select of the
worker may choose any ready case. `StopsPipe` follows HTTP's shutdown, which
waits five seconds at most: `late` says that handlers were still running.
`BUFFER_CAPACITY` is taken to be at least 1, which the configuration does not
check.

### Monitor

The rows of the table are `enabled` (switched on, its project not archived),
`requested`, `finished` and `last` (the columns `check_requested_at`,
`check_finished_at`, `last_checked_at`; 0 is the empty string). They outlive the
process and are written by any process; the store has one connection, so each
statement is a step, and the time written in it is taken in the same step. The
clock's unit is the cooldown between two requests, one minute. The pool's size
is chosen in the first state.

A tick is `phase`: it copies `manuals` (`wasBusy`), then lists, then goes
through the listed rows twice, and all the while the rows and the goroutines go
on. `slot[m]` and `manual[m]` are the goroutines of `m`'s checks: a manual one
waits for a worker, checks, records its end and only then leaves `r.manuals`,
where a slot check frees its worker and its slot. Which monitors have a slot in
a tick is any subset. Results are times only; whether a site is up changes
nothing here. `ran` and `told` are history: the last request whose check was
run (forgotten when recording its end failed or the process died first, after
which it may rightly run again) and the last whose result was stored.

Left out: the rows waiting for the event log, the removal of a monitor's row, and
the daily readings (one step here, with the stop that cuts them), which have a
module of their own. A clock that steps back is
modelled (`ClockStepsBack`), and `EveryRequestEnds` holds with it; that a
result is never hidden (`ServedIsReported`) is stated of runs without such a
step, since a check dates its result by the request of the row it began with,
and that row may carry a time still to come.

### MonitorReads

One daily reading: the expiry of a main domain, which several monitors of a
project share, or, with one monitor, that of its certificate. The tick finds it
due in three steps (the clock, the row, the start) with the rows and the
goroutines going on between them; a manual check reads in any case. A reading's
goroutine waits for the lock of its key, then for the pool, which other readings
share and which may delay it for any time; its lookup ends within a unit of the
clock. Readings are numbered as they are taken. The clock does not step back
here. Disabling every monitor forgets the last attempt, and so does a restart:
`lastTry` is the history of what may be remembered.

### DerivedFiles

What the daily pass derives from the events files: a file of sessions for each
day, or each merged month, and the two folded files, identities and aliases. A
file is the lots (the lines of one log) it was made from and the pass that wrote
it, which stands for its modification time: files of one pass are of one time,
and the code keeps a derived file only if no events file is newer. The pass
dumps, deletes or merges its months, lists, writes the session files that are
due, removes orphans and folds. `gone` are the lots of months this pass has
deleted, which is the local variable `removed` of the code: `lapsed` are those
of passes that never came to the folded files, kept as history for the property.
A reader lists atomically; lots may arrive in a merged month, whose merge is
then repeated. A removal may fail, of an orphan or of a fold file that could not be
rewritten: such a fold stays as it was, and the property about deleted months
leaves it out as long as the pass reports it (`complete`). Left out: what sessions
are.

### LogCache and LogBudget

Two views of one cache. `LogCache` keeps the bytes: a file is a sequence of
bytes of lines, so that an append may stop anywhere, the writer may cut it back
(`CutsBack`, `CutsTornLine`) and append others, and a rotation gives the name to
another file. No lock is between the two, so a query is as many steps as the code
has looks at the file: it opens (`Opens`), takes the flight and a size
(`SizesLog`), looks at the byte before the entry's end (`ChecksEntry`), reads on, a
buffer at a time (`ReadsOn`), and at the size it took, or the end of a file cut
meanwhile, is answered (`Answers`). The lines it got go to the entry; the tail
past them, which the code decodes for this query only and answers if it is a whole
object, is part of the answer. What bytes say is a function of them
(`Content`): a stretch that begins in the middle of a line is a line of its own.

`AnswerIsLog` compares the answer with what the log held, as far as it was read,
at the last read. Its two exceptions (`misled`) are of bytes of a failed append
that were read before they were cut off, and are where the code's sentence that
logs are only appended to does not hold. Either the entry had them, and the log,
cut back, has grown again with others to a line that ends on the very byte the
entry did; or the query had them itself, from its entry or from the file, and read
on after the cut. `AnswerIsLogAlways` leaves the exceptions out; `cache_answers`
shows the second one: a row of two halves, kept in the entry.

`LogBudget` keeps the numbers: `bytes` charged for entries, `inflight` reserved
by decodes, chunk by chunk, and which entries give way. `store` ignores what
`room` answers, so an entry whose room has gone to another decode meanwhile is
stored past the bound, though the comment of the class (`logcache.go:43-49`)
says both together stay under it; `excess` is by how much, and `BudgetHolds`
says that nothing else passes it and that the numbers are the sums they stand for.
The sums are written as sizes of sets, one element for each byte of each entry
(`CachedBytes`) and of each reservation (`Reserved`): a size is what the library
has theorems about.

### SharedScan and AnswerQueue

`SharedScan` is one call of `AnswerMany`: requests grouped by key into scans of
at most `maxConsumers` aggregations, each waiting for turns (`Engine.slots`, a
line in order) by its heavy aggregations, attempts that start over when a file
has gone, requests that leave with their context, fail alone or are put out for
the scan's memory and answered alone afterwards, panics of a scan swept by its
end. Items of a scan are fed in any order and to any of its requests, one step
each; `checks` are the workers between a feed and their look at the budget. The
bytes of derived files and of identities and a panic under `sh.mu` are left out.
`lead[i]` is the first request of `i`'s scan and names the scan: a request joins
the scan of the one before it of its key, unless that has become full, which is
the loop of the code read from one request. That the call returns is stated as a
safety property in `TurnsBound`, something in it can always go on, because its
loads end by their own deadlines; `AnswersAreRight` then says that everyone has
been answered when it does.

`AnswerQueue` is the hand-over: a queue, a channel of one that wakes, and one
goroutine that looks, hands on and sleeps. Instead of saying that some step of the
goroutine can be taken, `HandedInOrder` says when it may sleep: with nothing to
do, or while somebody has woken it or is about to.

### Salter, ShareCache, WidgetCache

`Salter`: two rows written by two statements, read by two, in two processes, and
a memory of each. `mixed` is history: the process read on either side of
another's rotation, which the code cannot know.

`ShareCache`: one row, its version and deletion; a load (`flights`) per
generation; a write of this process invalidates after its commit (`writing`),
writes of others do not.

`WidgetCache`: `task[c][w]` is how far a call is with a widget; a stream claims
all its widgets, loads those it leads (its queries as one batch) and waits for
the rest. The exception `Crossed`: a call that waits on streams whose batches have all
panicked while each waits for a flight of another of them. They never settle, because the wait
(`stream.go:90`) comes before the settling that its comment (`stream.go:81-85`)
relies on. The streams' own deadline would end this in the program.

### DashboardOrder

`db` is the user's part of the dashboards' table with the groups' names. A sort
key is a text between two others; here a key is the set of rows it comes after,
which keeps its meaning when rows before or behind it come and go. A request
reads its row, takes `placeMu`, reads the order and works out its writes
(`Plans`, a set: `after` and `group` are the caller's); `Writes` makes them one
transaction at a time, so a fault, an archiving or the purge may fall between
any two. Archiving and restoring read one row and write without the lock. The
group a copy is made of is seen before the lock is taken. "copy" stands for any
copied title. The purge takes rows archived for longer than a request lasts.

`GroupsAreWhole` also says that a group's number is that of one of its own rows,
or of a row that is gone: `handOver` renumbers those who stay when the row the
group is named after leaves it. `NamesFollow` compares the table before and
after a step.

Left out: built-in dashboards as the source of a copy, tabs of projects,
widgets, a second server process and with it `retryConflict`. Two things seen
while modelling, neither stated by a text of the repository in a way a run could
refute: leaving a group without saying where to is refused when the last row
left in it is archived, though the row is meant to come right behind the group
(`place.go:159-187`); and a group copied after its last live tab was archived
writes nothing and then takes the first of no ids (`ops_duplicate.go:190`).

### Outbox

One form and its submissions: statements of the store are steps; the minute's
job reads a batch of pending rows, looks up, attributes one by one (each row with
the value it was read with, `work`), then writes the outbox page by page to the
log and marks the pages. Rows may be archived, purged and re-approved between
any two. The log is a set of events: it drops an id written again, as `Archive`
shows. Left out: the fields of a form, more than one form, retention of archived
items (they may be purged at once), and the composition with `Archive`: a form's
event carries the time it was received, which after a long outage may lie in a
month already merged, where it stays unread until that month is merged again.

### Sweep

The daily pass purges projects, reloads and removes their directories, then
lists what is on disk, reloads and removes what the snapshot lacks
(`removeOrphanedArchives`), beside requests that reload the same registry and
events accepted under it. `overtaken` is history: a reload that read before the
sweep's was stored after it.

### SdkQueue

A batch is one event. A tab's queue, its failed batches (`pending`), the queue
all tabs share on the device (`kept`), requests and beacons under way, and the
server's days. A request that fails may have arrived; a beacon may be lost after
it was accepted. As in the code, a successful request of an unload takes its
batch out of no queue, and `saveQueue` overwrites what other tabs keep there,
marks and all. `left` and `overdue` are history, the two ways an event is
counted on two days. Consent is given between visits only.

## Runs

| Run | Instance | Shows |
|---|---|---|
| `archive` | one month of two days, two events on its last day, two copies each, two faults, four days on the clock; late window 1, retention 3 | no acknowledged event lost or counted twice, `EventStore` implemented |
| `archive_late` | late window = retention = 2 | a violation: a log in a deleted month |
| `reader` | two months, an event on either side of the boundary, one copy, two faults, one of them at most beside a query, no power loss, days 0 to 4 | no line counted twice; what may be missed; the passes catch up |
| `reader_complete` | both events on one day, no fault | a violation: an answer without events it should hold |
| `registry_agrees` | two projects, two requests, two writes, no fault | a violation: old snapshot, new version |
| `monitor` | one monitor, one worker or two, two clock units, requests too old in the next, two faults | no check twice, no end by an older request, no result hidden, every request ends |
| `server` | eleven parts, see below | caches equal what they cache, budgets hold, answers are each request's own, a revoked key is refused, an event is counted once |
| `server_live` | five parts, see below | the same of widgets, the sweep, forms and the buffer, and that what must happen does |
| `expired_names` | `DerivedFiles` of `server`, three passes | a violation: names of a deleted month read as current |
| `sweep_live` | `Sweep` of `server_live` | a violation: the files of a project that exists are removed |
| `cache_answers` | `LogCache` of `server` | a violation: an answer with a row the log never held |
| `sdk_replay` | `SdkQueue` of `server` | a violation: a marked batch is sent again past its age |

Why the bounds are enough. *Archive:* a file is only ever in trouble with the
files of its own month, so one month and its last day suffice for safety; two
events with two copies give a repeat in one log, in two segments of a day, and
across a stopped merge; two faults are a fault and one more while recovering
from it; a four-day clock passes the write, the late window, the merge and the
expiry. `Segs` is large enough that no step is blocked for want of a number
(both copies of both events and an empty log each in their own file).
`reader` has two months so that one is merged while the next is
open. It excludes a power loss, because a claimed log the loss tears is dumped
by no later pass: the code reports it each day and leaves it. *Reader:* one
query, one pass; every further query starts from the same states. *Registry:* a
race needs two reloads, or a reload and a poll, and a write in each.
*Monitor:* monitors share nothing but the pool. With two workers a monitor's
slot check and its manual check overlap; with one they contend for it: a request
of the first unit is then too old in the second, which is as far as one
request's end can depend on the clock. A fault is a failed call, a stop, a crash
or a step of the clock back, so two are one of them and one more in its wake.

The parts of `server`: *salter* two processes, two rotations, one fault;
*share* two visitors, ages of two and one units, two versions; *budget* two
queries, two logs of which one is rotated, a bound of two bytes, so that any two
entries contend; *logs* lines of one and two bytes, at most three bytes of a log (a line
before the failed ones, and one after them that ends elsewhere), two queries, of
which the second meets the entry of the first, a rotation or a failed append; *sdk*
two tabs, one event, two losses (what a double count needs), days of
two units; *many* five calls whose requests are too heavy together, too many,
or too heavy alone, two turns, two attempts, one trouble and, in the small calls, a second one
beside a request that left; *queue* three producers; *derived* two days of one month, one
with a late lot, and a day of the next, two passes, one fault (while the next
month has no event); *registry* one
project, two requests, two writes, one fault; *reads* two monitors of a domain,
two readings, two edits of rows, a clock of one day and one retry, one restart (with one
monitor only); *dashboards* three in any grouping, each group named, none
archived to begin with, a fourth to be made, and two callers with two of a request, an
archiving, a purge and a failed write between them, the second used only beside
the first; a purge amid the writes of a placement, of a row archived before it,
comes on top of these. Those of `server_live`: *widget* two
widgets, two streams and a GET, with one mishap, or two when one of the callers
stays out (a part is then named after it); *sweep* two projects, one request;
*outbox* a submission that reads and one that does not, batches and pages of one
row, one fault, a second submission that reads, in a form that stays open, so that
the outbox has a second page in one minute, and a third (of one that was purged)
where nothing fails; *pipeline* three events, capacity 1, flush at 2, two attempts;
*registry* one write. `NothingBlocks` relies on finitely many events: against
an endless stream of other handlers the retry loop itself promises no turn.

`archive`, `archive_late` and `reader_complete` use symmetry in the two events, which
start alike; they check safety only. The other runs use none. `archive_late`, `reader_complete`, `server`,
`server_live`, `expired_names`, `sweep_live`, `cache_answers` and `sdk_replay` do not check for
deadlock: the server stops, a call returns, the clock ends, and a scan's or a
queue's going on is part of its property.

The seven violations are disagreements of code and text and are listed as
findings in `PROJECT.json` with the texts they contradict. `archive_late`: the
configuration accepts equal windows. `reader_complete`: only an absent file
fails an attempt, not one replaced under its name. `registry_agrees`: the
version is read after the data it is supposed to describe. `expired_names`: that
a month was deleted is remembered by a local variable only. `sweep_live`: a
reload stores what it read over a newer one. `cache_answers`: a log is cut back
while it is read. `sdk_replay`: an unload asks no
batch for its age.

Every property of a passing run has a mutant beside the definition it changes
(`Mut...`): the small mistake in the code that breaks it.

### Fairness

`reader`: the writer, once in a batch, goes on (a thread that holds
the mutex runs); the pass goes on and starts again (the scheduler runs it daily
and at every start); the clock moves. No step need succeed until the faults are
used up, no fault need happen, and no query need end. `monitor`: the ticker fires and a tick goes on, checks end (each
has its timeout), a stopped server is started again; strong fairness for the
worker a manual check waits for, since Go queues a channel's senders in order,
and for `RunnerExits`, whose select may take the ticker a few times first. The
clock need not move. `server_live`, part by part: *registry* a request goes on
or fails, one of the requests takes a poll that is due, the interval passes, no
write need happen; *pipeline* a handler inside `Enqueue` and the worker run,
Go's select takes a ready cancellation in the end (strong fairness of
`Cancelled`, since flushes disable it meanwhile), HTTP's shutdown has its
deadline, no write need ever succeed; *widget* a call goes on, its loads having
a deadline, but need never begin; *sweep* the pass runs every day, the buffer
writes, a reload that has read stores; *outbox* the job runs every minute and
goes on, and minutes pass. Faults are bounded and none need happen.

## Proofs

Every result holds for all values of the constants that satisfy the named
assumptions of the module it is about: `CalendarAssumption`, `SegsAssumption`
and `ArchiveAssumption` (types, `LateDays <= RetentionDays`, months end on days
of their own), `MonitorAssumption`, `MonitorReadsAssumption` and `ReadersApart`
(no monitor is called as the daily reading is), `ShareCacheAssumption`
(`shareRowAge` is positive; it is a constant of 60 seconds in the code),
`SalterAssumption`, `RegistryAssumption`, `SweepAssumption`,
`SdkQueueAssumption` (`BEACON_REPLAY_MAX_AGE_MS`, 20 hours, is less
than the late window, `INGEST_LATE_DAYS`, a day at least),
`PipelineAssumption` (finitely many events; a capacity), `OutboxAssumption`,
`LogBudgetAssumption` (finitely many logs and queries, as its counters count
them), `LogCacheAssumption` (no line is empty), `DerivedAssumption`,
`SharedScanAssumption` (a call is a sequence of requests, each with a number of
aggregations). The others assume nothing finite. Each inductive invariant was
checked by TLC before it was proved.

| Module | Theorem | States |
|---|---|---|
| `Archive_proofs` | `TypeCorrect` | `[]TypeOK` |
| | `AckedIsNeverLost`* | `[]AckedReadable` |
| | `SkippedWasAcked`* | `[]SeenIsAcked` |
| | `MergedMonthIsFinal`* | `[]MergedIsFinal` |
| | `ExpiredMonthStaysGone`* | `NoLogInExpiredMonth` |
| `ArchiveCounted_proofs` | `LinesCountedOnce`* | `[]CountedOnce` |
| | `MonthFileHoldsDays`* | `[]MonthHoldsDays` |
| | `TornLogIsClosed` | `[]TornIsClosed` |
| | `FilesImplementStore`* | `ImplementsEventStore` |
| `ArchiveReader_proofs` | `QueryReadsOnce`* | `[]AnswerCountsOnce` |
| | `QueryMissesOnlyReborn`* | `[]AnswerMissesOnlyReborn` |
| `Intake_proofs` | `BatchesCountedOnce` | `[]BatchCountsOnce` |
| | `EventsConserved` | `[]Conserved` |
| | `PreviewsKeptOut` | `[]PreviewsStayOut` |
| | `RegistryFailsClosed` | `[]FailClosed` |
| | `VersionMeansCurrent` | `[]CurrentIfVersionIs` |
| | `LiveProjectsKeepFiles` | `[]LiveFilesStay` |
| `Queries_proofs` | `CountersAddUp` | `[]BudgetHolds` |
| | `CacheAnswersLog` | `[]AnswerIsLog` |
| | `DerivedFilesAgree` | `[]DerivedAgree` |
| | `EveryAnswerIsRight` | `[]AnswersAreRight` |
| | `AnswersHandedInOrder` | `[]HandedInOrder` |
| `Monitor_proofs` | `ServedReadsAsServed` | `[]ServedIsReported` |
| | `CheckRunsOnce` | `RunsOnce` |
| | `EndIsItsOwn` | `EndsForItsOwnReason` |
| | `NewestReadingIsKept` | `NewestReadingStays` |
| `Caches_proofs` | `CancellationIsOwn` | `[]CancelStaysOwn` |
| | `AnsweredRowIsCurrent` | `[]RowIsCurrent` |
| | `HeldSaltIsYoung` | `[]SaltIsYoung` |

Those with a star assume `LateDays < RetentionDays` as well, which is necessary:
`archive_late` is the counterexample with equal windows.

### Durability (`Archive_proofs`)

`TypeInv` adds to `TypeOK` that only logs end in a partial line and that a
pending event has a copy left. None of the safety properties is inductive
alone. The invariant `IInv` joins them through the parts that explain why the
code is right:

- `BatchInWindow`: an event being written is no older than the late window of
  the last pass, so its month is neither merged nor expired (`BatchIsKept`);
- `LinesFiled`: a name that is not there holds nothing, and a file holds lines
  of its own month, of copies appended so far;
- `MonthsFinal`: the month of a month file is past the late window and has no
  log, so no batch can open one in it;
- `UnlinkedExpired`: a handle without a name belongs to an expired month, so
  nothing of a batch is ever written through it;
- `AppendedFiled`: each line the batch under way has appended is in its day's
  log, which the pass cannot rotate before the batch is synced;
- `BatchAccounted`: an event of the batch is pending, appended, or was
  acknowledged before (it was skipped);
- `TodoListed`: what the pass has yet to do is there, of the kind its step
  handles, and is all there is of a month that may be merged or removed;
- `AckedDurable`: every acknowledged event that is kept has a line in a file a
  reader lists, in Parquet or synced, which is `AckedReadable` made inductive.

The argument of the hardest part, `DurableStep`, is per kind of step: renames
keep the first line of every id (`MoveKeeps`), a dump keeps one line per id
(`DumpKeeps`), a merge keeps every id of its inputs (`MergeKeeps`), a removal
removes only what a kept file repeats (`DropKeeps`), and a power loss takes no
synced line. That a set of segments has a first one is `LeastNumber`, by
well-founded induction on the naturals.

### Counting and the refinement (`ArchiveCounted_proofs`)

`CountedOnce` speaks of listed files, and the removal of a file lists another
again: the claimed log once its dump is gone, the day files once their month's
file is. So `CInv` adds what holds of files no reader lists. `LinesApart`: two
files that share a line are a claimed log and its dump, or a day file and its
month's file, of which a listing has one. `HiderHolds`: the one listed has every
event of the one hidden, which is `MonthHoldsDays` and its like for dumps.

`FilesImplementStore` then maps each step to `EventStore`. By `HiderHolds` an
event is in some file if and only if it is in a listed one, so what readers find
changes only with what files hold: a sync of the writer stores the batch it
acknowledges, an expired file takes expired events, and a rename, a dump, a
merge, a removal or a crash leaves what is found of the acknowledged events, or
takes from it what has expired.

`TornLogIsClosed` needs only that the torn log of a day is the one file of that
name: a tear ends the handle, and an open cuts before the first append.

### A query beside the pass (`ArchiveReader_proofs`)

`BesideFiles` reduces the many steps beside a query to `FilesStep`: what is
there before and after a step only grows, by new lines, and what a step creates
or removes is of the kinds its place in the pass allows. With at most one pass
beside an attempt, a listed name that is gone stays gone unless it is a log's
(`GoneStaysGone`), because the pass is past the step that makes such names
(`Past`). So a line is read under one name only (`ReadOnce`), and what was
promised and missed was in a log that went and came back (`PromiseTracked`).

### What is taken in (`Intake_proofs`)

- `SdkInv`: an event is in one tab's queue before it is in any batch
  (`QueuedOnce`), and no message of it outlives a unit of the clock (`InTime`).
  Once it is counted, whatever copies are left, wherever they are, carry the
  beacon's mark and are sent only while young (`OneDay`, `YoungReplays`), so they
  arrive within the late window, on the day it was counted. The exceptions are
  the two the property names, and a step that could break `OneDay` otherwise is
  one that enters its event in `left` or `overdue`.
- `PipelineInv`: `Conserved` is about what a sequence is without some of its
  elements. `Taken` states it of the events as taken, each of them once, and
  `OnlyWithout` turns the loss of a batch, or of the channel's oldest, into the
  removal of its events from that sequence; `ShutDown` is why nothing is left in
  the channel when the worker has ended.
- `OutboxInv`: the mark that an event is to be written is set when the submission
  is accepted and copied, never set again, by what reads rows
  (`RowsApproved`) and by the job that works on rows read before
  (`WorkApproved`).
- `RegistryInv`: what a reload has read is what the database holds, but for what
  was written since it began (`ReadsCurrent`), and no one holds a version the
  database has not reached (`VersionsPast`). A write therefore makes every held
  version differ from the database's, and only the projects in `unseen` or still
  being written can be granted wrongly.
- `SweepInv`: ids come from the database and are not used again (`IssuedOnly`),
  so a project created after the listing is not on it; a reload that began after
  the sweep's own knows every listed project that exists (`LaterReads`), so it
  may be stored over it.

### Queries (`Queries_proofs`)

- `BudgetInv` is `BudgetHolds` with types; what makes it inductive is that a
  reader reserves only while it decodes (`Sound`). Each step adds or takes whole
  ranges of byte numbers of one entry or one reservation, so the new sum is the
  size of a union or difference of sets that do not meet. The loop that evicts
  entries is the least number of them that makes room.
- `LogCacheInv`: an entry no byte of which was ever cut off is a prefix of its
  file that ends with a line, and its rows are those of that prefix; with the bytes
  a query has got past it, the same holds as far as they are still in the file
  (`IsPrefixOf`), which may grow, be cut behind them, or lose its name. A query that
  was not misled has its rows and bytes from one and the same text, the one it
  noted (`TookTruth`). The rows of an entry and of what follows it are the rows of
  both, and the tail of both is that of what follows (`LinesFacts`).
- `DerivedInv`: a derived file has what is in every events file that is not newer
  (`SessionsCover`, `FoldsCover`), and has nothing else unless it is due in the
  pass under way or its month has outlived its retention (`SessionsExact`,
  `FoldsKeepGone`, `FoldsRenewed`); one that is due is older than the pass
  (`DueIsOlder`), so one that could be neither written nor removed is told from
  one that was. A pass changes events files before it derives
  and dates them with its own number, so what they touch is out of date until it is
  written again (`NewerThanDerived`).
- `ManyInv`: `live[s]` is never less than the requests a scan still owes an
  answer, so a scan that stops since nobody is left owes none, and its
  cancellation is nobody's answer (`ScanInv`); what the attempt has not yet fed
  a live request is what that request has not been fed, so a scan that is done
  has fed each live one everything once; a request out of its scan is answered,
  or was put out and is then answered alone before the scan's end (`AloneInv`).
  Most steps are cases of three kinds: a scan goes on, requests leave it, a
  request is answered alone.
- `QueueInv`: what was put is what was handed on, is in the goroutine's hands or
  is queued, in this order; the queue is closed only after the last producer, and
  the goroutine ends only after a look at the closed and empty queue.

`SelectSeq` takes an operator, of which no theorem can be stated, so `Selections`
has it with a set. `SeqInduction` is induction for a set of sequences: one that
holds the empty sequence, and with a sequence each that is longer by an element,
holds them all; the facts about `Only` are proved by it.

### Monitor and caches (`Monitor_proofs`, `Caches_proofs`)

- `MonitorInv`: requests are served in the order they were made (`ServesLater`);
  a monitor that was free when the tick began stays free until the tick's loop
  comes to it, and the request listed for it is one not yet checked
  (`ListedOnce`), which is why the busy monitors are taken before the list; a
  manual check past its worker has run what it serves, but for a shutdown
  (`RunsToEnd`); while the clock goes forward no row's time is ahead of it
  (`InThePast`).
- `ReadsInv`: one goroutine is past the lock, and its reading is the newest
  (`TakenInTurn`); `tried` is no earlier than the last reading begun, but between
  a scheduled one's lookup and its end, when none is queued (`TriesCounted`).
- `WidgetInv` is `CancelStaysOwn` with types: only a call whose client has gone
  settles as cancelled, and its waiters load for themselves.
- `ShareInv`: requests that missed in one generation began after the same last
  write (`OneFloor`), so one may answer for all; the entry is no older than the
  last write that has returned, and was in the store at the time it counts from
  (`EntryCurrent`).
- `SaltInv`: the row's salt is the last one made and its time is not after it,
  even between the two writes of a rotation (`LatestRow`), as those fall in one
  unit of the clock (`WrittenNow`).

### Only model-checked

Every liveness property (`PassCatchesUp`, `EveryRequestEnds`, and all of
`server_live` but its invariants): liveness under fairness is out of this
prover's reach. So is `ENABLED`, on which `TurnsBound` rests; its other parts are
sums of weights over the tasks that hold turns, which would need an induction
over the recursion that defines a sum. `GroupsAreWhole` and `NamesFollow`, of the
order of dashboards, were not tried: both choose new keys and numbers by cases
over the whole table. `MCServer.TypeOK` is the type of the part that runs; what
of it the proofs need is in their invariants.

## Plan

1. Proofs: `GroupsAreWhole` and `NamesFollow`; `TurnsBound` without `ENABLED`, with
   weights counted as sets of units as `LogBudget` counts bytes.
2. `Outbox` composed with `Archive`: receipt times outside the late window.
3. OAuth codes; the folds of identities.

## Not modelled

The evaluation of queries and the Parquet codec (sequential functions over data,
compared with SQL in the repository's own tests), the web console, configuration
parsing, enrichment and the command line. Of the hazards listed in
`PROJECT.json`, those without a property carry a note that says why.
