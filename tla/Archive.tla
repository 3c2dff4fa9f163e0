-------------------------------- MODULE Archive --------------------------------
(***************************************************************************)
(* The event files of one project: the log every event is appended to      *)
(* (internal/archive/log.go), the daily pass that turns logs into Parquet  *)
(* day files and day files into month files (internal/archive/maintain.go) *)
(* and the crashes both survive.                                           *)
(*                                                                         *)
(* Two threads take steps: a writer in WriteEvents, which holds the log's  *)
(* mutex from its first append to its last fsync, and the daily pass,      *)
(* which takes that mutex only in Rotate.  A line is one append of an      *)
(* event; a second append of the same event (a retry, a resend) is a line  *)
(* of its own.                                                             *)
(***************************************************************************)
EXTENDS EventFiles

CONSTANTS
    Events,         \* event ids
    EventDay,       \* the (clamped) day of each event's timestamp
    LateDays,       \* INGEST_LATE_DAYS
    RetentionDays,  \* RETENTION_DAYS
    MaxCopies,      \* bound: how often an event is appended
    CrashLoses,     \* whether a crash may be the machine's: lose unsynced lines
    MaxFaults,      \* bound: how many failures and crashes happen
    LastToday       \* bound: the clock stops at this day

ASSUME ArchiveAssumption ==
    /\ EventDay \in [Events -> Days]
    /\ LateDays \in Nat /\ RetentionDays \in Nat /\ LateDays <= RetentionDays
    /\ MaxCopies \in Nat /\ MaxFaults \in Nat /\ LastToday \in Int
    /\ CrashLoses \in BOOLEAN

VARIABLES
    today,      \* the clock's civil day, UTC
    dir,        \* the names in the directory
    content,    \* content[f]: the lines file f holds ({} when there is no f)
    torn,       \* log files that end in a partial line
    unsynced,   \* lines no successful fsync covers
    handles,    \* days whose log is open (Log.files)
    unlinked,   \* those of them whose file the pass has deleted
    seen,       \* ids remembered as written in the last ten minutes (Log.seen)
    copies,     \* how often each event was appended
    batch,      \* the ids of the WriteEvents under way; {} when the mutex is free
    pending,    \* its ids not appended yet
    appended,   \* its lines appended
    acked,      \* ids a WriteEvents returned nil for
    pc,         \* the pass: the step it is in
    todo,       \* the pass: names of its last listing it has not handled
    month,      \* the pass: the month whose merged days it is removing
    passDay,    \* the day the last pass began with as today
    faults      \* bound: the failures and crashes so far

fileVars   == <<dir, content, torn, unsynced>>
logVars    == <<handles, unlinked, seen, copies>>
writerVars == <<batch, pending, appended, acked>>
passVars   == <<pc, todo, month, passDay>>
vars       == <<today, fileVars, logVars, writerVars, passVars, faults>>

Line == [id : Events, copy : 1..MaxCopies]

DayOf(l) == EventDay[l.id]
Ids(lines) == { l.id : l \in lines }

\* Of the lines of one id, the one appended first (dumpLog).
FirstLines(lines) ==
    { l \in lines : \A k \in lines : k.id = l.id => l.copy <= k.copy }

\* Mutant of Merged: what a stopped merge left is overwritten by the rest.
MutMerged(old, days) == UNION { content[f] : f \in days }

\* The lines of month m's file merged from the old month file and the day
\* files in days: an id keeps its line of the earliest input.
Merged(old, days) ==
    old \union
    { l \in UNION { content[f] : f \in days } :
        /\ l.id \notin Ids(old)
        /\ \E f \in days :
             /\ l \in content[f]
             /\ \A g \in days : l.id \in Ids(content[g]) => f.seg <= g.seg }

\* Mutants of Expired and PastLate: the boundary day is off by one.
MutExpired(m)  == m + RetentionDays <= passDay + 1
MutPastLate(m) == m + LateDays <= passDay

Expired(m)  == m + RetentionDays <= passDay
PastLate(m) == m + LateDays < passDay

NoFault == faults' = faults
Fault   == faults < MaxFaults /\ faults' = faults + 1

-----------------------------------------------------------------------------
(* The writer.                                                             *)

\* Mutant of InWindow: a late timestamp is not clamped.
MutInWindow(e) == EventDay[e] <= today + 1

\* An event's timestamp is clamped to the late window when it is received
\* (and may run ahead of the server's clock into the next day).  It is
\* written moments later, so only before the day's first pass can it still
\* carry a day of the window that was.
InWindow(e) ==
    /\ EventDay[e] <= today + 1
    /\ \/ EventDay[e] + LateDays >= today
       \/ passDay < today /\ EventDay[e] + LateDays + 1 >= today

\* WriteEvents takes the mutex, drops the ids it need not remember any more
\* and picks the events to append: those not written lately.
WriteEvents(B) ==
    /\ NoFault
    /\ batch = {} /\ B # {}
    /\ \A e \in B : InWindow(e) /\ copies[e] < MaxCopies
    /\ \E old \in SUBSET seen :
         /\ seen' = seen \ old
         /\ pending' = B \ seen'
    /\ batch' = B
    /\ appended' = {}
    /\ UNCHANGED <<today, fileVars, handles, unlinked, copies, acked, passVars>>

NewLines(d) ==
    { [id |-> e, copy |-> copies[e] + 1] : e \in { x \in pending : EventDay[x] = d } }

\* Mutant of WriteReturns: events of a failed batch are left pending.
MutWriteReturns(err) ==
    /\ batch' = {} /\ pending' = pending /\ appended' = {}
    /\ acked' = IF err THEN acked ELSE acked \union batch

WriteReturns(err) ==
    /\ batch' = {} /\ pending' = {} /\ appended' = {}
    /\ acked' = IF err THEN acked ELSE acked \union batch

\* Mutant of Open: the torn tail of a log is not cut.
MutOpen(d) ==
    /\ handles' = handles \union {d}
    /\ dir' = IF d \in unlinked THEN dir ELSE dir \union {LogFile(d)}
    /\ torn' = torn

\* Opening d's log cuts a torn tail first; a log already open is not torn.
Open(d) ==
    /\ handles' = handles \union {d}
    /\ dir' = IF d \in unlinked THEN dir ELSE dir \union {LogFile(d)}
    /\ torn' = IF d \in handles THEN torn ELSE torn \ {LogFile(d)}

\* The lines S are at the end of d's log, or nowhere when the pass deleted
\* the file behind the open handle.
Written(d, S) ==
    /\ content' = IF d \in unlinked THEN content
                  ELSE [content EXCEPT ![LogFile(d)] = @ \union S]
    /\ unsynced' = unsynced \union S
    /\ copies' = [e \in Events |-> IF e \in Ids(S) THEN copies[e] + 1 ELSE copies[e]]

\* One day's lines are appended in one write.
Append(d) ==
    /\ NoFault
    /\ NewLines(d) # {}
    /\ Open(d)
    /\ Written(d, NewLines(d))
    /\ pending' = pending \ Ids(NewLines(d))
    /\ appended' = appended \union NewLines(d)
    /\ UNCHANGED <<today, unlinked, seen, batch, acked, passVars>>

\* The log does not open, or the write fails and is cut back to the log's
\* previous size.
AppendFails(d) ==
    /\ Fault
    /\ NewLines(d) # {}
    /\ Open(d) \/ UNCHANGED <<handles, dir, torn>>
    /\ WriteReturns(TRUE)
    /\ UNCHANGED <<today, content, unsynced, unlinked, seen, copies, passVars>>

\* The cut-back fails too: the lines S and part of another one stay, and
\* the log is closed and forgotten.
AppendTears(d, S) ==
    /\ Fault
    /\ NewLines(d) # {}
    /\ Written(d, S)
    /\ dir' = IF d \in unlinked THEN dir ELSE dir \union {LogFile(d)}
    /\ torn' = IF d \in unlinked THEN torn ELSE torn \union {LogFile(d)}
    /\ handles' = handles \ {d}
    /\ unlinked' = unlinked \ {d}
    /\ WriteReturns(TRUE)
    /\ UNCHANGED <<today, seen, passVars>>

\* Every touched log is synced: only now are the ids remembered.
SyncLogs ==
    /\ NoFault
    /\ batch # {} /\ pending = {}
    /\ unsynced' = unsynced \ appended
    /\ seen' = seen \union Ids(appended)
    /\ WriteReturns(FALSE)
    /\ UNCHANGED <<today, dir, content, torn, handles, unlinked, copies, passVars>>

\* Mutant of SyncFails: the ids are remembered though the sync failed.
MutSyncFails ==
    /\ Fault
    /\ appended # {} /\ pending = {}
    /\ seen' = seen \union Ids(appended)
    /\ WriteReturns(TRUE)
    /\ UNCHANGED <<today, fileVars, handles, unlinked, copies, passVars>>

\* A failed fsync says nothing of the lines before it, and no later one does.
SyncFails ==
    /\ Fault
    /\ appended # {} /\ pending = {}
    /\ WriteReturns(TRUE)
    /\ UNCHANGED <<today, fileVars, logVars, passVars>>

-----------------------------------------------------------------------------
(* The daily pass over the project: Maintain, from Rotate to the merges.   *)

Renamed(f, g) ==
    /\ dir' = (dir \ {f}) \union {g}
    /\ content' = [content EXCEPT ![g] = content[f], ![f] = {}]

Removed(f) ==
    /\ dir' = dir \ {f}
    /\ content' = [content EXCEPT ![f] = {}]

\* Mutant of PassStarts: only yesterday's log is rotated.
MutPassStarts ==
    /\ NoFault
    /\ pc = "idle"
    /\ \A e \in batch : EventDay[e] + LateDays >= today
    /\ pc' = "rotate"
    /\ passDay' = today
    /\ todo' = { f \in dir : f.kind = "log" /\ f.day = today - 1 }
    /\ UNCHANGED <<today, fileVars, logVars, writerVars, month>>

\* A batch received yesterday is written or given up long before today's
\* first pass, which the schedule puts at 03:00 (or at the process's start).
PassStarts ==
    /\ NoFault
    /\ pc = "idle"
    /\ \A e \in batch : EventDay[e] + LateDays >= today
    /\ pc' = "rotate"
    /\ passDay' = today
    /\ todo' = { f \in dir : f.kind = "log" /\ f.day < today }
    /\ UNCHANGED <<today, fileVars, logVars, writerVars, month>>

SegsOf(kinds, d) == { f.seg : f \in { x \in dir : x.kind \in kinds /\ x.day = d } }

\* Rotate closes the day's handle and renames its log, under the mutex.
Rotate(f) ==
    /\ NoFault
    /\ pc = "rotate" /\ f \in todo /\ batch = {}
    /\ handles' = handles \ {f.day}
    /\ unlinked' = unlinked \ {f.day}
    /\ todo' = todo \ {f}
    /\ \E n \in FirstFree(1, SegsOf({"closed"}, f.day)) :
         LET c == File("closed", f.day, n)
         IN /\ Renamed(f, c)
            /\ torn' = IF f \in torn THEN (torn \ {f}) \union {c} ELSE torn
    /\ UNCHANGED <<today, unsynced, seen, copies, writerVars, pc, month, passDay>>

\* A closed log is cut after its last line; an empty one is removed, any
\* other renamed for the target its dump will write: the first of the day
\* file and its segments that neither exists nor is claimed.
Claim(f) ==
    /\ NoFault
    /\ pc = "claim" /\ f \in todo
    /\ todo' = todo \ {f}
    /\ torn' = torn \ {f}
    /\ \/ content[f] = {} /\ Removed(f)
       \/ /\ content[f] # {}
          /\ \E n \in FirstFree(0, SegsOf({"day", "dumping"}, f.day)) :
               Renamed(f, File("dumping", f.day, n))
    /\ UNCHANGED <<today, unsynced, logVars, writerVars, pc, month, passDay>>

\* The dump writes the target whole (a temporary file, synced and renamed);
\* a torn line would fail it.
WriteDump(f) ==
    /\ NoFault
    /\ pc = "dump" /\ f \in todo /\ f \notin torn
    /\ Target(f) \notin dir
    /\ dir' = dir \union {Target(f)}
    /\ content' = [content EXCEPT ![Target(f)] = FirstLines(content[f])]
    /\ UNCHANGED <<today, torn, unsynced, logVars, writerVars, passVars>>

\* Then it removes the claimed log: also one whose target a stopped pass
\* had written.
RemoveDumped(f) ==
    /\ NoFault
    /\ pc = "dump" /\ f \in todo /\ Target(f) \in dir
    /\ Removed(f)
    /\ todo' = todo \ {f}
    /\ torn' = torn \ {f}
    /\ UNCHANGED <<today, unsynced, logVars, writerVars, pc, month, passDay>>

\* removeMonth deletes every file of an expired month, one after the other;
\* a log it deletes may still be open.
ExpireFile(f) ==
    /\ NoFault
    /\ pc = "months" /\ f \in todo /\ Expired(MonthOf(f))
    /\ Removed(f)
    /\ torn' = torn \ {f}
    /\ todo' = todo \ {f}
    /\ unlinked' = IF f.kind = "log" /\ f.day \in handles
                   THEN unlinked \union {f.day} ELSE unlinked
    /\ UNCHANGED <<today, unsynced, handles, seen, copies, writerVars, pc, month, passDay>>

DayFiles(names, m) == { f \in names : f.kind = "day" /\ MonthOf(f) = m }
InMonth(names, m)  == { f \in names : MonthOf(f) = m }
MonthsOf(names)    == { MonthOf(f) : f \in names }

Mergeable(m) ==
    ~Expired(m) /\ PastLate(m) /\ ~MonthIsOpen(todo, m) /\ DayFiles(todo, m) # {}

\* A final month's day files, with the month file a stopped merge left, are
\* written as the month file (replacing it whole) ...
MergeMonth(m) ==
    /\ NoFault
    /\ pc = "months" /\ m \in MonthsOf(todo) /\ Mergeable(m)
    /\ dir' = dir \union {MonthFile(m)}
    /\ content' = [content EXCEPT ![MonthFile(m)] =
                     Merged(content[MonthFile(m)], DayFiles(todo, m))]
    /\ pc' = "remove" /\ month' = m
    /\ UNCHANGED <<today, torn, unsynced, logVars, writerVars, todo, passDay>>

\* ... and then removed one by one.
RemoveMerged(f) ==
    /\ NoFault
    /\ pc = "remove" /\ f \in DayFiles(todo, month)
    /\ Removed(f)
    /\ todo' = todo \ {f}
    /\ UNCHANGED <<today, torn, unsynced, logVars, writerVars, pc, month, passDay>>

\* A step of the pass fails: the error is collected and the pass goes on.
\* Rotate has closed the handle by then, Claim perhaps cut the torn tail.
RotateFails(f) ==
    /\ Fault
    /\ pc = "rotate" /\ f \in todo /\ batch = {}
    /\ handles' = handles \ {f.day}
    /\ unlinked' = unlinked \ {f.day}
    /\ todo' = todo \ {f}
    /\ UNCHANGED <<today, fileVars, seen, copies, writerVars, pc, month, passDay>>

ClaimFails(f) ==
    /\ Fault
    /\ pc = "claim" /\ f \in todo
    /\ torn' \in {torn, torn \ {f}}
    /\ todo' = todo \ {f}
    /\ UNCHANGED <<today, dir, content, unsynced, logVars, writerVars, pc, month, passDay>>

\* A claimed log with a torn line fails its dump every time.
DumpFails(f) ==
    /\ \/ Fault
       \/ NoFault /\ f \in torn /\ Target(f) \notin dir
    /\ pc = "dump" /\ f \in todo
    /\ todo' = todo \ {f}
    /\ UNCHANGED <<today, fileVars, logVars, writerVars, pc, month, passDay>>

\* A month with nothing to delete or merge, or whose days are all merged, is
\* done; a failed removal or merge leaves the rest of it.
LeaveMonth(m) ==
    /\ \/ pc = "months" /\ m \in MonthsOf(todo) /\ ~Expired(m) /\ ~Mergeable(m) /\ NoFault
       \/ pc = "months" /\ m \in MonthsOf(todo) /\ (Expired(m) \/ Mergeable(m)) /\ Fault
       \/ pc = "remove" /\ m = month /\ DayFiles(todo, m) = {} /\ NoFault
       \/ pc = "remove" /\ m = month /\ DayFiles(todo, m) # {} /\ Fault
    /\ pc' = "months"
    /\ todo' = todo \ InMonth(todo, m)
    /\ UNCHANGED <<today, fileVars, logVars, writerVars, month, passDay>>

\* The next loop of the pass, over a new listing of the directory.
NextLoop(from, to, names) ==
    /\ NoFault
    /\ pc = from /\ todo = {}
    /\ pc' = to /\ todo' = names
    /\ UNCHANGED <<today, fileVars, logVars, writerVars, month, passDay>>

ListClosed  == NextLoop("rotate", "claim", { f \in dir : f.kind = "closed" })
ListDumping == NextLoop("claim", "dump", { f \in dir : f.kind = "dumping" })
ListMonths  == NextLoop("dump", "months", dir)
PassEnds    == NextLoop("months", "idle", {})

\* The pass over the project stops early: the process is shutting down before
\* its next dump, or the directory cannot be listed for the next loop.
PassStops ==
    /\ Fault
    /\ pc = "dump" \/ (pc \in {"rotate", "claim"} /\ todo = {})
    /\ pc' = "idle" /\ todo' = {}
    /\ UNCHANGED <<today, fileVars, logVars, writerVars, month, passDay>>

-----------------------------------------------------------------------------
(* Crashes and the clock.                                                  *)

\* The process dies and starts again: what it had in memory is gone, the
\* machine may have lost lines no fsync covered, and OpenLog cuts the torn
\* tail of every log (a closed or claimed one is not looked at).
Crash(lost, T) ==
    /\ Fault
    /\ lost \subseteq unsynced /\ (CrashLoses \/ lost = {})
    /\ T \subseteq { f \in dir : f.kind \in {"closed", "dumping"}
                                 /\ content[f] \intersect lost # {} }
    /\ content' = [f \in Name |-> IF f.kind \in LogKinds THEN content[f] \ lost
                                                         ELSE content[f]]
    /\ unsynced' = unsynced \ lost
    /\ torn' = { f \in torn \union T : f.kind # "log" }
    /\ handles' = {} /\ unlinked' = {} /\ seen' = {}
    /\ batch' = {} /\ pending' = {} /\ appended' = {}
    /\ pc' = "idle" /\ todo' = {}
    /\ UNCHANGED <<today, dir, copies, acked, month, passDay>>

NewDay ==
    /\ NoFault
    /\ today < LastToday
    /\ today' = today + 1
    /\ UNCHANGED <<fileVars, logVars, writerVars, passVars>>

-----------------------------------------------------------------------------

Init ==
    /\ today \in Int /\ passDay = today - 1 /\ faults = 0
    /\ dir = {} /\ content = [f \in Name |-> {}]
    /\ torn = {} /\ unsynced = {}
    /\ handles = {} /\ unlinked = {} /\ seen = {}
    /\ copies = [e \in Events |-> 0]
    /\ batch = {} /\ pending = {} /\ appended = {} /\ acked = {}
    /\ pc = "idle" /\ todo = {} /\ month \in Days

Write ==
    \/ \E B \in SUBSET Events : WriteEvents(B)
    \/ \E d \in Days : Append(d) \/ AppendFails(d)
    \/ \E d \in Days : \E S \in SUBSET NewLines(d) : AppendTears(d, S)
    \/ SyncLogs
    \/ SyncFails

Pass ==
    \/ PassStarts \/ ListClosed \/ ListDumping \/ ListMonths \/ PassEnds \/ PassStops
    \/ \E f \in todo : \/ Rotate(f) \/ Claim(f) \/ WriteDump(f) \/ RemoveDumped(f)
                        \/ ExpireFile(f) \/ RemoveMerged(f)
                        \/ RotateFails(f) \/ ClaimFails(f) \/ DumpFails(f)
    \/ \E m \in Days : MergeMonth(m) \/ LeaveMonth(m)

Crashes == \E lost \in SUBSET unsynced : \E T \in SUBSET dir : Crash(lost, T)

Next == Write \/ Pass \/ Crashes \/ NewDay

Spec == Init /\ [][Next]_vars

\* What the two threads do when nothing fails: the writer's loop and the
\* daily pass (at every start of the process, then once a day) go on.
WriteGoesOn == (\E d \in Days : Append(d)) \/ SyncLogs

PassGoesOn ==
    \/ PassStarts \/ ListClosed \/ ListDumping \/ ListMonths \/ PassEnds
    \/ \E f \in todo : \/ Rotate(f) \/ Claim(f) \/ WriteDump(f) \/ RemoveDumped(f)
                        \/ ExpireFile(f) \/ RemoveMerged(f)
                        \/ (DumpFails(f) /\ NoFault)
    \/ \E m \in Days : MergeMonth(m) \/ (LeaveMonth(m) /\ NoFault)

Fairness == WF_vars(WriteGoesOn) /\ WF_vars(PassGoesOn) /\ WF_vars(NewDay)

-----------------------------------------------------------------------------

TypeOK ==
    /\ today \in Int /\ passDay \in Int /\ faults \in 0..MaxFaults
    /\ dir \subseteq Name /\ content \in [Name -> SUBSET Line]
    /\ torn \subseteq dir /\ unsynced \subseteq Line
    /\ handles \subseteq Days /\ unlinked \subseteq handles /\ seen \subseteq Events
    /\ copies \in [Events -> 0..MaxCopies]
    /\ batch \subseteq Events /\ pending \subseteq batch /\ acked \subseteq Events
    /\ appended \subseteq Line
    /\ pc \in {"idle", "rotate", "claim", "dump", "months", "remove"}
    /\ todo \subseteq Name /\ month \in Days

Readable == UNION { content[f] : f \in Listed(dir) }

\* The event is still within its retention: its month's last day is less
\* than RetentionDays old.
Kept(e) == MonthEnd[EventDay[e]] + RetentionDays > today

\* Every event whose write was acknowledged is in a file a reader lists,
\* whatever step the pass is in and whatever crashed, until its month is
\* RETENTION_DAYS old.
AckedReadable == \A e \in acked : Kept(e) => e \in Ids(Readable)

\* An id the log remembers (and so skips on a resend) was acknowledged:
\* a batch that failed is written again.
SeenIsAcked == seen \subseteq acked

\* No line is in two of the files a reader lists: a dump or a merge that
\* stopped halfway is never counted beside what it was made of.
CountedOnce ==
    \A f, g \in Listed(dir) : f # g => content[f] \intersect content[g] = {}

\* A log that ends in a partial line has no open handle, so no line is ever
\* appended after one.
TornIsClosed == \A f \in torn : f.kind = "log" => f.day \notin handles

\* A merged month has no log: projectOf may leave its day files out.
MergedIsFinal == \A f \in dir : f.kind = "month" => ~MonthIsOpen(dir, f.day)

\* A day file hidden by its month's file holds no event that file lacks.
MonthHoldsDays ==
    \A f \in dir : f.kind = "day" /\ MonthFile(MonthOf(f)) \in dir =>
        Ids(content[f]) \subseteq Ids(content[MonthFile(MonthOf(f))])

\* An event never opens a log in a month the retention has deleted.
NoLogInExpiredMonth ==
    [][ \A f \in dir' \ dir : f.kind = "log" => ~Expired(MonthOf(f)) ]_vars

\* The files implement the event store: what a reader finds of the
\* acknowledged events only grows, but for the months retention deletes.
Store == INSTANCE EventStore WITH
    LastDay <- [e \in Events |-> MonthEnd[EventDay[e]]],
    stored  <- acked \intersect Ids(Readable)

ImplementsEventStore == Store!Spec

\* The passes catch up with whatever failed or crashed: in the end no log of
\* a past day is left, final months are one file, and expired ones are gone.
CaughtUp ==
    \A f \in dir :
        /\ f.kind \in LogKinds => f.day >= today
        /\ f.kind = "day" => MonthOf(f) + LateDays >= today
        /\ MonthOf(f) + RetentionDays > today

PassCatchesUp == <>[]CaughtUp

=============================================================================
