------------------------------- MODULE MonitorReads ----------------------------
(***************************************************************************)
(* The daily readings of the monitor (internal/monitor): one reading, the  *)
(* expiry of a main domain that several monitors of a project share, or    *)
(* the certificate of one.  The tick queues a reading that is due, a       *)
(* manual check takes one in any case; a lock orders them, a pool delays   *)
(* them, and the store keeps the last one written.                         *)
(*                                                                         *)
(* Readings are numbered in the order they are taken.  The pool is shared  *)
(* with other readings: it may delay this one for any time.  A lookup      *)
(* itself ends within a unit of the clock, and so does a look at the rows. *)
(***************************************************************************)
EXTENDS Integers

CONSTANTS
    Watchers,       \* monitors on the domain
    DailyEvery, DailyRetry,
    LastRetryHour,  \* bound: the clock stops here
    MaxReadings,    \* bound: readings taken
    MaxEdits,       \* bound: changes of the monitors' rows
    MaxRestarts     \* bound: restarts

ASSUME MonitorReadsAssumption ==
    /\ DailyEvery \in Nat \ {0} /\ DailyRetry \in Nat /\ DailyRetry > 1
    /\ LastRetryHour \in Nat /\ MaxReadings \in Nat
    /\ MaxEdits \in Nat /\ MaxRestarts \in Nat

VARIABLES
    hours,      \* the clock
    watching,   \* watching[m]: m's row: "none", "off", "on"
    reading,    \* the stored reading: its number and checked_at, or Unread
    listedOn,   \* the enabled monitors the tick has listed
    looking,    \* the tick: "idle", "due" or "seen" (of startReads)
    lookAt,     \* the time it took before it looked
    seenAt,     \* checked_at as it saw it
    goroutine,  \* goroutine[g]: the step of a goroutine that reads
    taken,      \* taken[g]: the number and the time of its reading
    lockedBy,   \* who holds readLocks[k]
    tried,      \* tried[k], Never without
    readings,   \* bound: readings taken so far
    lastTry,    \* history: when the last reading it may remember of was begun
    edits, restarts \* bound

rowsVars      == <<watching, reading>>
lookVars      == <<listedOn, looking, lookAt, seenAt>>
goroutineVars == <<goroutine, taken, lockedBy>>
boundVars     == <<readings, edits, restarts>>
readsVars     == <<hours, rowsVars, lookVars, goroutineVars, tried, lastTry, boundVars>>

Never       == -DailyRetry - DailyEvery
Unread      == [no |-> 0, at |-> Never]
DailyRead   == "daily read"
Goroutines  == Watchers \cup {DailyRead}
NoGoroutine == "no goroutine"

\* No monitor is called so.
ASSUME ReadersApart == DailyRead \notin Watchers /\ NoGoroutine \notin Watchers

RunsFrom(g, from, to) == goroutine[g] = from /\ goroutine' = [goroutine EXCEPT ![g] = to]

-----------------------------------------------------------------------------
(* The rows.                                                               *)

\* An origin is added or comes back, switched off; SetMonitor; and an origin
\* removed, with the reading if no monitor is left that uses it.
SetsWatch(m, s) ==
    /\ edits < MaxEdits /\ edits' = edits + 1
    /\ watching[m] # s
    /\ watching' = [watching EXCEPT ![m] = s]
    /\ reading' = IF \A w \in Watchers : watching'[w] = "none" THEN Unread ELSE reading
    /\ UNCHANGED <<hours, lookVars, goroutineVars, tried, lastTry, readings, restarts>>

-----------------------------------------------------------------------------
(* The tick.                                                               *)

\* ListEnabledMonitors, then forgetDisabled.
TickListsWatched ==
    /\ looking = "idle"
    /\ listedOn' = { m \in Watchers : watching[m] = "on" }
    /\ IF listedOn' = {} THEN tried' = Never /\ lastTry' = Never ELSE UNCHANGED <<tried, lastTry>>
    /\ UNCHANGED <<hours, rowsVars, looking, lookAt, seenAt, goroutineVars, boundVars>>

\* startReads of a listed monitor whose slot has come: the time, the row, ...
SlotComes ==
    /\ looking = "idle" /\ listedOn # {} /\ looking' = "due"
    /\ lookAt' = hours
    /\ UNCHANGED <<hours, rowsVars, listedOn, seenAt, goroutineVars, tried, lastTry, boundVars>>

SeesReading ==
    /\ looking = "due" /\ looking' = "seen"
    /\ seenAt' = reading.at
    /\ UNCHANGED <<hours, rowsVars, listedOn, lookAt, goroutineVars, tried, lastTry, boundVars>>

StaleReading == lookAt - seenAt >= DailyEvery

\* ... and a reading queued if it is stale, none is, and none was tried lately.
MayRead == goroutine[DailyRead] = "none" /\ lookAt - tried >= DailyRetry

StartsRead ==
    /\ looking = "seen" /\ looking' = "idle"
    /\ IF StaleReading /\ MayRead
       THEN RunsFrom(DailyRead, "none", "lock") /\ tried' = lookAt
       ELSE UNCHANGED <<goroutine, tried>>
    /\ lookAt' = 0 /\ seenAt' = Never
    /\ UNCHANGED <<hours, rowsVars, listedOn, taken, lockedBy, lastTry, boundVars>>

-----------------------------------------------------------------------------
(* The goroutines.                                                         *)

\* runCheck of a listed monitor comes to this reading.
ManualReads(m) ==
    /\ m \in listedOn /\ RunsFrom(m, "none", "lock")
    /\ UNCHANGED <<hours, rowsVars, lookVars, taken, lockedBy, tried, lastTry, boundVars>>

\* Mutant of LocksReading: a manual check does not wait for its turn.
MutLocksReading(g) ==
    /\ RunsFrom(g, "lock", "pool")
    /\ IF g \in Watchers THEN UNCHANGED lockedBy
       ELSE lockedBy = NoGoroutine /\ lockedBy' = g
    /\ UNCHANGED <<hours, rowsVars, lookVars, taken, tried, lastTry, boundVars>>

LocksReading(g) ==
    /\ RunsFrom(g, "lock", "pool")
    /\ lockedBy = NoGoroutine /\ lockedBy' = g
    /\ UNCHANGED <<hours, rowsVars, lookVars, taken, tried, lastTry, boundVars>>

\* A worker of readSem is free: the clock is read, and the lookup begins.  A
\* manual check's counts as the day's attempt.
TakesReading(g) ==
    /\ readings < MaxReadings /\ readings' = readings + 1
    /\ RunsFrom(g, "pool", "reads")
    /\ taken' = [taken EXCEPT ![g] = [no |-> readings', at |-> hours]]
    /\ tried' = IF g = DailyRead THEN tried ELSE hours
    /\ lastTry' = IF g = DailyRead /\ tried = Never THEN Never ELSE hours
    /\ UNCHANGED <<hours, rowsVars, lookVars, lockedBy, edits, restarts>>

\* The lock is let go; a scheduled reading has yet to say when it ended.
Unlocks(g) ==
    /\ RunsFrom(g, "reads", IF g = DailyRead THEN "ends" ELSE "none")
    /\ lockedBy' = IF lockedBy = g THEN NoGoroutine ELSE lockedBy
    /\ taken' = [taken EXCEPT ![g] = Unread]
    /\ UNCHANGED <<hours, watching, lookVars, tried, lastTry, boundVars>>

\* SetMonitorDomain leaves out a reading no monitor uses any more.
StoresReading(g) ==
    /\ Unlocks(g)
    /\ reading' = IF \A m \in Watchers : watching[m] = "none" THEN reading ELSE taken[g]

\* The lookup, or the write, failed.
ReadsNothing(g) ==
    /\ Unlocks(g)
    /\ UNCHANGED reading

DailyReadEnds ==
    /\ RunsFrom(DailyRead, "ends", "none")
    /\ tried' = IF tried = Never THEN Never ELSE hours
    /\ UNCHANGED <<hours, rowsVars, lookVars, taken, lockedBy, lastTry, boundVars>>

-----------------------------------------------------------------------------

\* The process stops, waiting for those that read, or dies, and starts again.
MonitorRestarts ==
    /\ restarts < MaxRestarts /\ restarts' = restarts + 1
    /\ listedOn' = {} /\ looking' = "idle" /\ lookAt' = 0 /\ seenAt' = Never
    /\ goroutine' = [g \in Goroutines |-> "none"] /\ lockedBy' = NoGoroutine
    /\ taken' = [g \in Goroutines |-> Unread]
    /\ tried' = Never /\ lastTry' = Never
    /\ UNCHANGED <<hours, rowsVars, readings, edits>>

RetryClockMoves ==
    /\ hours < LastRetryHour /\ hours' = hours + 1
    /\ looking # "idle" => lookAt = hours
    /\ \A g \in Goroutines : goroutine[g] # "ends" /\ (goroutine[g] = "reads" => taken[g].at = hours)
    /\ UNCHANGED <<rowsVars, lookVars, goroutineVars, tried, lastTry, boundVars>>

ReadsInit ==
    /\ hours = 0 /\ watching = [m \in Watchers |-> "none"] /\ reading = Unread
    /\ listedOn = {} /\ looking = "idle" /\ lookAt = 0 /\ seenAt = Never
    /\ goroutine = [g \in Goroutines |-> "none"] /\ taken = [g \in Goroutines |-> Unread]
    /\ lockedBy = NoGoroutine /\ tried = Never /\ lastTry = Never
    /\ readings = 0 /\ edits = 0 /\ restarts = 0

ReadsNext ==
    \/ \E m \in Watchers : ManualReads(m) \/ \E s \in {"none", "off", "on"} : SetsWatch(m, s)
    \/ TickListsWatched \/ SlotComes \/ SeesReading \/ StartsRead
    \/ \E g \in Goroutines : LocksReading(g) \/ TakesReading(g) \/ StoresReading(g) \/ ReadsNothing(g)
    \/ DailyReadEnds \/ MonitorRestarts \/ RetryClockMoves

ReadsSpec == ReadsInit /\ [][ReadsNext]_readsVars

-----------------------------------------------------------------------------

ReadsTypeOK ==
    /\ hours \in 0..LastRetryHour /\ watching \in [Watchers -> {"none", "off", "on"}]
    /\ reading \in [no : 0..MaxReadings, at : Never..LastRetryHour]
    /\ listedOn \subseteq Watchers /\ looking \in {"idle", "due", "seen"}
    /\ goroutine \in [Goroutines -> {"none", "lock", "pool", "reads", "ends"}]
    /\ lockedBy \in Goroutines \cup {NoGoroutine}
    /\ readings \in 0..MaxReadings /\ edits \in 0..MaxEdits /\ restarts \in 0..MaxRestarts

\* A stored reading gives way only to one taken after it, of scheduled and
\* manual ones that overlap and wait for each other; it does not come back for
\* a domain no monitor uses; and a scheduled reading is queued, whatever list it
\* was found due in, no sooner than dailyRetry after the last was begun, one
\* that failed or a manual one, unless the monitors were off in between.
NewestReadingStays ==
    [][ /\ reading'.no # 0 => reading'.no >= reading.no /\ reading'.at >= reading.at
        /\ reading'.no # 0 => \E m \in Watchers : watching'[m] # "none"
        /\ goroutine[DailyRead] = "none" /\ goroutine'[DailyRead] = "lock"
              => lookAt - lastTry >= DailyRetry ]_readsVars

=============================================================================
