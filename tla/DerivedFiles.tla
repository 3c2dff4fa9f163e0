------------------------------ MODULE DerivedFiles -----------------------------
(***************************************************************************)
(* The tables the daily pass derives from a project's events files         *)
(* (internal/archive: derive of maintain.go, derived and current of        *)
(* files.go): a file of sessions for each day, or for each merged month,   *)
(* and the files of identities and aliases, folded from all events files.  *)
(* No manifest says what a derived file was made from: it is read while no *)
(* events file is newer, and the rest is derived on read.                  *)
(*                                                                         *)
(* Events come and go by lots, a lot being the lines of one log.  A file   *)
(* dates from the pass that wrote it.  How logs are rotated and claimed,   *)
(* and what a crash does to files half written, is Archive's.              *)
(***************************************************************************)
EXTENDS Integers, FiniteSets

CONSTANTS
    Lots,
    DayOfLot,       \* [Lots -> Nat \X Nat]: <<month, day>>
    RetainedFor,    \* months after its own that a month is kept
    LastDate,       \* bound: the months in which the model runs
    LastPass,       \* bound: passes over the files
    MaxPassFaults   \* bound: steps that fail, and crashes

ASSUME DerivedAssumption ==
    /\ DayOfLot \in [Lots -> (Nat \ {0}) \X (Nat \ {0})]
    /\ RetainedFor \in Nat /\ LastDate \in Nat /\ LastPass \in Nat /\ MaxPassFaults \in Nat

VARIABLES
    date,       \* the month it is
    logged,     \* the lots in logs
    lotsBorn,       \* the lots there have been
    eventFiles, \* [of: a day or a month, segment] to [holds: lots, at: its pass]
    sessions,   \* the session files, of days and of months, to the same
    folded,     \* the files of identities and of aliases to the same, or NoFile
    work,       \* the pass: "none", "dumps", "months", "sessions" or "folds"
    passes,     \* passes begun: the modification time of what one writes
    monthsLeft, \* the months the pass has yet to look at
    due,        \* session files it has yet to write
    dueFolds,   \* of the two folded files, those it has yet to write
    gone,       \* lots of the months this pass has deleted
    lapsed,     \* ghost: the same of passes that did not come to the folded files, or
                \* left one as it was
    complete,   \* ghost: whether the last pass came to its end, and left none so
    passFaults  \* bound: the faults so far

tableVars   == <<sessions, folded>>
workVars    == <<work, passes, monthsLeft, due, dueFolds, gone>>
derivedVars == <<date, logged, lotsBorn, eventFiles, tableVars, workVars, lapsed, complete, passFaults>>

Folded == {"identities", "aliases"}
NoFile == [holds |-> {}, at |-> -1]

Months   == { DayOfLot[l][1] : l \in Lots }
Day(l)   == DayOfLot[l]
Month(m) == <<m>>

IsOf(k, m) == k[1] = m
LotsOf(m)  == { l \in Lots : IsOf(Day(l), m) }

Final(m)    == date > m
Outlived(m) == date > m + RetainedFor

-----------------------------------------------------------------------------
(* projectOf: what a listing shows.                                        *)

FilesNamed(k) == { f \in DOMAIN eventFiles : f.of = k }
IsMerged(m)   == FilesNamed(Month(m)) # {}

\* A merged month's day files are hidden.
Shown   == { f \in DOMAIN eventFiles : f.of = Month(f.of[1]) \/ ~IsMerged(f.of[1]) }
ShownOf(k)   == { f \in Shown : f.of = k }
KeysOf(fs) == { f.of : f \in fs }
Held(fs)   == UNION { eventFiles[f].holds : f \in fs }

LogDays == { Day(l) : l \in logged }
\* A log of the day, or in the merged month, keeps it from being derived.
HasLog(k) == \E d \in LogDays : d = k \/ (k = Month(d[1]))

Current(file, fs) == file.at >= 0 /\ \A f \in fs : eventFiles[f].at <= file.at

SessionIsCurrent(k) == k \in DOMAIN sessions /\ Current(sessions[k], ShownOf(k))

Listed    == { k \in KeysOf(Shown) : SessionIsCurrent(k) /\ ~HasLog(k) }
ToDerive  == { k \in KeysOf(Shown) : ~SessionIsCurrent(k) /\ ~HasLog(k) }
Gaps      == (KeysOf(Shown) \ Listed) \cup { d \in LogDays : ~IsMerged(d[1]) }
Orphaned  == DOMAIN sessions \ KeysOf(Shown)
OrphanedFolds == { x \in Folded : Shown = {} /\ folded[x] # NoFile }

\* Mutant of FoldsDue: a deleted month does not force them.
MutFoldsDue == Shown # {} /\ \E x \in Folded : ~Current(folded[x], Shown)

\* The two folded files are written together, and after a month was deleted,
\* which no modification time shows.
FoldsDue == Shown # {} /\ (gone # {} \/ \E x \in Folded : ~Current(folded[x], Shown))

-----------------------------------------------------------------------------

PassFault == passFaults < MaxPassFaults /\ passFaults' = passFaults + 1
NoPassFault == UNCHANGED passFaults

MonthTurns ==
    /\ date < LastDate /\ date' = date + 1
    /\ UNCHANGED <<logged, lotsBorn, eventFiles, tableVars, workVars, lapsed, complete, passFaults>>

\* Lines of a day, of a month that is merged already it may be (a form's
\* event keeps the time it was received).
LotArrives(l) ==
    /\ l \notin lotsBorn /\ Day(l)[1] <= date /\ ~Outlived(Day(l)[1])
    /\ lotsBorn' = lotsBorn \cup {l} /\ logged' = logged \cup {l}
    /\ UNCHANGED <<date, eventFiles, tableVars, workVars, lapsed, complete, passFaults>>

UnchangedByPass == UNCHANGED <<date, lotsBorn>>

PassBegins ==
    /\ work = "none" /\ passes < LastPass
    /\ work' = "dumps" /\ passes' = passes + 1 /\ complete' = FALSE
    /\ UnchangedByPass
    /\ UNCHANGED <<logged, eventFiles, tableVars, monthsLeft, due, dueFolds, gone, lapsed, passFaults>>

\* claim and dump: a log becomes its day's file, or the day's first free segment.
DumpsLot(l) ==
    /\ work = "dumps" /\ l \in logged
    /\ logged' = logged \ {l}
    /\ \E n \in 0..Cardinality(FilesNamed(Day(l))) :
         LET segment(k) == [of |-> Day(l), segment |-> k] IN
         /\ segment(n) \notin DOMAIN eventFiles
         /\ \A k \in 0..(n - 1) : segment(k) \in DOMAIN eventFiles
         /\ eventFiles' = [g \in DOMAIN eventFiles \cup {segment(n)} |->
                             IF g = segment(n) THEN [holds |-> {l}, at |-> passes] ELSE eventFiles[g]]
    /\ UnchangedByPass /\ NoPassFault
    /\ UNCHANGED <<tableVars, workVars, lapsed, complete>>

\* Today's logs are left, and those whose dump failed.
DumpsDone ==
    /\ work = "dumps" /\ work' = "months"
    /\ monthsLeft' = { m \in Months : (\E f \in DOMAIN eventFiles : IsOf(f.of, m)) \/ logged \cap LotsOf(m) # {} }
    /\ UnchangedByPass /\ NoPassFault
    /\ UNCHANGED <<logged, eventFiles, tableVars, passes, due, dueFolds, gone, lapsed, complete>>

Keep(fs) == eventFiles' = [f \in fs |-> eventFiles[f]]
FilesOf(m)    == { f \in DOMAIN eventFiles : IsOf(f.of, m) }
DayFilesOf(m) == FilesOf(m) \ FilesNamed(Month(m))

NextMonth(m) == work = "months" /\ m \in monthsLeft /\ monthsLeft' = monthsLeft \ {m}

\* removeMonth: every file of the month, the month file last, and its logs;
\* or those before the one that cannot be removed.
DeletesMonth(m) ==
    /\ NextMonth(m) /\ Outlived(m)
    /\ gone' = gone \cup LotsOf(m)
    /\ \/ Keep(DOMAIN eventFiles \ FilesOf(m)) /\ logged' = logged \ LotsOf(m) /\ NoPassFault
       \/ /\ PassFault
          /\ \E S \in SUBSET DayFilesOf(m) : Keep(DOMAIN eventFiles \ S)
          /\ \E L \in SUBSET (logged \cap LotsOf(m)) : logged' = logged \ L
    /\ UnchangedByPass
    /\ UNCHANGED <<tableVars, work, passes, due, dueFolds, lapsed, complete>>

\* merge: the month file takes in its day files, which are then removed, but
\* for those after the one that cannot be.
MergesMonth(m) ==
    /\ NextMonth(m) /\ Final(m) /\ ~Outlived(m)
    /\ DayFilesOf(m) # {} /\ logged \cap LotsOf(m) = {}
    /\ LET f == [of |-> Month(m), segment |-> 0] IN
       \E rest \in SUBSET DayFilesOf(m) :
          /\ IF rest = {} THEN NoPassFault ELSE PassFault
          /\ eventFiles' = [g \in (DOMAIN eventFiles \ DayFilesOf(m)) \cup rest \cup {f} |->
                              IF g = f THEN [holds |-> Held(FilesOf(m)), at |-> passes] ELSE eventFiles[g]]
    /\ UnchangedByPass
    /\ UNCHANGED <<logged, tableVars, work, passes, due, dueFolds, gone, lapsed, complete>>

LeavesMonth(m) ==
    /\ NextMonth(m) /\ ~Outlived(m)
    /\ IF Final(m) /\ DayFilesOf(m) # {} /\ logged \cap LotsOf(m) = {} THEN PassFault ELSE NoPassFault
    /\ UnchangedByPass
    /\ UNCHANGED <<logged, eventFiles, tableVars, work, passes, due, dueFolds, gone, lapsed, complete>>

-----------------------------------------------------------------------------
(* derive.                                                                 *)

\* One listing says what is missing or stale.
ListsDerived ==
    /\ work = "months" /\ monthsLeft = {} /\ work' = "sessions"
    /\ due' = ToDerive
    /\ dueFolds' = IF FoldsDue THEN Folded ELSE {}
    /\ UnchangedByPass /\ NoPassFault
    /\ UNCHANGED <<logged, eventFiles, tableVars, passes, monthsLeft, gone, lapsed, complete>>

Ends ==
    /\ work' = "none" /\ monthsLeft' = {} /\ due' = {} /\ dueFolds' = {} /\ gone' = {}

\* Listing the files fails, or making the directory: derive returns.
DeriveGivesUp ==
    /\ work = "months" /\ monthsLeft = {} /\ PassFault
    /\ Ends /\ lapsed' = lapsed \cup gone
    /\ UnchangedByPass /\ UNCHANGED <<logged, eventFiles, tableVars, passes, complete>>

WritesSession(k) ==
    /\ work = "sessions" /\ k \in due /\ due' = due \ {k}
    /\ \/ /\ NoPassFault
          /\ sessions' = [j \in DOMAIN sessions \cup {k} |->
                            IF j = k THEN [holds |-> Held(ShownOf(k)), at |-> passes] ELSE sessions[j]]
       \/ PassFault /\ UNCHANGED sessions
    /\ UnchangedByPass
    /\ UNCHANGED <<logged, eventFiles, folded, work, passes, monthsLeft, dueFolds, gone, lapsed, complete>>

\* What no events file backs any more, but for what cannot be removed.
RemovesOrphans ==
    /\ work = "sessions" /\ due = {} /\ work' = "folds"
    /\ \E S \in SUBSET Orphaned, X \in SUBSET OrphanedFolds :
         /\ IF S = {} /\ X = {} THEN NoPassFault ELSE PassFault
         /\ sessions' = [k \in (DOMAIN sessions \ Orphaned) \cup S |-> sessions[k]]
         /\ folded' = [x \in Folded |-> IF x \in OrphanedFolds \ X THEN NoFile ELSE folded[x]]
         /\ lapsed' = IF X = {} THEN lapsed ELSE lapsed \cup gone
    /\ UnchangedByPass
    /\ UNCHANGED <<logged, eventFiles, passes, monthsLeft, due, dueFolds, gone, complete>>

\* A folded file is this pass's, or there is none.
Renewed(file) == file.at \in {-1, passes}

\* A file that cannot be written is removed, since the old one would read as
\* current; that can fail too.
WritesFold(x) ==
    /\ work = "folds" /\ x \in dueFolds /\ dueFolds' = dueFolds \ {x}
    /\ \/ NoPassFault /\ folded' = [folded EXCEPT ![x] = [holds |-> Held(Shown), at |-> passes]]
       \/ PassFault /\ folded' = [folded EXCEPT ![x] = NoFile]
       \/ PassFault /\ UNCHANGED folded
    /\ lapsed' = CASE dueFolds' # {} -> lapsed
                   [] dueFolds' = {} /\ (\A y \in Folded : Renewed(folded'[y])) -> {}
                   [] OTHER -> lapsed \cup gone
    /\ UnchangedByPass
    /\ UNCHANGED <<logged, eventFiles, sessions, work, passes, monthsLeft, due, gone, complete>>

PassEnds ==
    /\ work = "folds" /\ dueFolds = {}
    /\ Ends /\ complete' = (gone = {} \/ \A x \in Folded : Renewed(folded[x]))
    /\ UnchangedByPass /\ NoPassFault
    /\ UNCHANGED <<logged, eventFiles, tableVars, passes, lapsed>>

\* The process dies, or the pass is stopped before the months.
PassCrashes ==
    /\ work # "none" /\ PassFault
    /\ Ends /\ lapsed' = lapsed \cup gone
    /\ UnchangedByPass /\ UNCHANGED <<logged, eventFiles, tableVars, passes, complete>>

DerivedInit ==
    /\ date = 1 /\ logged = {} /\ lotsBorn = {}
    /\ eventFiles = <<>> /\ sessions = <<>>
    /\ folded = [x \in Folded |-> NoFile]
    /\ work = "none" /\ passes = 0 /\ monthsLeft = {} /\ due = {} /\ dueFolds = {} /\ gone = {}
    /\ lapsed = {} /\ complete = TRUE /\ passFaults = 0

DerivedNext ==
    \/ MonthTurns \/ (\E l \in Lots : LotArrives(l) \/ DumpsLot(l))
    \/ PassBegins \/ DumpsDone
    \/ \E m \in Months : DeletesMonth(m) \/ MergesMonth(m) \/ LeavesMonth(m)
    \/ ListsDerived \/ DeriveGivesUp
    \/ \E k \in due : WritesSession(k)
    \/ RemovesOrphans \/ (\E x \in Folded : WritesFold(x)) \/ PassEnds \/ PassCrashes

DerivedSpec == DerivedInit /\ [][DerivedNext]_derivedVars

-----------------------------------------------------------------------------

DerivedTypeOK ==
    /\ date \in 1..LastDate /\ logged \subseteq lotsBorn /\ lotsBorn \subseteq Lots
    /\ \A f \in DOMAIN eventFiles : eventFiles[f].holds \subseteq lotsBorn /\ eventFiles[f].at \in 1..LastPass
    /\ \A k \in DOMAIN sessions : sessions[k].holds \subseteq lotsBorn /\ sessions[k].at \in 1..LastPass
    /\ \A x \in Folded : folded[x].holds \subseteq lotsBorn /\ folded[x].at \in -1..LastPass
    /\ work \in {"none", "dumps", "months", "sessions", "folds"} /\ passes \in 0..LastPass
    /\ monthsLeft \subseteq Months /\ dueFolds \subseteq Folded
    /\ gone \cup lapsed \subseteq Lots /\ complete \in BOOLEAN
    /\ passFaults \in 0..MaxPassFaults

SessionsWith(l) == { k \in Listed : l \in sessions[k].holds }
InGap(l)        == Day(l) \in Gaps \/ Month(Day(l)[1]) \in Gaps

\* Whenever a reader lists the files, between any two steps of a pass, of one
\* that failed or died, and beside late logs, a derived file it takes for
\* current stands for the events files it lists and for nothing else: a lot's
\* sessions are in one session file or in a gap derived on read, never in both
\* or in none, and the folded files lack nothing and keep nothing but what a
\* pass has deleted and not come to fold again, or could neither write nor remove.
DerivedAgree ==
    /\ \A l \in Held(Shown) \cup logged :
         Cardinality(SessionsWith(l)) + (IF InGap(l) THEN 1 ELSE 0) = 1
    /\ \A k \in Listed : Outlived(k[1]) \/ sessions[k].holds = Held(ShownOf(k))
    /\ Shown # {} => \A x \in Folded : Current(folded[x], Shown) =>
         /\ Held(Shown) \subseteq folded[x].holds
         /\ folded[x].holds \subseteq Held(Shown) \cup gone \cup lapsed

\* Once a pass has come to its end, and left no folded file that it could neither
\* write nor remove, none that reads as current names whom a deleted month named
\* and no kept one does.
ExpiredAreForgotten ==
    work = "none" /\ complete /\ Shown # {} =>
        \A x \in Folded : Current(folded[x], Shown) => folded[x].holds \subseteq Held(Shown)

=============================================================================
