----------------------------- MODULE Archive_proofs ----------------------------
(***************************************************************************)
(* Theorems about Archive: its types, and that an acknowledged event is    *)
(* kept, in a file a reader lists, until its month expires.                *)
(***************************************************************************)
EXTENDS Archive, WellFoundedInduction, TLAPS

-----------------------------------------------------------------------------
(* Type correctness.                                                       *)

\* TypeOK needs that only logs end in a partial line, so that removing a
\* Parquet file leaves torn within dir, and that a pending event has a copy
\* left within the bound.
TypeInv ==
    /\ TypeOK
    /\ \A f \in torn : f.kind \in LogKinds
    /\ \A e \in pending : copies[e] < MaxCopies

\* Every name the code makes of a day and a number is a name, and tells its parts.
LEMMA NameFacts ==
    /\ \A d \in Days : /\ LogFile(d) \in Name /\ MonthFile(d) \in Name
                       /\ MonthEnd[d] \in Days
                       /\ LogFile(d).kind = "log" /\ LogFile(d).day = d
                       /\ MonthFile(d).kind = "month" /\ MonthFile(d).day = d
    /\ \A k \in Kinds : \A d \in Days : \A n \in Segs :
         /\ File(k, d, n) \in Name
         /\ File(k, d, n).kind = k /\ File(k, d, n).day = d /\ File(k, d, n).seg = n
    /\ \A f \in Name : /\ f.kind \in Kinds /\ f.day \in Days /\ f.seg \in Segs
                       /\ MonthOf(f) \in Days
                       /\ Target(f) \in Name
                       /\ Target(f).kind = "day" /\ Target(f).day = f.day
                       /\ Target(f).seg = f.seg
    /\ \A lo : \A taken : FirstFree(lo, taken) \subseteq Segs
    BY CalendarAssumption, SegsAssumption
       DEF Name, Kinds, LogFile, MonthFile, File, MonthOf, Target, FirstFree

\* What WriteEvents appends to the log of a day are lines of pending events of that day.
LEMMA NewLinesTyped ==
    ASSUME TypeInv, NEW d \in Days
    PROVE  /\ NewLines(d) \subseteq Line
           /\ Ids(NewLines(d)) \subseteq pending
           /\ \A l \in NewLines(d) : l.id \in pending /\ EventDay[l.id] = d
    BY ArchiveAssumption DEF TypeInv, TypeOK, NewLines, Line, Ids

\* An empty directory is of type.
LEMMA InitType == Init => TypeInv
    BY CalendarAssumption, ArchiveAssumption
       DEF Init, TypeInv, TypeOK, Line

\* Every step of the writer, the pass, a crash or the clock keeps the types.
LEMMA NextType == ASSUME TypeInv, [Next]_vars PROVE TypeInv'
<1>WrittenTyped. ASSUME TypeInv, NEW d \in Days, NEW S \in SUBSET NewLines(d), Written(d, S)
                 PROVE  /\ content' \in [Name -> SUBSET Line]
                        /\ unsynced' \subseteq Line
                        /\ copies' \in [Events -> 0..MaxCopies]
                        /\ \A e \in Events : e \notin Ids(S) => copies'[e] = copies[e]
    <2>. USE <1>WrittenTyped
    <2>1. S \subseteq Line /\ Ids(S) \subseteq pending
        BY NewLinesTyped DEF Ids
    <2>2. content' \in [Name -> SUBSET Line]
        BY <2>1, NameFacts DEF TypeInv, TypeOK, Written
    <2>3. copies' \in [Events -> 0..MaxCopies]
        BY <2>1, ArchiveAssumption DEF TypeInv, TypeOK, Written
    <2>. QED
        BY <2>1, <2>2, <2>3 DEF TypeInv, TypeOK, Written
<1>WriteType. ASSUME TypeInv, Write PROVE TypeInv'
    <2>. USE <1>WriteType
    <2>. USE DEF TypeInv, TypeOK
    <2>1. CASE \E B \in SUBSET Events : WriteEvents(B)
        <3>1. PICK B \in SUBSET Events : WriteEvents(B)
            BY <2>1
        <3>2. seen' \subseteq Events /\ pending' \subseteq B
            BY <3>1 DEF WriteEvents
        <3>3. \A e \in pending' : copies[e] < MaxCopies
            BY <3>1, <3>2 DEF WriteEvents
        <3>. QED
            BY <3>1, <3>2, <3>3 DEF WriteEvents, NoFault, fileVars, passVars
    <2>2. ASSUME NEW d \in Days, Append(d) PROVE TypeInv'
        <3>1. NewLines(d) \in SUBSET NewLines(d)
            OBVIOUS
        <3>2. /\ content' \in [Name -> SUBSET Line] /\ unsynced' \subseteq Line
              /\ copies' \in [Events -> 0..MaxCopies]
              /\ \A e \in Events : e \notin Ids(NewLines(d)) => copies'[e] = copies[e]
            BY <2>2, <3>1, <1>WrittenTyped DEF Append
        <3>3. /\ dir' \subseteq Name /\ torn' \subseteq dir'
              /\ \A f \in torn' : f.kind \in LogKinds
              /\ handles' \subseteq Days /\ unlinked' \subseteq handles'
            BY <2>2, NameFacts DEF Append, Open
        <3>4. appended' \subseteq Line /\ pending' \subseteq pending
            BY <2>2, NewLinesTyped DEF Append
        <3>. QED
            BY <2>2, <3>2, <3>3, <3>4 DEF Append, NoFault, passVars
    <2>3. ASSUME NEW d \in Days, AppendFails(d) PROVE TypeInv'
        <3>1. /\ dir' \subseteq Name /\ torn' \subseteq dir'
              /\ \A f \in torn' : f.kind \in LogKinds
              /\ handles' \subseteq Days /\ unlinked' \subseteq handles'
            BY <2>3, NameFacts DEF AppendFails, Open
        <3>. QED
            BY <2>3, <3>1, ArchiveAssumption DEF AppendFails, Fault, WriteReturns, passVars
    <2>4. ASSUME NEW d \in Days, NEW S \in SUBSET NewLines(d), AppendTears(d, S) PROVE TypeInv'
        <3>1. /\ content' \in [Name -> SUBSET Line] /\ unsynced' \subseteq Line
              /\ copies' \in [Events -> 0..MaxCopies]
            BY <2>4, <1>WrittenTyped DEF AppendTears
        <3>2. /\ dir' \subseteq Name /\ torn' \subseteq dir'
              /\ \A f \in torn' : f.kind \in LogKinds
              /\ handles' \subseteq Days /\ unlinked' \subseteq handles'
            BY <2>4, NameFacts DEF AppendTears, LogKinds
        <3>. QED
            BY <2>4, <3>1, <3>2, ArchiveAssumption DEF AppendTears, Fault, WriteReturns, passVars
    <2>5. CASE SyncLogs
        <3>1. \A l \in appended : l.id \in Events
            BY DEF Line
        <3>. QED
            BY <2>5, <3>1 DEF SyncLogs, NoFault, WriteReturns, Ids, passVars
    <2>6. CASE SyncFails
        BY <2>6, ArchiveAssumption DEF SyncFails, Fault, WriteReturns, fileVars, logVars, passVars
    <2>. QED
        BY <2>1, <2>2, <2>3, <2>4, <2>5, <2>6 DEF Write
<1>PassType. ASSUME TypeInv, Pass PROVE TypeInv'
    <2>. USE <1>PassType
    <2>. USE DEF TypeInv, TypeOK
    \* A rename and a removal leave the other names in the directory.
    <2>14. ASSUME NEW f \in Name, NEW g \in Name, Renamed(f, g)
           PROVE  /\ dir' \subseteq Name /\ content' \in [Name -> SUBSET Line]
                  /\ g \in dir' /\ \A h \in dir : h # f => h \in dir'
        BY <2>14 DEF Renamed
    <2>15. ASSUME NEW f \in Name, Removed(f)
           PROVE  /\ dir' \subseteq Name /\ content' \in [Name -> SUBSET Line]
                  /\ \A h \in dir : h # f => h \in dir'
        BY <2>15 DEF Removed
    <2>1. CASE PassStarts
        BY <2>1, NameFacts DEF PassStarts, NoFault, fileVars, logVars, writerVars
    <2>2. ASSUME NEW from, NEW to \in {"idle", "claim", "dump", "months"},
                 NEW names \in SUBSET Name, NextLoop(from, to, names)
          PROVE  TypeInv'
        BY <2>2 DEF NextLoop, NoFault, fileVars, logVars, writerVars
    <2>3. CASE ListClosed \/ ListDumping \/ ListMonths \/ PassEnds
        <3>1. /\ { f \in dir : f.kind = "closed" } \in SUBSET Name
              /\ { f \in dir : f.kind = "dumping" } \in SUBSET Name
              /\ dir \in SUBSET Name /\ {} \in SUBSET Name
            OBVIOUS
        <3>. QED
            BY <2>2, <2>3, <3>1 DEF ListClosed, ListDumping, ListMonths, PassEnds
    <2>4. CASE PassStops
        BY <2>4, ArchiveAssumption DEF PassStops, Fault, fileVars, logVars, writerVars
    <2>5. ASSUME NEW f \in todo, Rotate(f) PROVE TypeInv'
        <3>1. f \in Name
            OBVIOUS
        <3>2. PICK n \in FirstFree(1, SegsOf({"closed"}, f.day)) :
                /\ Renamed(f, File("closed", f.day, n))
                /\ torn' = IF f \in torn THEN (torn \ {f}) \union {File("closed", f.day, n)}
                                         ELSE torn
            BY <2>5 DEF Rotate
        <3>. DEFINE c == File("closed", f.day, n)
        <3>3. c \in Name /\ c.kind = "closed"
            BY <3>1, NameFacts DEF Kinds
        <3>. HIDE DEF c
        <3>4. /\ dir' \subseteq Name /\ content' \in [Name -> SUBSET Line]
              /\ c \in dir' /\ \A h \in dir : h # f => h \in dir'
            BY <3>1, <3>2, <3>3, <2>14 DEF c
        <3>5. torn' \subseteq dir' /\ \A h \in torn' : h.kind \in LogKinds
            <4>1. CASE f \in torn
                BY <3>2, <3>3, <3>4, <4>1 DEF c, LogKinds
            <4>2. CASE f \notin torn
                BY <3>2, <3>4, <4>2
            <4>. QED BY <4>1, <4>2
        <3>. QED
            BY <2>5, <3>4, <3>5 DEF Rotate, NoFault, writerVars
    <2>6. ASSUME NEW f \in todo, Claim(f) PROVE TypeInv'
        <3>1. f \in Name
            OBVIOUS
        <3>2. /\ dir' \subseteq Name /\ content' \in [Name -> SUBSET Line]
              /\ \A h \in dir : h # f => h \in dir'
            <4>1. CASE Removed(f)
                BY <3>1, <4>1, <2>15
            <4>2. CASE \E n \in FirstFree(0, SegsOf({"day", "dumping"}, f.day)) :
                         Renamed(f, File("dumping", f.day, n))
                <5>1. PICK n \in FirstFree(0, SegsOf({"day", "dumping"}, f.day)) :
                         Renamed(f, File("dumping", f.day, n))
                    BY <4>2
                <5>2. File("dumping", f.day, n) \in Name
                    BY <3>1, NameFacts DEF Kinds
                <5>. QED BY <3>1, <5>1, <5>2, <2>14
            <4>. QED BY <2>6, <4>1, <4>2 DEF Claim
        <3>. QED
            BY <2>6, <3>2 DEF Claim, NoFault, logVars, writerVars
    <2>7. ASSUME NEW f \in todo, WriteDump(f) PROVE TypeInv'
        <3>1. Target(f) \in Name /\ FirstLines(content[f]) \subseteq Line
            BY NameFacts DEF FirstLines
        <3>2. dir' \subseteq Name /\ content' \in [Name -> SUBSET Line] /\ torn' \subseteq dir'
            BY <2>7, <3>1 DEF WriteDump
        <3>. QED
            BY <2>7, <3>2 DEF WriteDump, NoFault, logVars, writerVars, passVars
    <2>8. ASSUME NEW f \in todo, RemoveDumped(f) PROVE TypeInv'
        <3>1. /\ dir' \subseteq Name /\ content' \in [Name -> SUBSET Line]
              /\ \A h \in dir : h # f => h \in dir'
            BY <2>8, <2>15 DEF RemoveDumped
        <3>. QED
            BY <2>8, <3>1 DEF RemoveDumped, NoFault, logVars, writerVars
    <2>9. ASSUME NEW f \in todo, ExpireFile(f) PROVE TypeInv'
        <3>1. /\ dir' \subseteq Name /\ content' \in [Name -> SUBSET Line]
              /\ \A h \in dir : h # f => h \in dir'
            BY <2>9, <2>15 DEF ExpireFile
        <3>2. unlinked' \subseteq handles
            BY <2>9 DEF ExpireFile
        <3>. QED
            BY <2>9, <3>1, <3>2 DEF ExpireFile, NoFault, writerVars
    <2>10. ASSUME NEW f \in todo, RemoveMerged(f) PROVE TypeInv'
        <3>1. /\ dir' \subseteq Name /\ content' \in [Name -> SUBSET Line]
              /\ \A h \in dir : h # f => h \in dir'
            BY <2>10, <2>15 DEF RemoveMerged
        <3>2. f.kind = "day"
            BY <2>10 DEF RemoveMerged, DayFiles
        <3>3. f \notin torn
            BY <3>2 DEF LogKinds
        <3>4. torn' \subseteq dir'
            BY <2>10, <3>1, <3>3 DEF RemoveMerged
        <3>. QED
            BY <2>10, <3>1, <3>4 DEF RemoveMerged, NoFault, logVars, writerVars
    <2>11. ASSUME NEW f \in todo, RotateFails(f) \/ ClaimFails(f) \/ DumpFails(f) PROVE TypeInv'
        BY <2>11, ArchiveAssumption
           DEF RotateFails, ClaimFails, DumpFails, Fault, NoFault, fileVars, logVars, writerVars
    <2>12. ASSUME NEW m \in Days, MergeMonth(m) PROVE TypeInv'
        <3>1. MonthFile(m) \in Name /\ DayFiles(todo, m) \subseteq Name
            BY NameFacts DEF DayFiles
        <3>2. Merged(content[MonthFile(m)], DayFiles(todo, m)) \subseteq Line
            BY <3>1 DEF Merged
        <3>3. dir' \subseteq Name /\ content' \in [Name -> SUBSET Line] /\ torn' \subseteq dir'
            BY <2>12, <3>1, <3>2 DEF MergeMonth
        <3>. QED
            BY <2>12, <3>3 DEF MergeMonth, NoFault, logVars, writerVars
    <2>13. ASSUME NEW m \in Days, LeaveMonth(m) PROVE TypeInv'
        BY <2>13, ArchiveAssumption
           DEF LeaveMonth, Fault, NoFault, fileVars, logVars, writerVars, InMonth
    <2>. QED
        BY <2>1, <2>3, <2>4, <2>5, <2>6, <2>7, <2>8, <2>9, <2>10, <2>11, <2>12, <2>13 DEF Pass
<1>. USE DEF TypeInv, TypeOK
<1>1. CASE NewDay
    BY <1>1 DEF NewDay, NoFault, fileVars, logVars, writerVars, passVars
<1>2. CASE UNCHANGED vars
    BY <1>2 DEF vars, fileVars, logVars, writerVars, passVars
<1>3. CASE Crashes
    <2>1. PICK lost \in SUBSET unsynced : \E T \in SUBSET dir : Crash(lost, T)
        BY <1>3 DEF Crashes
    <2>2. PICK T \in SUBSET dir : Crash(lost, T)
        BY <2>1
    <2>3. content' \in [Name -> SUBSET Line]
        BY <2>2 DEF Crash
    <2>4. torn' \subseteq dir' /\ \A f \in torn' : f.kind \in LogKinds
        BY <2>2 DEF Crash, LogKinds
    <2>. QED
        BY <2>2, <2>3, <2>4, ArchiveAssumption DEF Crash, Fault
<1>. QED
    BY <1>1, <1>2, <1>3, <1>WriteType, <1>PassType DEF Next

\* The variables keep their types, whatever fails, crashes or interleaves.
THEOREM TypeCorrect == Spec => []TypeOK
<1>1. TypeInv => TypeOK
    BY DEF TypeInv
<1>. QED
    BY InitType, NextType, <1>1, PTL DEF Spec

-----------------------------------------------------------------------------
(* What each thread leaves alone.                                          *)

\* The writer leaves the pass's variables alone, and the pass the writer's.
LEMMA Frames ==
    /\ Write => UNCHANGED <<today, pc, todo, month, passDay>>
    /\ Pass => UNCHANGED <<today, unsynced, seen, copies, batch, pending, appended, acked>>
<1>1. ASSUME Write PROVE UNCHANGED <<today, pc, todo, month, passDay>>
    BY <1>1
       DEF Write, WriteEvents, Append, AppendFails, AppendTears, SyncLogs, SyncFails, passVars
<1>2. ASSUME Pass
      PROVE  UNCHANGED <<today, unsynced, seen, copies, batch, pending, appended, acked>>
    BY <1>2
       DEF Pass, PassStarts, ListClosed, ListDumping, ListMonths, PassEnds, NextLoop, PassStops,
           Rotate, Claim, WriteDump, RemoveDumped, ExpireFile, RemoveMerged,
           RotateFails, ClaimFails, DumpFails,
           MergeMonth, LeaveMonth, fileVars, logVars, writerVars
<1>. QED
    BY <1>1, <1>2

-----------------------------------------------------------------------------
(* The inductive invariant behind AckedReadable.                           *)

\* No event under way is older than the late window of the last pass.
BatchInWindow ==
    /\ passDay <= today
    /\ \A e \in batch : EventDay[e] + LateDays >= passDay

\* A file that is not there holds nothing; a line is in a file of its month
\* and is one of the copies appended.
LinesFiled ==
    /\ \A f \in Name : f \notin dir => content[f] = {}
    /\ \A f \in Name : \A l \in content[f] :
         MonthEnd[DayOf(l)] = MonthOf(f) /\ l.copy <= copies[l.id]

\* A month file is named after its month, which is past the late window and
\* has no log left.
MonthsFinal ==
    \A f \in dir : f.kind = "month" =>
        /\ f = MonthFile(f.day) /\ MonthEnd[f.day] = f.day
        /\ PastLate(f.day)
        /\ ~MonthIsOpen(dir, f.day)

\* A log deleted behind its handle is of an expired month.
UnlinkedExpired == \A d \in unlinked : Expired(MonthEnd[d])

\* The lines appended so far are in their days' logs ...
AppendedFiled ==
    \A l \in appended : /\ l.id \in batch
                         /\ LogFile(DayOf(l)) \in dir
                         /\ l \in content[LogFile(DayOf(l))]

\* ... and an event of the batch is pending, appended or was acknowledged.
BatchAccounted ==
    \A e \in batch : e \in pending \/ e \in acked \/ e \in Ids(appended)

\* What the pass has still to handle is there, of the kind its step handles,
\* and all there is of a month it has not merged or removed.
TodoListed ==
    /\ todo \subseteq dir
    /\ pc = "rotate" => \A f \in todo : f.kind = "log"
    /\ pc = "claim"  => \A f \in todo : f.kind = "closed"
    /\ pc = "dump"   => \A f \in todo : f.kind = "dumping"
    /\ pc = "months" => \A g \in todo : \A f \in dir :
         MonthOf(f) = MonthOf(g) /\ PastLate(MonthOf(f)) => f \in todo
    /\ pc = "remove" => MonthFile(month) \in dir
    /\ pc = "remove" => \A g \in todo : \A f \in dir :
         /\ MonthOf(f) = MonthOf(g) /\ PastLate(MonthOf(f)) /\ MonthOf(f) # month
         => f \in todo

\* A line that a crash cannot take is in a file the readers list.
Durable(f, l) ==
    f \in Listed(dir) /\ l \in content[f] /\ (f.kind \in ParquetKinds \/ l \notin unsynced)

AckedDurable ==
    \A e \in acked : Kept(e) => \E f \in Name : \E l \in Line : l.id = e /\ Durable(f, l)

IInv ==
    /\ TypeInv /\ SeenIsAcked
    /\ BatchInWindow /\ LinesFiled /\ MonthsFinal /\ UnlinkedExpired
    /\ AppendedFiled /\ BatchAccounted /\ TodoListed /\ AckedDurable

-----------------------------------------------------------------------------

\* An empty directory satisfies the invariant.
LEMMA InitInv == Init => IInv
<1>. SUFFICES ASSUME Init PROVE IInv
    OBVIOUS
<1>1. TypeInv
    BY InitType
<1>2. BatchInWindow
    BY DEF Init, BatchInWindow
<1>. QED
    BY <1>1, <1>2
       DEF Init, IInv, SeenIsAcked, LinesFiled, MonthsFinal, UnlinkedExpired,
           AppendedFiled, BatchAccounted, TodoListed, AckedDurable

\* An event of the batch is of a month the passes so far have not expired.
LEMMA BatchIsKept ==
    ASSUME LateDays < RetentionDays, TypeInv, BatchInWindow, NEW e \in batch
    PROVE  /\ ~Expired(MonthEnd[EventDay[e]]) /\ ~PastLate(MonthEnd[EventDay[e]])
           /\ EventDay[e] \in Days
<1>1. EventDay[e] \in Days /\ passDay \in Int
    BY ArchiveAssumption DEF TypeInv, TypeOK
<1>2. EventDay[e] \in Int /\ MonthEnd[EventDay[e]] \in Int /\ EventDay[e] <= MonthEnd[EventDay[e]]
    BY <1>1, CalendarAssumption
<1>3. EventDay[e] + LateDays >= passDay
    BY DEF BatchInWindow
<1>. QED
    BY <1>1, <1>2, <1>3, ArchiveAssumption DEF Expired, PastLate

\* The day of the last pass only moves forward, so a month that is expired or
\* past the late window stays so.
LEMMA PassDayGrows ==
    ASSUME IInv, Next
    PROVE  \A m \in Days : (Expired(m) => Expired(m)') /\ (PastLate(m) => PastLate(m)')
<1>1. today \in Int /\ passDay \in Int /\ passDay <= today
    BY DEF IInv, TypeInv, TypeOK, BatchInWindow
<1>2. passDay' \in Int /\ passDay' >= passDay
    <2>1. CASE PassStarts
        BY <1>1, <2>1 DEF PassStarts
    <2>2. CASE passDay' = passDay
        BY <1>1, <2>2
    <2>. QED
        BY <2>1, <2>2, Frames
           DEF Next, Pass, ListClosed, ListDumping, ListMonths, PassEnds, NextLoop, PassStops,
               Rotate, Claim, WriteDump, RemoveDumped, ExpireFile, RemoveMerged,
               RotateFails, ClaimFails, DumpFails, MergeMonth, LeaveMonth, Crashes, Crash, NewDay,
               passVars
<1>. QED
    BY <1>1, <1>2, CalendarAssumption, ArchiveAssumption DEF Expired, PastLate

-----------------------------------------------------------------------------
(* What a step does to the files, whichever action it is.                  *)

\* The writer has added the lines S to the log of day d, or only opened it.
LogGrows(d, S) ==
    /\ \E e \in batch : EventDay[e] = d
    /\ S \subseteq NewLines(d)
    /\ dir \subseteq dir' /\ dir' \subseteq dir \union {LogFile(d)}
    /\ \/ content' = content
       \/ LogFile(d) \in dir' /\ content' = [content EXCEPT ![LogFile(d)] = @ \union S]
    /\ unsynced' \subseteq unsynced \union S
    /\ \A e \in Events : copies'[e] >= copies[e]
    /\ \A l \in S : copies'[l.id] >= l.copy

\* A step of the writer changes no file, or makes one log longer.
LEMMA WriteGrows ==
    ASSUME IInv, Write
    PROVE  \/ UNCHANGED <<dir, content, copies>> /\ unsynced' \subseteq unsynced
           \/ \E d \in Days : \E S \in SUBSET NewLines(d) : LogGrows(d, S)
<1>. USE DEF IInv
<1>1. ASSUME NEW d \in Days, NEW S \in SUBSET NewLines(d), Written(d, S)
      PROVE  /\ \A e \in Events : copies'[e] >= copies[e]
             /\ \A l \in S : copies'[l.id] >= l.copy
    <2>1. \A e \in Events : copies[e] \in Int
        BY ArchiveAssumption DEF TypeInv, TypeOK
    <2>2. copies' = [e \in Events |-> IF e \in Ids(S) THEN copies[e] + 1 ELSE copies[e]]
        BY <1>1 DEF Written
    <2>3. \A l \in S : l.id \in Events /\ l.id \in Ids(S) /\ l.copy = copies[l.id] + 1
        BY NewLinesTyped DEF TypeInv, TypeOK, Ids, NewLines
    <2>. QED
        BY <2>1, <2>2, <2>3
<1>2. ASSUME NEW d \in Days, NewLines(d) # {} PROVE \E e \in batch : EventDay[e] = d
    BY <1>2, NewLinesTyped DEF TypeInv, TypeOK
<1>3. ASSUME NEW d \in Days, Append(d) PROVE LogGrows(d, NewLines(d))
    <2>1. \/ content' = content
          \/ /\ LogFile(d) \in dir'
             /\ content' = [content EXCEPT ![LogFile(d)] = @ \union NewLines(d)]
        BY <1>3 DEF Append, Open, Written
    <2>2. dir \subseteq dir' /\ dir' \subseteq dir \union {LogFile(d)}
        BY <1>3 DEF Append, Open
    <2>3. Written(d, NewLines(d)) /\ NewLines(d) # {}
        BY <1>3 DEF Append
    <2>4. unsynced' \subseteq unsynced \union NewLines(d)
        BY <2>3 DEF Written
    <2>. QED
        BY <1>1, <1>2, <2>1, <2>2, <2>3, <2>4 DEF LogGrows
<1>4. ASSUME NEW d \in Days, AppendFails(d) PROVE LogGrows(d, {})
    <2>1. dir \subseteq dir' /\ dir' \subseteq dir \union {LogFile(d)}
        BY <1>4 DEF AppendFails, Open
    <2>2. content' = content /\ unsynced' = unsynced /\ copies' = copies
        BY <1>4 DEF AppendFails
    <2>3. \A e \in Events : copies[e] \in Int
        BY ArchiveAssumption DEF TypeInv, TypeOK
    <2>. QED
        BY <1>2, <1>4, <2>1, <2>2, <2>3 DEF LogGrows, AppendFails
<1>5. ASSUME NEW d \in Days, NEW S \in SUBSET NewLines(d), AppendTears(d, S)
      PROVE  LogGrows(d, S)
    <2>1. \/ content' = content
          \/ /\ LogFile(d) \in dir'
             /\ content' = [content EXCEPT ![LogFile(d)] = @ \union S]
        BY <1>5 DEF AppendTears, Written
    <2>2. dir \subseteq dir' /\ dir' \subseteq dir \union {LogFile(d)}
        BY <1>5 DEF AppendTears
    <2>3. Written(d, S) /\ NewLines(d) # {}
        BY <1>5 DEF AppendTears
    <2>4. unsynced' \subseteq unsynced \union S
        BY <2>3 DEF Written
    <2>. QED
        BY <1>1, <1>2, <2>1, <2>2, <2>3, <2>4 DEF LogGrows
<1>6. CASE (\E B \in SUBSET Events : WriteEvents(B)) \/ SyncLogs \/ SyncFails
    BY <1>6 DEF WriteEvents, SyncLogs, SyncFails, fileVars, logVars
<1>. QED
    BY <1>3, <1>4, <1>5, <1>6 DEF Write

\* The pass has renamed a log of the day for the next step.
Moves(f, g) ==
    /\ f \in Name /\ g \in Name /\ f \in dir /\ g \notin dir /\ g.day = f.day
    /\ \/ pc = "rotate" /\ f.kind = "log" /\ g.kind = "closed" /\ batch = {}
       \/ pc = "claim" /\ f.kind = "closed" /\ g.kind = "dumping" /\ Target(g) \notin dir
    /\ pc' = pc
    /\ Renamed(f, g)

\* The pass has removed a file that is empty, hidden or of an expired month.
Drops(f) ==
    /\ f \in Name /\ f \in dir /\ pc' = pc
    /\ \/ pc = "claim"  /\ f.kind = "closed"
       \/ pc = "dump"   /\ f.kind = "dumping"
       \/ pc = "months" /\ Expired(MonthOf(f))
       \/ pc = "remove" /\ f.kind = "day"
    /\ content[f] = {} \/ f \notin Listed(dir) \/ Expired(MonthOf(f))
    /\ Removed(f)

\* A step of the pass renames, dumps or removes one of its files, merges a month, or
\* changes no file.
LEMMA PassMoves ==
    ASSUME IInv, Pass
    PROVE  \/ UNCHANGED <<dir, content>>
           \/ \E f \in todo : Drops(f) \/ WriteDump(f) \/ \E g \in Name : Moves(f, g)
           \/ \E m \in Days : MergeMonth(m)
<1>1. todo \subseteq Name /\ todo \subseteq dir
    BY DEF IInv, TypeInv, TypeOK, TodoListed
<1>2. ASSUME NEW f \in todo, Rotate(f) PROVE \E g \in Name : Moves(f, g)
    <2>1. f.kind = "log" /\ batch = {} /\ pc = "rotate" /\ pc' = pc
        BY <1>2 DEF IInv, TodoListed, Rotate
    <2>2. PICK n \in FirstFree(1, SegsOf({"closed"}, f.day)) : Renamed(f, File("closed", f.day, n))
        BY <1>2 DEF Rotate
    <2>. DEFINE g == File("closed", f.day, n)
    <2>3. g \in Name /\ g.kind = "closed" /\ g.day = f.day /\ g.seg = n
        BY <1>1, NameFacts DEF Kinds
    <2>4. g \notin dir
        BY <2>3 DEF FirstFree, SegsOf
    <2>. HIDE DEF g
    <2>. QED
        BY <1>1, <2>1, <2>2, <2>3, <2>4 DEF Moves, g
<1>3. ASSUME NEW f \in todo, Claim(f) PROVE Drops(f) \/ \E g \in Name : Moves(f, g)
    <2>1. f.kind = "closed" /\ pc = "claim" /\ pc' = pc
        BY <1>3 DEF IInv, TodoListed, Claim
    <2>2. CASE content[f] = {} /\ Removed(f)
        BY <1>1, <2>1, <2>2 DEF Drops
    <2>3. ASSUME NEW n \in FirstFree(0, SegsOf({"day", "dumping"}, f.day)),
                 Renamed(f, File("dumping", f.day, n))
          PROVE  \E g \in Name : Moves(f, g)
        <3>. DEFINE g == File("dumping", f.day, n)
        <3>1. g \in Name /\ g.kind = "dumping" /\ g.day = f.day /\ g.seg = n
            BY <1>1, NameFacts DEF Kinds
        <3>2. Target(g).kind = "day" /\ Target(g).day = f.day /\ Target(g).seg = n
            BY <3>1, NameFacts
        <3>3. g \notin dir /\ Target(g) \notin dir
            BY <3>1, <3>2 DEF FirstFree, SegsOf
        <3>. HIDE DEF g
        <3>. QED
            BY <1>1, <2>1, <2>3, <3>1, <3>3 DEF Moves, g
    <2>. QED
        BY <1>3, <2>2, <2>3 DEF Claim
<1>4. ASSUME NEW f \in todo, RemoveDumped(f) \/ ExpireFile(f) \/ RemoveMerged(f) PROVE Drops(f)
    <2>1. pc' = pc /\ Removed(f)
        BY <1>4 DEF RemoveDumped, ExpireFile, RemoveMerged
    <2>2. \/ pc = "dump" /\ f.kind = "dumping" /\ Target(f) \in dir
          \/ pc = "months" /\ Expired(MonthOf(f))
          \/ pc = "remove" /\ f.kind = "day" /\ MonthFile(MonthOf(f)) \in dir
        BY <1>4 DEF RemoveDumped, ExpireFile, RemoveMerged, DayFiles, IInv, TodoListed
    <2>. QED
        BY <1>1, <2>1, <2>2 DEF Drops, Listed
<1>. QED
    BY <1>2, <1>3, <1>4
       DEF Pass, PassStarts, ListClosed, ListDumping, ListMonths, PassEnds, NextLoop, PassStops,
           RotateFails, ClaimFails, DumpFails, LeaveMonth, fileVars

\* A merged month is a month: its file's name says so.
LEMMA MergedMonth ==
    ASSUME TypeInv, NEW m \in Days, m \in MonthsOf(todo)
    PROVE  MonthEnd[m] = m /\ MonthFile(m) \in Name /\ MonthOf(MonthFile(m)) = m
<1>1. PICK g \in todo : MonthOf(g) = m
    BY DEF MonthsOf
<1>. QED
    BY <1>1, NameFacts, CalendarAssumption DEF MonthOf, TypeInv, TypeOK

-----------------------------------------------------------------------------
(* An acknowledged event keeps a line no crash can take.                   *)

\* A set of numbers has a least one: segments are claimed and kept in their order.
LEMMA LeastNumber ==
    ASSUME NEW T \in SUBSET Nat, T # {}
    PROVE  \E n \in T : \A k \in T : n <= k
<1>1. PICK n \in T : \A k \in T : ~(<<k, n>> \in OpToRel(<, Nat))
    BY NatLessThanWellFounded, WFMin
<1>2. \A k \in T : ~(k < n)
    BY <1>1 DEF OpToRel
<1>. QED
    BY <1>2

\* Of the lines of an id a file holds, its dump keeps one.
LEMMA FirstLineKept ==
    ASSUME NEW lines \in SUBSET Line, NEW l \in lines
    PROVE  \E k \in FirstLines(lines) : k.id = l.id
<1>. DEFINE T == { k.copy : k \in { x \in lines : x.id = l.id } }
<1>1. T \subseteq Nat /\ l.copy \in T
    BY DEF Line
<1>. HIDE DEF T
<1>2. PICK n \in T : \A k \in T : n <= k
    BY <1>1, LeastNumber
<1>4. PICK k \in lines : k.id = l.id /\ k.copy = n
    BY <1>2 DEF T
<1>. QED
    BY <1>2, <1>4 DEF FirstLines, T

\* Of the day files that hold an id, a merge keeps the line of the first.
LEMMA MergeKeepsId ==
    ASSUME TypeInv, NEW old, NEW days \in SUBSET Name, NEW f \in days, NEW l \in content[f]
    PROVE  \E k \in Merged(old, days) : k.id = l.id
<1>. DEFINE T == { g.seg : g \in { h \in days : l.id \in Ids(content[h]) } }
<1>1. T \subseteq Nat
    <2>1. \A h \in days : h.seg \in Nat
        BY SegsAssumption DEF Name
    <2>. QED
        BY <2>1
<1>0. f.seg \in T
    BY DEF Ids
<1>. HIDE DEF T
<1>2. PICK n \in T : \A k \in T : n <= k
    BY <1>0, <1>1, LeastNumber
<1>4. PICK g \in days : g.seg = n /\ l.id \in Ids(content[g])
    BY <1>2 DEF T
<1>5. PICK k \in content[g] : k.id = l.id
    BY <1>4 DEF Ids
<1>6. \A h \in days : k.id \in Ids(content[h]) => g.seg <= h.seg
    BY <1>2, <1>4, <1>5 DEF T
<1>7. CASE l.id \in Ids(old)
    BY <1>7 DEF Merged, Ids
<1>8. CASE l.id \notin Ids(old)
    BY <1>4, <1>5, <1>6, <1>8 DEF Merged
<1>. QED
    BY <1>7, <1>8

\* No step takes an acknowledged event's last line, one kind of step after the other.
LEMMA DurableStep == ASSUME LateDays < RetentionDays, IInv, Next PROVE AckedDurable'
\* A removal, a rename or an append leaves a durable line readable.
<1>DropKeeps. ASSUME IInv, NEW f \in Name, NEW l \in Line, Durable(f, l), Kept(l.id),
                     NEW g \in Name, Drops(g), unsynced' = unsynced
              PROVE  Durable(f, l)'
    <2>. USE <1>DropKeeps
    <2>1. f # g
        <3>1. ~Expired(MonthOf(f))
            <4>1. MonthOf(f) = MonthEnd[EventDay[l.id]]
                BY DEF Durable, IInv, LinesFiled, DayOf
            <4>2. MonthOf(f) \in Int
                BY NameFacts, CalendarAssumption
            <4>3. MonthOf(f) + RetentionDays > today /\ passDay <= today
                BY <4>1 DEF Kept, IInv, BatchInWindow
            <4>. QED
                BY <4>2, <4>3, ArchiveAssumption DEF Expired, IInv, TypeInv, TypeOK
        <3>. QED
            BY <3>1 DEF Drops, Durable
    <2>2. f \in Listed(dir)'
        BY <2>1 DEF Drops, Removed, Durable, Listed
    <2>3. content'[f] = content[f]
        BY <2>1 DEF Drops, Removed, IInv, TypeInv, TypeOK
    <2>. QED
        BY <2>2, <2>3 DEF Durable
<1>MoveKeeps. ASSUME IInv, NEW f \in Name, NEW l \in Line, Durable(f, l),
                     NEW h \in Name, NEW g \in Name, Moves(h, g), unsynced' = unsynced
              PROVE  \E k \in Name : Durable(k, l)'
    <2>. USE <1>MoveKeeps
    <2>1. /\ h \in dir /\ g \notin dir /\ h # g /\ dir' = (dir \ {h}) \union {g}
          /\ h.kind \in LogKinds /\ g.kind \in {"closed", "dumping"}
          /\ g.kind = "dumping" => Target(g) \notin dir
          /\ content' = [content EXCEPT ![g] = content[h], ![h] = {}]
        BY DEF Moves, Renamed, LogKinds
    <2>2. Target(g).kind = "day" /\ \A x \in Name : Target(x).kind = "day"
             /\ MonthFile(MonthOf(x)).kind = "month"
        BY NameFacts
    <2>. content \in [Name -> SUBSET Line] /\ f \in dir
        BY DEF IInv, TypeInv, TypeOK, Durable, Listed
    <2>3. CASE f = h
        <3>1. g \in Listed(dir)'
            BY <2>1, <2>2 DEF Listed
        <3>2. content'[g] = content[f]
            BY <2>1, <2>3
        <3>3. f.kind \notin ParquetKinds
            BY <2>1, <2>3 DEF LogKinds, ParquetKinds
        <3>. QED
            BY <3>1, <3>2, <3>3 DEF Durable
    <2>4. CASE f # h
        <3>1. f \in Listed(dir)'
            BY <2>1, <2>2, <2>4 DEF Durable, Listed
        <3>2. content'[f] = content[f]
            BY <2>1, <2>4
        <3>. QED
            BY <3>1, <3>2 DEF Durable
    <2>. QED
        BY <2>3, <2>4
<1>GrowKeeps. ASSUME IInv, NEW f \in Name, NEW l \in Line, Durable(f, l),
                     NEW d \in Days, NEW S \in SUBSET NewLines(d), LogGrows(d, S)
              PROVE  Durable(f, l)'
    <2>. USE <1>GrowKeeps
    <2>1. LogFile(d) \in Name /\ LogFile(d).kind = "log"
        BY NameFacts
    <2>2. f \in Listed(dir)'
        <3>1. \A x \in Name : Target(x).kind = "day" /\ MonthFile(MonthOf(x)).kind = "month"
            BY NameFacts
        <3>. QED
            BY <2>1, <3>1 DEF LogGrows, Durable, Listed
    <2>3. l \in content'[f]
        BY <2>1 DEF LogGrows, Durable, IInv, TypeInv, TypeOK
    <2>4. l \notin S
        <3>1. l.copy <= copies[l.id] /\ copies[l.id] \in Int
            BY ArchiveAssumption DEF Durable, IInv, LinesFiled, TypeInv, TypeOK, Line
        <3>2. l \in S => l.copy = copies[l.id] + 1
            BY DEF NewLines
        <3>. QED
            BY <3>1, <3>2
    <2>5. unsynced' \subseteq unsynced \union S
        BY DEF LogGrows
    <2>. QED
        BY <2>2, <2>3, <2>4, <2>5 DEF Durable
\* A dump hides the log it is made of, and holds a line of each of its ids.
<1>DumpKeeps. ASSUME IInv, NEW f \in Name, NEW l \in Line, Durable(f, l),
                     NEW h \in todo, WriteDump(h)
              PROVE  \E k \in Name : \E x \in Line : x.id = l.id /\ Durable(k, x)'
    <2>. USE <1>DumpKeeps
    <2>. content \in [Name -> SUBSET Line] /\ f \in dir /\ h \in Name
        BY DEF IInv, TypeInv, TypeOK, Durable, Listed
    <2>. DEFINE t == Target(h)
    <2>1. /\ h \in dir /\ h.kind = "dumping" /\ t \notin dir /\ dir' = dir \union {t}
          /\ content' = [content EXCEPT ![t] = FirstLines(content[h])]
          /\ unsynced' = unsynced
        BY DEF WriteDump, IInv, TodoListed
    <2>2. t \in Name /\ t.kind = "day" /\ t.day = h.day /\ t.seg = h.seg /\ MonthOf(t) = MonthOf(h)
        BY NameFacts DEF MonthOf
    <2>3. \A x \in Name : MonthFile(MonthOf(x)).kind = "month" /\ MonthFile(MonthOf(x)).day = MonthOf(x)
        BY NameFacts
    <2>4. CASE f = h
        <3>1. PICK x \in FirstLines(content[h]) : x.id = l.id
            BY <2>4, FirstLineKept DEF Durable
        <3>2. MonthFile(MonthOf(h)) \notin dir
            BY <2>1, <2>3 DEF IInv, MonthsFinal, MonthIsOpen, LogKinds
        <3>3. t \in Listed(dir)'
            BY <2>1, <2>2, <2>3, <3>2 DEF Listed
        <3>4. x \in content'[t] /\ x \in Line
            BY <2>1, <2>2, <3>1 DEF FirstLines
        <3>. QED
            BY <2>2, <3>1, <3>3, <3>4 DEF Durable, ParquetKinds
    <2>5. CASE f # h
        <3>1. f.kind = "dumping" => Target(f) # t
            BY <2>1, <2>2, <2>5, NameFacts DEF Name
        <3>2. f \in Listed(dir)'
            BY <2>1, <2>2, <2>3, <3>1 DEF Durable, Listed
        <3>3. content'[f] = content[f]
            BY <2>1
        <3>. QED
            BY <2>1, <3>2, <3>3 DEF Durable
    <2>. QED
        BY <2>4, <2>5
\* A month file hides the day files it is made of, and holds their ids.
<1>MergeKeeps. ASSUME IInv, NEW f \in Name, NEW l \in Line, Durable(f, l),
                      NEW m \in Days, MergeMonth(m)
               PROVE  \E k \in Name : \E x \in Line : x.id = l.id /\ Durable(k, x)'
    <2>. USE <1>MergeKeeps
    <2>. content \in [Name -> SUBSET Line] /\ f \in dir /\ todo \subseteq Name
        BY DEF IInv, TypeInv, TypeOK, Durable, Listed
    <2>. DEFINE t == MonthFile(m)
                days == DayFiles(todo, m)
    <2>1. /\ dir' = dir \union {t} /\ unsynced' = unsynced
          /\ content' = [content EXCEPT ![t] = Merged(content[t], days)]
          /\ PastLate(m) /\ m \in MonthsOf(todo) /\ pc = "months"
        BY DEF MergeMonth, Mergeable
    <2>2. t \in Name /\ t.kind = "month" /\ t.day = m
        BY NameFacts
    <2>3. \A x \in Name : /\ MonthFile(MonthOf(x)).kind = "month" /\ Target(x).kind = "day"
                          /\ MonthFile(MonthOf(x)).day = MonthOf(x)
        BY NameFacts
    <2>4. t \in Listed(dir)'
        BY <2>1, <2>2 DEF Listed
    <2>5. content'[t] = Merged(content[t], days)
        BY <2>1, <2>2
    <2>6. CASE f.kind = "day" /\ MonthOf(f) = m
        <3>1. f \in days
            BY <2>1, <2>6 DEF IInv, TodoListed, MonthsOf, DayFiles
        <3>2. days \in SUBSET Name
            BY DEF DayFiles
        <3>3. PICK x \in Merged(content[t], days) : x.id = l.id
            BY <3>1, <3>2, MergeKeepsId DEF IInv, Durable
        <3>4. x \in Line
            BY <2>2, <3>2, <3>3 DEF Merged
        <3>. QED
            BY <2>2, <2>4, <2>5, <3>3, <3>4 DEF Durable, ParquetKinds
    <2>7. CASE f = t
        <3>1. l \in content'[t]
            BY <2>5, <2>7 DEF Durable, Merged
        <3>. QED
            BY <2>2, <2>4, <3>1 DEF Durable, ParquetKinds
    <2>8. CASE ~(f.kind = "day" /\ MonthOf(f) = m) /\ f # t
        <3>1. f \in Listed(dir)'
            BY <2>1, <2>2, <2>3, <2>8 DEF Durable, Listed
        <3>2. content'[f] = content[f]
            BY <2>1, <2>8
        <3>. QED
            BY <2>1, <3>1, <3>2 DEF Durable
    <2>. QED
        BY <2>6, <2>7, <2>8
<1>. USE DEF AckedDurable
<1>0. AckedDurable /\ acked \subseteq Events /\ today \in Int
    BY DEF IInv, TypeInv, TypeOK
<1>1. ASSUME NEW e \in Events, Kept(e)' PROVE Kept(e)
    <2>1. today' >= today /\ today' \in Int
        BY <1>0, Frames DEF Next, Crashes, Crash, NewDay
    <2>2. EventDay[e] \in Days /\ RetentionDays \in Int
        BY ArchiveAssumption
    <2>3. MonthEnd[EventDay[e]] \in Int
        BY <2>2, CalendarAssumption
    <2>. QED
        BY <1>0, <1>1, <2>1, <2>2, <2>3 DEF Kept
<1>2. ASSUME acked' = acked,
             \A f \in Name : \A l \in Line : Durable(f, l) /\ Kept(l.id) =>
               \E k \in Name : \E x \in Line : x.id = l.id /\ Durable(k, x)'
      PROVE  AckedDurable'
    BY <1>0, <1>1, <1>2
<1>3. ASSUME UNCHANGED <<dir, content>>, unsynced' \subseteq unsynced,
             NEW f \in Name, NEW l \in Line, Durable(f, l)
      PROVE  Durable(f, l)'
    BY <1>3 DEF Durable, Listed
<1>4. CASE Write /\ ~SyncLogs
    <2>1. acked' = acked
        BY <1>4 DEF Write, WriteEvents, Append, AppendFails, AppendTears, SyncFails, WriteReturns
    <2>. QED
        BY <1>2, <1>3, <1>4, <2>1, WriteGrows, <1>GrowKeeps
<1>5. CASE SyncLogs
    <2>1. UNCHANGED <<dir, content>> /\ unsynced' = unsynced \ appended
          /\ acked' = acked \union batch /\ pending = {}
        BY <1>5 DEF SyncLogs, WriteReturns
    <2>2. ASSUME NEW e \in acked, Kept(e)
          PROVE  \E f \in Name : \E l \in Line : l.id = e /\ Durable(f, l)'
        BY <1>0, <1>3, <2>1, <2>2
    <2>3. ASSUME NEW e \in batch, e \notin acked
          PROVE  \E f \in Name : \E l \in Line : l.id = e /\ Durable(f, l)'
        <3>1. PICK l \in appended : l.id = e
            BY <2>1, <2>3 DEF IInv, BatchAccounted, Ids
        <3>2. l \in Line /\ DayOf(l) \in Days
            BY ArchiveAssumption DEF IInv, TypeInv, TypeOK, Line, DayOf
        <3>3. LogFile(DayOf(l)) \in Name /\ LogFile(DayOf(l)).kind = "log"
            BY <3>2, NameFacts
        <3>4. LogFile(DayOf(l)) \in dir /\ l \in content[LogFile(DayOf(l))]
            BY DEF IInv, AppendedFiled
        <3>5. Durable(LogFile(DayOf(l)), l)'
            BY <2>1, <3>3, <3>4 DEF Durable, Listed
        <3>. QED
            BY <3>1, <3>2, <3>3, <3>5
    <2>4. \A e \in acked' : e \in Events
        BY <1>5, NextType DEF IInv, TypeInv, TypeOK
    <2>. QED
        BY <1>1, <2>1, <2>2, <2>3, <2>4
<1>6. CASE Pass
    <2>1. acked' = acked /\ unsynced' = unsynced /\ todo \subseteq Name
        BY <1>6, Frames DEF IInv, TypeInv, TypeOK
    <2>. QED
        BY <1>2, <1>3, <1>6, <2>1, PassMoves, <1>DropKeeps, <1>MoveKeeps, <1>DumpKeeps,
           <1>MergeKeeps
<1>7. CASE Crashes
    <2>1. PICK lost \in SUBSET unsynced : \E T \in SUBSET dir : Crash(lost, T)
        BY <1>7 DEF Crashes
    <2>2. /\ acked' = acked /\ dir' = dir /\ unsynced' = unsynced \ lost
          /\ content' = [f \in Name |-> IF f.kind \in LogKinds THEN content[f] \ lost
                                                               ELSE content[f]]
        BY <2>1 DEF Crash
    <2>3. ASSUME NEW f \in Name, NEW l \in Line, Durable(f, l) PROVE Durable(f, l)'
        BY <2>2, <2>3 DEF Durable, Listed, LogKinds, ParquetKinds
    <2>. QED
        BY <1>2, <2>2, <2>3
<1>8. CASE NewDay
    BY <1>2, <1>3, <1>8 DEF NewDay, fileVars, writerVars
<1>. QED
    BY <1>4, <1>5, <1>6, <1>7, <1>8 DEF Next

-----------------------------------------------------------------------------
(* The theorems.  When LateDays = RetentionDays they fail: the run         *)
(* archive_late shows a batch that opens a log in a month a pass expires.  *)

\* Every step keeps the invariant, part by part.
LEMMA NextInv == ASSUME LateDays < RetentionDays, IInv, [Next]_vars PROVE IInv'
<1>LinesStep. ASSUME IInv, Next PROVE LinesFiled'
    <2>. USE <1>LinesStep
    <2>. USE DEF IInv, LinesFiled
    <2>. content \in [Name -> SUBSET Line] /\ copies \in [Events -> Nat]
        BY ArchiveAssumption DEF TypeInv, TypeOK
    <2>1. ASSUME UNCHANGED <<dir, content, copies>> PROVE LinesFiled'
        BY <2>1 DEF MonthOf, DayOf
    <2>2. ASSUME NEW d \in Days, NEW S \in SUBSET NewLines(d), LogGrows(d, S) PROVE LinesFiled'
        <3>1. \A f \in Name : content'[f] # content[f] =>
                 f = LogFile(d) /\ f \in dir' /\ content'[f] \subseteq content[f] \union S
            BY <2>2, NameFacts DEF LogGrows
        <3>2. \A l \in S : MonthEnd[DayOf(l)] = MonthOf(LogFile(d)) /\ l.copy <= copies'[l.id]
            BY <2>2, NewLinesTyped, NameFacts DEF LogGrows, DayOf, MonthOf
        <3>3. \A f \in Name : \A l \in content[f] : l.copy <= copies'[l.id]
            <4>1. \A l \in Line : l.id \in Events /\ l.copy \in Int
                BY DEF Line
            <4>2. \A e \in Events : copies'[e] >= copies[e] /\ copies'[e] \in Int
                BY <2>2, NextType DEF LogGrows, TypeInv, TypeOK
            <4>. QED
                BY <4>1, <4>2
        <3>. QED
            BY <2>2, <3>1, <3>2, <3>3 DEF LogGrows, DayOf
    <2>3. ASSUME NEW f \in Name, Drops(f), copies' = copies PROVE LinesFiled'
        BY <2>3 DEF Drops, Removed, DayOf
    <2>4. ASSUME NEW f \in Name, NEW g \in Name, Moves(f, g), copies' = copies PROVE LinesFiled'
        BY <2>4 DEF Moves, Renamed, MonthOf, DayOf
    <2>5. ASSUME NEW f \in todo, WriteDump(f) PROVE LinesFiled'
        <3>1. f \in Name /\ Target(f) \in Name /\ MonthOf(Target(f)) = MonthOf(f)
            BY NameFacts DEF TypeInv, TypeOK, MonthOf
        <3>2. /\ dir' = dir \union {Target(f)} /\ copies' = copies
              /\ content' = [content EXCEPT ![Target(f)] = FirstLines(content[f])]
            BY <2>5 DEF WriteDump, logVars
        <3>3. FirstLines(content[f]) \subseteq content[f]
            BY DEF FirstLines
        <3>. QED
            BY <3>1, <3>2, <3>3 DEF DayOf
    <2>6. ASSUME NEW m \in Days, MergeMonth(m) PROVE LinesFiled'
        <3>2. /\ MonthFile(m) \in Name /\ MonthOf(MonthFile(m)) = m
              /\ DayFiles(todo, m) \subseteq Name
            BY <2>6, MergedMonth DEF MergeMonth, DayFiles, TypeInv, TypeOK
        <3>3. ASSUME NEW l \in Merged(content[MonthFile(m)], DayFiles(todo, m))
              PROVE  MonthEnd[DayOf(l)] = m /\ l.copy <= copies[l.id]
            BY <3>2 DEF Merged, DayFiles
        <3>4. /\ dir' = dir \union {MonthFile(m)} /\ copies' = copies
              /\ content' = [content EXCEPT ![MonthFile(m)] =
                               Merged(content[MonthFile(m)], DayFiles(todo, m))]
            BY <2>6 DEF MergeMonth, logVars
        <3>. QED
            BY <3>2, <3>3, <3>4 DEF DayOf
    <2>7. CASE Write
        BY <2>1, <2>2, <2>7, WriteGrows
    <2>8. CASE Pass
        BY <2>1, <2>3, <2>4, <2>5, <2>6, <2>8, PassMoves, Frames DEF TypeInv, TypeOK
    <2>9. CASE Crashes
        BY <2>9 DEF Crashes, Crash, DayOf
    <2>10. CASE NewDay
        BY <2>1, <2>10 DEF NewDay, fileVars, logVars
    <2>. QED
        BY <2>7, <2>8, <2>9, <2>10 DEF Next
<1>MonthsStep. ASSUME LateDays < RetentionDays, IInv, Next PROVE MonthsFinal'
    <2>. USE <1>MonthsStep
    <2>. USE DEF IInv, MonthsFinal, MonthIsOpen
    <2>. dir \subseteq Name /\ dir' \subseteq Name
        BY NextType DEF TypeInv, TypeOK
    <2>1. \A m \in Days : PastLate(m) => PastLate(m)'
        BY PassDayGrows
    <2>2. ASSUME dir' \subseteq dir PROVE MonthsFinal'
        BY <2>1, <2>2, NameFacts DEF MonthOf
    <2>3. ASSUME NEW d \in Days, NEW S \in SUBSET NewLines(d), LogGrows(d, S) PROVE MonthsFinal'
        <3>1. ~PastLate(MonthEnd[d])
            BY <2>3, BatchIsKept DEF LogGrows
        <3>2. LogFile(d).kind = "log" /\ MonthOf(LogFile(d)) = MonthEnd[d]
            BY NameFacts DEF MonthOf
        <3>3. \A f \in dir' : f \in dir \/ f = LogFile(d)
            BY <2>3 DEF LogGrows
        <3>4. ASSUME NEW f \in dir', f.kind = "month"
              PROVE  /\ f = MonthFile(f.day) /\ MonthEnd[f.day] = f.day
                     /\ PastLate(f.day) /\ PastLate(f.day)'
                     /\ \A h \in dir' : h.kind \in LogKinds => MonthOf(h) # f.day
            BY <2>1, <3>1, <3>2, <3>3, <3>4, NameFacts
        <3>. QED
            BY <3>4 DEF MonthOf
    <2>4. ASSUME NEW f \in Name, NEW g \in Name, Moves(f, g) PROVE MonthsFinal'
        <3>1. /\ f \in dir /\ f.kind \in LogKinds /\ g.kind \in LogKinds
              /\ g.kind # "month" /\ MonthOf(g) = MonthOf(f)
              /\ \A h \in dir' : h \in dir \/ h = g
            BY <2>4 DEF Moves, Renamed, LogKinds, MonthOf
        <3>. QED
            BY <2>1, <3>1, NameFacts DEF MonthOf
    <2>5. ASSUME NEW f \in todo, WriteDump(f) PROVE MonthsFinal'
        <3>1. Target(f).kind = "day" /\ dir' = dir \union {Target(f)}
            BY <2>5, NameFacts DEF WriteDump, TypeInv, TypeOK
        <3>. QED
            BY <2>1, <3>1, NameFacts DEF MonthOf, LogKinds
    <2>6. ASSUME NEW m \in Days, MergeMonth(m) PROVE MonthsFinal'
        <3>1. PICK g \in todo : MonthOf(g) = m
            BY <2>6 DEF MergeMonth, MonthsOf
        <3>2. MonthEnd[m] = m
            BY <2>6, MergedMonth DEF MergeMonth
        <3>3. PastLate(m) /\ ~MonthIsOpen(todo, m)
            BY <2>6 DEF MergeMonth, Mergeable
        <3>4. \A h \in dir : MonthOf(h) = m => h \in todo
            BY <2>6, <3>1, <3>3 DEF MergeMonth, TodoListed
        <3>5. dir' = dir \union {MonthFile(m)}
            BY <2>6 DEF MergeMonth
        <3>6. MonthFile(m).kind = "month" /\ MonthFile(m).day = m
            BY NameFacts
        <3>. QED
            BY <2>1, <3>2, <3>3, <3>4, <3>5, <3>6, NameFacts DEF LogKinds, MonthOf
    <2>7. CASE Write
        BY <2>2, <2>3, <2>7, WriteGrows
    <2>8. CASE Pass
        <3>1. ASSUME NEW f, Drops(f) PROVE dir' \subseteq dir
            BY <3>1 DEF Drops, Removed
        <3>. QED
            BY <2>2, <2>4, <2>5, <2>6, <2>8, <3>1, PassMoves DEF TypeInv, TypeOK
    <2>9. CASE Crashes
        BY <2>2, <2>9 DEF Crashes, Crash
    <2>10. CASE NewDay
        BY <2>2, <2>10 DEF NewDay, fileVars
    <2>. QED
        BY <2>7, <2>8, <2>9, <2>10 DEF Next
<1>TodoStep. ASSUME LateDays < RetentionDays, IInv, Next PROVE TodoListed'
    <2>. USE <1>TodoStep
    <2>. USE DEF IInv, TodoListed, PastLate, MonthOf
    <2>. todo \subseteq Name /\ dir \subseteq Name
        BY DEF TypeInv, TypeOK
    <2>1. CASE Write
        <3>1. UNCHANGED <<pc, todo, month, passDay>>
            BY <2>1, Frames
        <3>2. CASE UNCHANGED dir
            BY <3>1, <3>2
        <3>3. ASSUME NEW d \in Days, NEW S \in SUBSET NewLines(d), LogGrows(d, S)
              PROVE  TodoListed'
            <4>1. ~PastLate(MonthEnd[d]) /\ MonthOf(LogFile(d)) = MonthEnd[d]
                BY <3>3, BatchIsKept, NameFacts DEF LogGrows
            <4>2. dir \subseteq dir' /\ \A f \in dir' : f \in dir \/ f = LogFile(d)
                BY <3>3 DEF LogGrows
            <4>. QED
                BY <3>1, <4>1, <4>2
        <3>. QED
            BY <2>1, <3>2, <3>3, WriteGrows
    <2>2. CASE PassStarts
        BY <2>2 DEF PassStarts, fileVars
    <2>3. CASE ListClosed \/ ListDumping \/ ListMonths \/ PassEnds \/ PassStops
        BY <2>3 DEF ListClosed, ListDumping, ListMonths, PassEnds, PassStops, NextLoop, fileVars
    <2>4. ASSUME NEW f \in todo, Rotate(f) \/ Claim(f) \/ RemoveDumped(f) PROVE TodoListed'
        <3>1. /\ todo' = todo \ {f} /\ pc' = pc /\ pc \in {"rotate", "claim", "dump"}
            BY <2>4 DEF Rotate, Claim, RemoveDumped
        <3>2. \A h \in dir : h # f => h \in dir'
            BY <2>4 DEF Rotate, Claim, RemoveDumped, Renamed, Removed
        <3>. QED
            BY <3>1, <3>2
    <2>5. ASSUME NEW f \in todo, WriteDump(f) PROVE TodoListed'
        BY <2>5 DEF WriteDump, passVars
    <2>6. ASSUME NEW f \in todo, ExpireFile(f) PROVE TodoListed'
        BY <2>6 DEF ExpireFile, Removed
    <2>7. ASSUME NEW f \in todo, RemoveMerged(f) PROVE TodoListed'
        <3>1. f.kind = "day" /\ MonthFile(month).kind = "month"
            BY <2>7, NameFacts DEF RemoveMerged, DayFiles, TypeInv, TypeOK
        <3>. QED
            BY <2>7, <3>1 DEF RemoveMerged, Removed
    <2>8. ASSUME NEW f \in todo, RotateFails(f) \/ ClaimFails(f) \/ DumpFails(f)
          PROVE  TodoListed'
        BY <2>8 DEF RotateFails, ClaimFails, DumpFails, fileVars
    <2>9. ASSUME NEW m \in Days, LeaveMonth(m) PROVE TodoListed'
        BY <2>9 DEF LeaveMonth, InMonth, fileVars
    <2>10. ASSUME NEW m \in Days, MergeMonth(m) PROVE TodoListed'
        <3>1. MonthOf(MonthFile(m)) = m
            BY <2>10, MergedMonth DEF MergeMonth
        <3>2. dir' = dir \union {MonthFile(m)} /\ pc = "months"
            BY <2>10 DEF MergeMonth
        <3>3. pc' = "remove" /\ month' = m /\ todo' = todo /\ passDay' = passDay
            BY <2>10 DEF MergeMonth
        <3>. QED
            BY <3>1, <3>2, <3>3
    <2>11. CASE Crashes
        BY <2>11 DEF Crashes, Crash
    <2>12. CASE NewDay
        BY <2>12 DEF NewDay, fileVars, passVars
    <2>. QED
        BY <2>1, <2>2, <2>3, <2>4, <2>5, <2>6, <2>7, <2>8, <2>9, <2>10, <2>11, <2>12
           DEF Next, Pass
<1>SeenStep. ASSUME IInv, Next PROVE SeenIsAcked'
    <2>. USE <1>SeenStep
    <2>. USE DEF IInv, SeenIsAcked
    <2>1. CASE Write
        <3>1. Ids(appended) \subseteq batch
            BY DEF AppendedFiled, Ids
        <3>. QED
            BY <2>1, <3>1
               DEF Write, WriteEvents, Append, AppendFails, AppendTears, SyncLogs, SyncFails,
                   WriteReturns, logVars
    <2>2. CASE Pass
        BY <2>2, Frames
    <2>3. CASE Crashes
        BY <2>3 DEF Crashes, Crash
    <2>4. CASE NewDay
        BY <2>4 DEF NewDay, logVars, writerVars
    <2>. QED
        BY <2>1, <2>2, <2>3, <2>4 DEF Next
<1>WindowStep. ASSUME IInv, Next PROVE BatchInWindow'
    <2>. USE <1>WindowStep
    <2>. USE DEF IInv, BatchInWindow
    <2>1. today \in Int /\ passDay \in Int /\ \A e \in Events : EventDay[e] \in Int
        BY CalendarAssumption, ArchiveAssumption DEF TypeInv, TypeOK
    <2>2. CASE Write
        <3>1. CASE \E B \in SUBSET Events : WriteEvents(B)
            BY <2>1, <3>1, ArchiveAssumption DEF WriteEvents, InWindow, passVars
        <3>2. CASE batch' \subseteq batch
            BY <2>2, <3>2, Frames
        <3>. QED
            BY <2>2, <3>1, <3>2
               DEF Write, Append, AppendFails, AppendTears, SyncLogs, SyncFails,
                   WriteReturns, writerVars
    <2>3. CASE Pass
        <3>1. CASE PassStarts
            BY <2>1, <3>1 DEF PassStarts, writerVars
        <3>2. CASE passDay' = passDay
            BY <2>3, <3>2, Frames
        <3>. QED
            BY <2>3, <3>1, <3>2
               DEF Pass, ListClosed, ListDumping, ListMonths, PassEnds, NextLoop, PassStops,
                   Rotate, Claim, WriteDump, RemoveDumped, ExpireFile, RemoveMerged,
                   RotateFails, ClaimFails, DumpFails, MergeMonth, LeaveMonth, passVars
    <2>4. CASE Crashes
        BY <2>4 DEF Crashes, Crash
    <2>5. CASE NewDay
        BY <2>1, <2>5 DEF NewDay, writerVars, passVars
    <2>. QED
        BY <2>2, <2>3, <2>4, <2>5 DEF Next
<1>UnlinkedStep. ASSUME IInv, Next PROVE UnlinkedExpired'
    <2>. USE <1>UnlinkedStep
    <2>. USE DEF IInv, UnlinkedExpired
    <2>1. unlinked \subseteq Days
        BY DEF TypeInv, TypeOK
    <2>2. CASE unlinked' \subseteq unlinked
        BY <2>1, <2>2, PassDayGrows, CalendarAssumption
    <2>3. ASSUME NEW f \in todo, ExpireFile(f) PROVE UnlinkedExpired'
        <3>1. Expired(MonthEnd[f.day]) /\ passDay' = passDay
            BY <2>3 DEF ExpireFile, MonthOf
        <3>2. unlinked' \subseteq unlinked \union {f.day}
            BY <2>3 DEF ExpireFile
        <3>. QED
            BY <3>1, <3>2 DEF Expired
    <2>4. unlinked' \subseteq unlinked \/ \E f \in todo : ExpireFile(f)
        BY DEF Next, Write, WriteEvents, Append, AppendFails, AppendTears, SyncLogs, SyncFails,
               Pass, PassStarts, ListClosed, ListDumping, ListMonths, PassEnds, NextLoop, PassStops,
               Rotate, Claim, WriteDump, RemoveDumped, RemoveMerged, RotateFails, ClaimFails, DumpFails,
               MergeMonth, LeaveMonth, Crashes, Crash, NewDay, logVars
    <2>. QED
        BY <2>2, <2>3, <2>4
<1>AccountedStep. ASSUME IInv, Next PROVE BatchAccounted'
    <2>. USE <1>AccountedStep
    <2>. USE DEF IInv, BatchAccounted
    <2>1. CASE Write
        <3>1. CASE \E B \in SUBSET Events : WriteEvents(B)
            BY <3>1 DEF WriteEvents, SeenIsAcked
        <3>2. ASSUME NEW d \in Days, Append(d) PROVE BatchAccounted'
            <4>1. /\ batch' = batch /\ acked' = acked
                  /\ pending' = pending \ Ids(NewLines(d))
                  /\ appended' = appended \union NewLines(d)
                BY <3>2 DEF Append
            <4>2. Ids(appended') = Ids(appended) \union Ids(NewLines(d))
                BY <4>1 DEF Ids
            <4>. QED
                BY <4>1, <4>2
        <3>3. CASE batch' = {}
            BY <3>3
        <3>. QED
            BY <2>1, <3>1, <3>2, <3>3
               DEF Write, AppendFails, AppendTears, SyncLogs, SyncFails, WriteReturns
    <2>2. CASE Pass
        BY <2>2, Frames DEF Ids
    <2>3. CASE Crashes
        BY <2>3 DEF Crashes, Crash
    <2>4. CASE NewDay
        BY <2>4 DEF NewDay, writerVars, Ids
    <2>. QED
        BY <2>1, <2>2, <2>3, <2>4 DEF Next
<1>AppendedStep. ASSUME LateDays < RetentionDays, IInv, Next PROVE AppendedFiled'
    <2>. USE <1>AppendedStep
    <2>. USE DEF IInv, AppendedFiled
    <2>. content \in [Name -> SUBSET Line] /\ appended \subseteq Line /\ dir \subseteq Name
        BY DEF TypeInv, TypeOK
    <2>0. \A l \in Line : DayOf(l) \in Days /\ LogFile(DayOf(l)) \in Name
        BY NameFacts, ArchiveAssumption DEF Line, DayOf
    <2>1. CASE appended' = {}
        BY <2>1
    <2>2. ASSUME NEW d \in Days, Append(d) PROVE AppendedFiled'
        <3>1. d \notin unlinked
            BY <2>2, NewLinesTyped, BatchIsKept
               DEF Append, UnlinkedExpired, TypeInv, TypeOK
        <3>2. /\ dir' = dir \union {LogFile(d)}
              /\ content' = [content EXCEPT ![LogFile(d)] = @ \union NewLines(d)]
              /\ batch' = batch /\ appended' = appended \union NewLines(d)
            BY <2>2, <3>1 DEF Append, Open, Written
        <3>3. \A l \in NewLines(d) : l.id \in batch /\ DayOf(l) = d
            BY NewLinesTyped DEF DayOf, TypeInv, TypeOK
        <3>. QED
            BY <2>0, <3>2, <3>3, NameFacts DEF DayOf
    <2>3. ASSUME UNCHANGED <<batch, appended>>,
                 NEW f \in Name, Drops(f)
          PROVE  AppendedFiled'
        <3>1. ASSUME NEW l \in appended PROVE f # LogFile(DayOf(l))
            <4>1. l \in content[LogFile(DayOf(l))] /\ LogFile(DayOf(l)) \in dir
                OBVIOUS
            <4>2. LogFile(DayOf(l)).kind = "log" /\ MonthOf(LogFile(DayOf(l))) = MonthEnd[EventDay[l.id]]
                BY <2>0, NameFacts DEF MonthOf, DayOf
            <4>3. ~Expired(MonthEnd[EventDay[l.id]])
                BY BatchIsKept
            <4>. QED
                BY <2>3, <4>1, <4>2, <4>3 DEF Drops, Listed
        <3>. QED
            BY <2>0, <2>3, <3>1 DEF Drops, Removed, DayOf
    <2>4. ASSUME UNCHANGED <<batch, appended>>,
                 NEW f \in Name, NEW g \in Name, Moves(f, g)
          PROVE  AppendedFiled'
        <3>1. ASSUME NEW l \in appended PROVE f # LogFile(DayOf(l)) /\ g # LogFile(DayOf(l))
            BY <2>0, <2>4, NameFacts DEF Moves
        <3>. QED
            BY <2>0, <2>4, <3>1 DEF Moves, Renamed, DayOf
    <2>5. ASSUME NEW f \in todo, WriteDump(f) PROVE AppendedFiled'
        <3>1. Target(f).kind = "day"
            BY NameFacts DEF TypeInv, TypeOK
        <3>2. \A l \in appended : LogFile(DayOf(l)) # Target(f)
            BY <2>0, <3>1, NameFacts
        <3>. QED
            BY <2>0, <2>5, <3>2 DEF WriteDump, writerVars, DayOf
    <2>6. ASSUME NEW m \in Days, MergeMonth(m) PROVE AppendedFiled'
        <3>1. \A l \in appended : LogFile(DayOf(l)) # MonthFile(m)
            BY <2>0, NameFacts
        <3>. QED
            BY <2>0, <2>6, <3>1 DEF MergeMonth, writerVars, DayOf
    <2>7. CASE Write
        BY <2>1, <2>2, <2>7
           DEF Write, WriteEvents, AppendFails, AppendTears, SyncLogs, SyncFails, WriteReturns
    <2>8. CASE Pass
        <3>1. UNCHANGED <<dir, content>> => AppendedFiled'
            BY <2>8, Frames DEF DayOf
        <3>. QED
            BY <2>3, <2>4, <2>5, <2>6, <2>8, <3>1, PassMoves, Frames DEF TypeInv, TypeOK
    <2>9. CASE Crashes
        BY <2>1, <2>9 DEF Crashes, Crash
    <2>10. CASE NewDay
        BY <2>10 DEF NewDay, fileVars, writerVars, DayOf
    <2>. QED
        BY <2>7, <2>8, <2>9, <2>10 DEF Next
<1>1. CASE Next
    BY <1>1, NextType, <1>SeenStep, <1>WindowStep, <1>LinesStep, <1>MonthsStep, <1>UnlinkedStep,
       <1>AppendedStep, <1>AccountedStep, <1>TodoStep, DurableStep DEF IInv
<1>2. CASE UNCHANGED vars
    <2>. USE <1>2 DEF vars, fileVars, logVars, writerVars, passVars
    <2>1. TypeInv' /\ SeenIsAcked' /\ BatchInWindow' /\ TodoListed'
        BY NextType DEF IInv, SeenIsAcked, BatchInWindow, TodoListed, MonthOf, PastLate
    <2>2. LinesFiled' /\ MonthsFinal' /\ UnlinkedExpired'
        BY DEF IInv, LinesFiled, MonthsFinal, UnlinkedExpired, DayOf, MonthOf, MonthIsOpen,
               PastLate, Expired
    <2>3. AppendedFiled' /\ BatchAccounted' /\ AckedDurable'
        BY DEF IInv, AppendedFiled, BatchAccounted, AckedDurable, DayOf, Ids, Durable, Listed,
               Kept
    <2>. QED
        BY <2>1, <2>2, <2>3 DEF IInv
<1>. QED
    BY <1>1, <1>2

\* The invariant holds in every state, if the late window ends before the retention.
LEMMA Inductive == ASSUME LateDays < RetentionDays PROVE Spec => []IInv
    BY InitInv, NextInv, PTL DEF Spec

\* Once WriteEvents has returned nil for an event, a reader's listing holds
\* it until its month is RETENTION_DAYS old, whatever the pass is doing and
\* whatever failed or crashed since.
THEOREM AckedIsNeverLost == ASSUME LateDays < RetentionDays PROVE Spec => []AckedReadable
<1>1. IInv => AckedReadable
    BY DEF IInv, AckedDurable, AckedReadable, Durable, Readable, Ids
<1>. QED
    BY <1>1, Inductive, PTL

\* The log skips an event as a resend only if a WriteEvents returned nil for
\* it: one that failed is written when the pipeline retries it.
THEOREM SkippedWasAcked == ASSUME LateDays < RetentionDays PROVE Spec => []SeenIsAcked
<1>1. IInv => SeenIsAcked
    BY DEF IInv
<1>. QED
    BY <1>1, Inductive, PTL

\* A month once merged never gets another log, which is what lets projectOf
\* (files.go) leave its day files out of every listing.
THEOREM MergedMonthIsFinal == ASSUME LateDays < RetentionDays PROVE Spec => []MergedIsFinal
<1>1. IInv => MergedIsFinal
    BY DEF IInv, MonthsFinal, MergedIsFinal
<1>. QED
    BY <1>1, Inductive, PTL

\* No write opens a log in a month that a pass has deleted: the late window
\* ends before the retention does.
THEOREM ExpiredMonthStaysGone ==
    ASSUME LateDays < RetentionDays PROVE Spec => NoLogInExpiredMonth
<1>1. ASSUME IInv, [Next]_vars
      PROVE  [\A f \in dir' \ dir : f.kind = "log" => ~Expired(MonthOf(f))]_vars
    <2>1. CASE Write
        <3>1. ASSUME NEW d \in Days, NEW S \in SUBSET NewLines(d), LogGrows(d, S),
                     NEW f \in dir' \ dir
              PROVE  ~Expired(MonthOf(f))
            <4>1. PICK e \in batch : EventDay[e] = d
                BY <3>1 DEF LogGrows
            <4>2. ~Expired(MonthEnd[d])
                BY <1>1, <4>1, BatchIsKept DEF IInv
            <4>3. f = LogFile(d)
                BY <3>1 DEF LogGrows
            <4>. QED
                BY <4>2, <4>3, NameFacts DEF MonthOf
        <3>. QED
            BY <1>1, <2>1, <3>1, WriteGrows
    <2>2. CASE Pass
        <3>1. ASSUME NEW f, Drops(f) PROVE dir' \ dir = {}
            BY <3>1 DEF Drops, Removed
        <3>2. ASSUME NEW f, NEW g, Moves(f, g) PROVE \A h \in dir' \ dir : h.kind # "log"
            BY <3>2 DEF Moves, Renamed
        <3>3. ASSUME NEW f \in todo, WriteDump(f) PROVE \A h \in dir' \ dir : h.kind # "log"
            BY <1>1, <3>3, NameFacts DEF WriteDump, IInv, TypeInv, TypeOK
        <3>4. ASSUME NEW m \in Days, MergeMonth(m) PROVE \A h \in dir' \ dir : h.kind # "log"
            BY <3>4, NameFacts DEF MergeMonth
        <3>. QED
            BY <1>1, <2>2, <3>1, <3>2, <3>3, <3>4, PassMoves
    <2>3. CASE Crashes \/ NewDay
        BY <2>3 DEF Crashes, Crash, NewDay, fileVars
    <2>4. CASE UNCHANGED vars
        BY <2>4
    <2>. QED
        BY <1>1, <2>1, <2>2, <2>3, <2>4 DEF Next
<1>. QED
    BY <1>1, Inductive, PTL DEF Spec, NoLogInExpiredMonth

=============================================================================
