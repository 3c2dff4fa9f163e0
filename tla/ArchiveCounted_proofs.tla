------------------------- MODULE ArchiveCounted_proofs -------------------------
(***************************************************************************)
(* No line is counted twice, and the files implement the event store:      *)
(* what readers find is exact whatever step of a dump or a merge the pass  *)
(* is in, and wherever a crash stopped it.                                 *)
(***************************************************************************)
EXTENDS Archive_proofs

-----------------------------------------------------------------------------
(* What CountedOnce needs beside the invariant of AckedReadable: the lines *)
(* of unlisted files too, as the removal of a file may list another again. *)

\* The one other file that may hold a line of f: the target of a claimed log,
\* the month's file of a day file.  Either leaves f out of every listing.
Hides(g, f) ==
    \/ f.kind = "dumping" /\ g = Target(f)
    \/ f.kind = "day" /\ g = MonthFile(MonthOf(f))

LinesApart ==
    \A f, g \in Name : \A l \in content[f] :
        l \in content[g] => f = g \/ Hides(g, f) \/ Hides(f, g)

\* A hidden file holds no event that the file it hides behind lacks.
HiderHolds ==
    \A f \in Name : \A g \in dir : Hides(g, f) =>
        \A l \in content[f] : \E k \in content[g] : k.id = l.id

CInv == IInv /\ LinesApart /\ HiderHolds

\* CInv holds in every state, whatever the pass left half done.
LEMMA CountedInductive == ASSUME LateDays < RetentionDays PROVE Spec => []CInv
<1>CountedStep. ASSUME LateDays < RetentionDays, CInv, Next
                PROVE  LinesApart' /\ HiderHolds'
    <2>. USE <1>CountedStep
    <2>. USE DEF CInv, LinesApart, HiderHolds
    <2>. content \in [Name -> SUBSET Line] /\ dir \subseteq Name /\ todo \subseteq Name
        BY DEF IInv, TypeInv, TypeOK
    <2>. content' \in [Name -> SUBSET Line] /\ dir' \subseteq Name
        BY NextType DEF IInv, TypeInv, TypeOK
    <2>0. \A f \in Name : \A l \in content[f] : f \in dir /\ l.copy <= copies[l.id]
        BY DEF IInv, LinesFiled
    <2>a. \A f \in Name : /\ MonthOf(Target(f)) = MonthOf(f)
                          /\ MonthFile(MonthOf(f)) \in Name
                          /\ MonthOf(MonthFile(MonthOf(f))) = MonthOf(f)
        BY NameFacts, CalendarAssumption DEF MonthOf
    <2>b. \A f, g \in Name : Hides(g, f) => /\ f.kind \in {"dumping", "day"} /\ f # g
                                            /\ g.kind \in ParquetKinds /\ MonthOf(f) = MonthOf(g)
        BY <2>a, NameFacts DEF Hides, ParquetKinds
    \* A step that adds no line and takes none of a Parquet file it leaves there.
    <2>1. ASSUME dir' \subseteq dir,
                 \A f \in Name : content'[f] \subseteq content[f],
                 \A f \in dir' : f.kind \in ParquetKinds => content'[f] = content[f]
          PROVE  LinesApart' /\ HiderHolds'
        BY <2>1, <2>b DEF Hides
    <2>2. ASSUME NEW d \in Days, NEW S \in SUBSET NewLines(d), LogGrows(d, S)
          PROVE  LinesApart' /\ HiderHolds'
        <3>1. LogFile(d) \in Name /\ LogFile(d).kind = "log"
            BY NameFacts
        <3>2. \A f \in Name : content'[f] # content[f] =>
                 f = LogFile(d) /\ content'[f] = content[f] \union S
            BY <2>2, <3>1 DEF LogGrows
        <3>3. \A l \in S : \A f \in Name : l \notin content[f]
            <4>1. \A e \in Events : copies[e] \in Int
                BY ArchiveAssumption DEF IInv, TypeInv, TypeOK
            <4>2. \A l \in S : l.id \in Events /\ l.copy = copies[l.id] + 1
                BY NewLinesTyped DEF NewLines, IInv, TypeInv, TypeOK
            <4>. QED
                BY <2>0, <4>1, <4>2
        <3>4. \A g \in dir' : g.kind \in ParquetKinds => g \in dir /\ content'[g] = content[g]
            BY <2>2, <3>1, <3>2 DEF LogGrows, ParquetKinds
        <3>5. \A f \in Name : f.kind \in {"dumping", "day"} => content'[f] = content[f]
            BY <3>1, <3>2
        <3>6. LinesApart'
            BY <3>2, <3>3 DEF Hides
        <3>7. HiderHolds'
            BY <2>b, <3>4, <3>5 DEF Hides
        <3>. QED
            BY <3>6, <3>7
    <2>3. ASSUME NEW f \in Name, Drops(f) PROVE LinesApart' /\ HiderHolds'
        <3>1. dir' \subseteq dir /\ f \notin dir' /\ \A g \in Name : g # f => content'[g] = content[g]
            BY <2>3 DEF Drops, Removed
        <3>2. content'[f] = {}
            BY <2>3 DEF Drops, Removed
        <3>. QED
            BY <2>1, <3>1, <3>2
    <2>4. ASSUME NEW f \in Name, NEW g \in Name, Moves(f, g) PROVE LinesApart' /\ HiderHolds'
        <3>1. /\ dir' = (dir \ {f}) \union {g} /\ content' = [content EXCEPT ![g] = content[f], ![f] = {}]
              /\ f \in dir /\ g \notin dir
              /\ f.kind \in {"log", "closed"} /\ g.kind \in {"closed", "dumping"}
              /\ g.kind = "dumping" => Target(g) \notin dir
            BY <2>4 DEF Moves, Renamed
        <3>2. \A h \in Name : h # g => content'[h] = IF h = f THEN {} ELSE content[h]
            BY <3>1
        <3>3. content'[g] = content[f] /\ content[g] = {}
            BY <2>0, <3>1
        <3>4. \A h \in Name : ~Hides(h, f) /\ ~Hides(f, h) /\ ~Hides(g, h)
            BY <2>b, <3>1 DEF ParquetKinds
        <3>5. \A h \in Name : \A l \in content[f] : l \in content[h] => h = f
            BY <3>1, <3>4
        <3>6. LinesApart'
            BY <3>2, <3>3, <3>5 DEF Hides
        <3>7. \A h \in dir' : ~Hides(h, g)
            BY <3>1, <3>4, NameFacts DEF Hides
        <3>8. HiderHolds'
            BY <3>1, <3>2, <3>4, <3>7 DEF Hides
        <3>. QED
            BY <3>6, <3>8
    <2>5. ASSUME NEW f \in todo, WriteDump(f) PROVE LinesApart' /\ HiderHolds'
        <3>. DEFINE t == Target(f)
        <3>1. /\ f \in Name /\ f \in dir /\ f.kind = "dumping" /\ t \notin dir
              /\ dir' = dir \union {t} /\ content' = [content EXCEPT ![t] = FirstLines(content[f])]
            BY <2>5 DEF WriteDump, IInv, TodoListed
        <3>2. t \in Name /\ t.kind = "day" /\ MonthOf(t) = MonthOf(f)
            BY <2>a, <3>1, NameFacts
        <3>3. /\ content[t] = {} /\ content'[t] = FirstLines(content[f])
              /\ \A h \in Name : h # t => content'[h] = content[h]
            BY <2>0, <3>1, <3>2
        <3>4. \A h \in Name : h # f /\ Target(h) = t => h.kind # "dumping"
            BY <3>1, NameFacts DEF Name
        <3>5. \A h \in Name : MonthFile(MonthOf(h)) # t /\ Target(h) # f
            BY <3>1, <3>2, NameFacts
        <3>6. MonthFile(MonthOf(t)) \notin dir
            <4>1. MonthFile(MonthOf(f)).kind = "month" /\ MonthFile(MonthOf(f)).day = MonthOf(f)
                BY <3>1, NameFacts
            <4>. QED
                BY <3>1, <3>2, <4>1 DEF IInv, MonthsFinal, MonthIsOpen, LogKinds
        <3>. HIDE DEF t
        <3>7. LinesApart'
            <4>1. FirstLines(content[f]) \subseteq content[f]
                BY DEF FirstLines
            <4>2. \A h \in Name : \A l \in content[f] : l \in content[h] => h = f
                BY <2>0, <2>b, <3>1 DEF Hides, t, ParquetKinds
            <4>3. Hides(t, f)
                BY <3>1 DEF Hides, t
            <4>. QED
                BY <3>3, <4>1, <4>2, <4>3 DEF Hides
        <3>8. HiderHolds'
            <4>1. \A l \in content[f] : \E k \in FirstLines(content[f]) : k.id = l.id
                BY <3>1, FirstLineKept
            <4>2. \A h \in Name : Hides(t, h) => h = f
                BY <3>4, <3>5 DEF Hides
            <4>3. \A g \in dir : ~Hides(g, t)
                BY <3>2, <3>6 DEF Hides
            <4>4. f # t
                BY <3>1
            <4>. QED
                BY <3>1, <3>3, <4>1, <4>2, <4>3, <4>4, <2>b, <3>2 DEF Hides
        <3>. QED
            BY <3>7, <3>8
    <2>6. ASSUME NEW m \in Days, MergeMonth(m) PROVE LinesApart' /\ HiderHolds'
        <3>. DEFINE t == MonthFile(m)
                    days == DayFiles(todo, m)
        <3>1. /\ dir' = dir \union {t} /\ PastLate(m) /\ m \in MonthsOf(todo) /\ pc = "months"
              /\ content' = [content EXCEPT ![t] = Merged(content[t], days)]
              /\ ~MonthIsOpen(todo, m)
            BY <2>6 DEF MergeMonth, Mergeable
        <3>2. /\ t \in Name /\ t.kind = "month" /\ t.day = m
              /\ days \in SUBSET Name /\ \A f \in days : f.kind = "day" /\ MonthOf(f) = m
            BY NameFacts DEF DayFiles
        <3>3. \A f \in dir : MonthOf(f) = m => f \in todo
            BY <3>1 DEF IInv, TodoListed, MonthsOf
        <3>4. \A f \in dir : MonthOf(f) = m => f.kind # "dumping"
            BY <3>1, <3>3 DEF MonthIsOpen, LogKinds
        <3>5. /\ content'[t] = Merged(content[t], days)
              /\ \A h \in Name : h # t => content'[h] = content[h]
            BY <3>1, <3>2
        <3>6. \A l \in Merged(content[t], days) : l \in content[t] \/ \E f \in days : l \in content[f]
            BY DEF Merged
        <3>7. \A f \in days : Hides(t, f) /\ \A g \in Name : Hides(g, f) => g = t
            BY <3>2 DEF Hides
        <3>8. \A f \in Name : Hides(t, f) => f.kind = "day" /\ MonthOf(f) = m
            BY <3>2, NameFacts DEF Hides
        <3>9. \A f \in days : f \in dir
                 /\ \A l \in content[f] : \E k \in Merged(content[t], days) : k.id = l.id
            <4>1. \A f \in days : f \in dir
                BY DEF IInv, TodoListed, DayFiles
            <4>2. ASSUME NEW f \in days, NEW l \in content[f]
                  PROVE  \E k \in Merged(content[t], days) : k.id = l.id
                BY <3>2, MergeKeepsId DEF IInv
            <4>. QED
                BY <4>1, <4>2
        <3>10. \A f \in Name : Hides(t, f) /\ content[f] # {} => f \in days
            BY <2>0, <3>3, <3>8 DEF DayFiles
        <3>. HIDE DEF t, days
        <3>11. LinesApart'
            <4>1. ASSUME NEW g \in Name, g # t, NEW l \in content'[t], l \in content[g]
                  PROVE  Hides(g, t) \/ Hides(t, g)
                <5>1. CASE l \in content[t]
                    BY <3>2, <4>1, <5>1
                <5>2. ASSUME NEW f \in days, l \in content[f] PROVE Hides(t, g)
                    <6>1. f = g \/ Hides(g, f) \/ Hides(f, g)
                        BY <3>2, <4>1, <5>2
                    <6>2. ~Hides(f, g)
                        BY <2>0, <2>b, <3>2, <3>4, <4>1 DEF Hides
                    <6>. QED
                        BY <3>7, <4>1, <6>1, <6>2
                <5>. QED
                    BY <3>5, <3>6, <4>1, <5>1, <5>2
            <4>. QED
                BY <3>5, <4>1 DEF Hides
        <3>12. HiderHolds'
            BY <2>b, <3>1, <3>2, <3>5, <3>9, <3>10 DEF Hides, ParquetKinds
        <3>. QED
            BY <3>11, <3>12
    <2>7. ASSUME UNCHANGED <<dir, content>> PROVE LinesApart' /\ HiderHolds'
        BY <2>1, <2>7
    <2>8. CASE Write
        BY <2>2, <2>7, <2>8, WriteGrows
    <2>9. CASE Pass
        BY <2>3, <2>4, <2>5, <2>6, <2>7, <2>9, PassMoves
    <2>10. CASE Crashes
        <3>1. PICK lost \in SUBSET unsynced : \E T \in SUBSET dir : Crash(lost, T)
            BY <2>10 DEF Crashes
        <3>. QED
            <4>1. /\ dir' = dir
                  /\ content' = [f \in Name |-> IF f.kind \in LogKinds THEN content[f] \ lost
                                                                       ELSE content[f]]
                BY <3>1 DEF Crash
            <4>2. \A f \in Name : /\ content'[f] \subseteq content[f]
                                  /\ f.kind \in ParquetKinds => content'[f] = content[f]
                BY <4>1 DEF LogKinds, ParquetKinds
            <4>. QED
                BY <2>1, <4>1, <4>2
    <2>11. CASE NewDay
        BY <2>7, <2>11 DEF NewDay, fileVars
    <2>. QED
        BY <2>8, <2>9, <2>10, <2>11 DEF Next
<1>1. Init => LinesApart /\ HiderHolds
    BY DEF Init, LinesApart, HiderHolds
<1>2. CInv /\ [Next]_vars => CInv'
    <2>1. CASE Next
        BY <2>1, NextInv, <1>CountedStep DEF CInv
    <2>2. CASE UNCHANGED vars
        BY <2>2, NextInv DEF CInv, LinesApart, HiderHolds, Hides, vars, fileVars
    <2>. QED
        BY <2>1, <2>2
<1>. QED
    BY <1>1, <1>2, InitInv, PTL DEF Spec, CInv

-----------------------------------------------------------------------------
(* The theorems.                                                           *)

\* No line is in two of the files a reader lists: an event is never counted
\* again from the log its dump was made of, nor from the day files that its
\* month's file holds, wherever the pass, a failure or a crash left them.
THEOREM LinesCountedOnce == ASSUME LateDays < RetentionDays PROVE Spec => []CountedOnce
<1>1. CInv => CountedOnce
    <2>1. TypeInv => Listed(dir) \subseteq Name /\ content \in [Name -> SUBSET Line]
        BY DEF TypeInv, TypeOK, Listed
    <2>2. ASSUME NEW f \in Listed(dir), NEW g \in Listed(dir) PROVE ~Hides(g, f)
        BY <2>2 DEF Listed, Hides
    <2>. QED
        BY <2>1, <2>2 DEF CInv, IInv, LinesApart, CountedOnce
<1>. QED
    BY <1>1, CountedInductive, PTL

\* A day file beside its month's file, which a stopped merge left and every
\* listing leaves out, holds no event the month's file lacks.
THEOREM MonthFileHoldsDays == ASSUME LateDays < RetentionDays PROVE Spec => []MonthHoldsDays
<1>1. CInv => MonthHoldsDays
    BY DEF CInv, IInv, TypeInv, TypeOK, HiderHolds, Hides, MonthHoldsDays, Ids
<1>. QED
    BY <1>1, CountedInductive, PTL

\* A log that ends in a partial line is not open, so the writer cuts it
\* before it appends again: no event is glued to half of another.
THEOREM TornLogIsClosed == Spec => []TornIsClosed
<1>. DEFINE TInv == TypeInv /\ \A f \in torn : f.kind = "log" =>
                                f = LogFile(f.day) /\ f.day \notin handles
<1>1. Init => TInv
    BY InitType DEF Init
<1>2. TInv /\ [Next]_vars => TInv'
    <2>. SUFFICES ASSUME TInv, [Next]_vars PROVE TInv'
        OBVIOUS
    <2>1. TypeInv'
        BY NextType
    <2>2. ASSUME \A f \in torn' : f.kind = "log" => f \in torn, handles' \subseteq handles
          PROVE  TInv'
        BY <2>1, <2>2
    <2>3. ASSUME NEW d \in Days, handles' = handles \union {d},
                 torn' = IF d \in handles THEN torn ELSE torn \ {LogFile(d)}
          PROVE  TInv'
        BY <2>1, <2>3
    <2>4. ASSUME NEW d \in Days, handles' = handles \ {d},
                 torn' \subseteq torn \union {LogFile(d)}
          PROVE  TInv'
        BY <2>1, <2>4, NameFacts
    <2>5. CASE Write
        <3>1. ASSUME NEW d \in Days, Append(d) \/ AppendFails(d) PROVE TInv'
            BY <2>2, <2>3, <3>1 DEF Append, AppendFails, Open
        <3>2. ASSUME NEW d \in Days, NEW S, AppendTears(d, S) PROVE TInv'
            BY <2>4, <3>2 DEF AppendTears
        <3>. QED
            BY <2>2, <2>5, <3>1, <3>2
               DEF Write, WriteEvents, SyncLogs, SyncFails, fileVars, logVars
    <2>6. CASE Pass
        <3>1. handles' \subseteq handles
            BY <2>6
               DEF Pass, PassStarts, ListClosed, ListDumping, ListMonths, PassEnds, NextLoop,
                   PassStops, Rotate, Claim, WriteDump, RemoveDumped, ExpireFile, RemoveMerged,
                   RotateFails, ClaimFails, DumpFails, MergeMonth, LeaveMonth, logVars
        <3>2. ASSUME NEW f \in todo, Rotate(f) PROVE \A h \in torn' : h.kind = "log" => h \in torn
            BY <3>2 DEF Rotate, File
        <3>3. \A h \in torn' : h.kind = "log" => h \in torn
            BY <2>6, <3>2
               DEF Pass, PassStarts, ListClosed, ListDumping, ListMonths, PassEnds, NextLoop,
                   PassStops, Claim, WriteDump, RemoveDumped, ExpireFile, RemoveMerged,
                   RotateFails, ClaimFails, DumpFails, MergeMonth, LeaveMonth, fileVars
        <3>. QED
            BY <2>2, <3>1, <3>3
    <2>7. CASE Crashes
        BY <2>2, <2>7 DEF Crashes, Crash
    <2>8. CASE NewDay \/ UNCHANGED vars
        BY <2>2, <2>8 DEF NewDay, vars, fileVars, logVars
    <2>. QED
        BY <2>5, <2>6, <2>7, <2>8 DEF Next
<1>3. TInv => TornIsClosed
    BY DEF TornIsClosed
<1>. QED
    BY <1>1, <1>2, <1>3, PTL DEF Spec

-----------------------------------------------------------------------------
(* The refinement.                                                         *)

\* The files implement the event store: a step of the writer stores what it
\* acknowledges, no step of the pass, failure or crash changes what is found
\* of the acknowledged events but by removing expired ones, and none adds to
\* them and removes from them at once.
THEOREM FilesImplementStore == ASSUME LateDays < RetentionDays PROVE Spec => ImplementsEventStore
<1>. DEFINE Held(e) == \E f \in dir : \E l \in content[f] : l.id = e
            stored  == acked \intersect Ids(Readable)
\* An id found in any file is found in a listed one.
<1>1. CInv => \A e : e \in Ids(Readable) <=> Held(e)
    <2>. SUFFICES ASSUME CInv PROVE \A e : e \in Ids(Readable) <=> Held(e)
        OBVIOUS
    <2>. USE DEF CInv
    <2>1. dir \subseteq Name
        BY DEF IInv, TypeInv, TypeOK
    <2>2. ASSUME NEW e, Held(e) PROVE e \in Ids(Readable)
        <3>1. ASSUME NEW f \in Listed(dir), NEW l \in content[f] PROVE l.id \in Ids(Readable)
            BY <3>1 DEF Ids, Readable
        <3>2. ASSUME NEW f \in dir, f.kind \notin {"dumping", "day"}, NEW l \in content[f]
              PROVE  l.id \in Ids(Readable)
            BY <3>1, <3>2 DEF Listed
        <3>3. ASSUME NEW f \in dir, f.kind = "day", NEW l \in content[f]
              PROVE  l.id \in Ids(Readable)
            <4>1. CASE MonthFile(MonthOf(f)) \in dir
                <5>1. PICK k \in content[MonthFile(MonthOf(f))] : k.id = l.id
                    BY <2>1, <3>3, <4>1 DEF HiderHolds, Hides
                <5>. QED
                    BY <2>1, <3>2, <3>3, <4>1, <5>1, NameFacts
            <4>. QED
                BY <3>1, <3>3, <4>1 DEF Listed
        <3>4. ASSUME NEW f \in dir, f.kind = "dumping", NEW l \in content[f]
              PROVE  l.id \in Ids(Readable)
            <4>1. CASE Target(f) \in dir
                <5>1. PICK k \in content[Target(f)] : k.id = l.id
                    BY <2>1, <3>4, <4>1 DEF HiderHolds, Hides
                <5>. QED
                    BY <2>1, <3>3, <3>4, <4>1, <5>1, NameFacts
            <4>. QED
                BY <3>1, <3>4, <4>1 DEF Listed
        <3>. QED
            BY <2>2, <3>2, <3>3, <3>4
    <2>. QED
        BY <2>2 DEF Ids, Readable, Listed
<1>2. Init => Store!Init
    BY DEF Init, Store!Init
<1>. HIDE DEF Held
<1>3. CInv' => (\A e : e \in Ids(Readable) <=> Held(e))'
    BY <1>1, PTL
<1>4. ASSUME CInv, CInv', AckedReadable', [Next]_vars
      PROVE  [Store!Next]_<<today, stored>>
    <2>. USE <1>4
    <2>0. /\ \A e : (e \in Ids(Readable) <=> Held(e)) /\ (e \in Ids(Readable)' <=> Held(e)')
          /\ acked \subseteq Events /\ acked' \subseteq Events
          /\ content \in [Name -> SUBSET Line] /\ dir \subseteq Name /\ todo \subseteq Name
          /\ today \in Int
          /\ \A f \in Name : f \notin dir => content[f] = {}
        BY <1>1, <1>3 DEF CInv, IInv, TypeInv, TypeOK, LinesFiled
    <2>1. ASSUME today' = today, acked \subseteq acked', \A e : Held(e) => Held(e)'
          PROVE  Store!Next
        <3>1. stored \subseteq stored' /\ stored' \in SUBSET Events
            BY <2>0, <2>1
        <3>. QED
            BY <2>1, <3>1 DEF Store!Next, Store!Store
    <2>2. ASSUME today' = today, acked' = acked, \A e : Held(e)' => Held(e)
          PROVE  Store!Next
        <3>1. stored' \subseteq stored
            BY <2>0, <2>2
        <3>2. ASSUME NEW e \in stored \ stored' PROVE MonthEnd[EventDay[e]] + RetentionDays <= today
            <4>1. e \in acked' /\ e \notin Ids(Readable)' /\ e \in Events
                BY <2>0, <2>2
            <4>2. ~(MonthEnd[EventDay[e]] + RetentionDays > today)
                BY <2>2, <4>1 DEF AckedReadable, Kept
            <4>3. EventDay[e] \in Days /\ RetentionDays \in Int
                BY <4>1, ArchiveAssumption
            <4>4. MonthEnd[EventDay[e]] \in Int
                BY <4>3, CalendarAssumption
            <4>. QED
                BY <2>0, <4>2, <4>3, <4>4
        <3>3. stored \ stored' \in SUBSET { e \in stored :
                   [x \in Events |-> MonthEnd[EventDay[x]]][e] + RetentionDays <= today }
            BY <2>0, <3>2
        <3>. QED
            BY <2>2, <3>1, <3>3 DEF Store!Next, Store!Expire
    <2>3. CASE Write
        <3>1. today' = today /\ acked \subseteq acked'
            BY <2>3, Frames
               DEF Write, WriteEvents, Append, AppendFails, AppendTears, SyncLogs, SyncFails,
                   WriteReturns
        <3>2. ASSUME NEW d \in Days, NEW S \in SUBSET NewLines(d), LogGrows(d, S)
              PROVE  \A e : Held(e) => Held(e)'
            BY <2>0, <3>2, NameFacts DEF LogGrows, Held
        <3>3. UNCHANGED <<dir, content>> => \A e : Held(e) => Held(e)'
            BY DEF Held
        <3>. QED
            BY <2>1, <2>3, <3>1, <3>2, <3>3, WriteGrows DEF CInv
    <2>4. CASE Pass
        <3>1. today' = today /\ acked' = acked
            BY <2>4, Frames
        <3>2. ASSUME NEW f \in Name, Drops(f) PROVE \A e : Held(e)' => Held(e)
            BY <2>0, <3>2 DEF Drops, Removed, Held
        <3>3. ASSUME NEW f \in Name, NEW g \in Name, Moves(f, g)
              PROVE  \A e : Held(e)' => Held(e)
            BY <2>0, <3>3 DEF Moves, Renamed, Held
        <3>4. ASSUME NEW f \in todo, WriteDump(f) PROVE \A e : Held(e)' => Held(e)
            BY <2>0, <3>4, NameFacts DEF WriteDump, FirstLines, CInv, IInv, TodoListed, Held
        <3>5. ASSUME NEW m \in Days, MergeMonth(m) PROVE \A e : Held(e)' => Held(e)
            <4>1. /\ dir' = dir \union {MonthFile(m)}
                  /\ content' = [content EXCEPT ![MonthFile(m)] =
                                   Merged(content[MonthFile(m)], DayFiles(todo, m))]
                BY <3>5 DEF MergeMonth
            <4>2. DayFiles(todo, m) \subseteq dir
                BY DEF DayFiles, CInv, IInv, TodoListed
            <4>3. \A l \in Merged(content[MonthFile(m)], DayFiles(todo, m)) :
                     Held(l.id)
                BY <2>0, <4>2, NameFacts DEF Merged, Held
            <4>. QED
                BY <2>0, <4>1, <4>3, NameFacts DEF Held
        <3>6. UNCHANGED <<dir, content>> => \A e : Held(e)' => Held(e)
            BY DEF Held
        <3>. QED
            BY <2>0, <2>2, <2>4, <3>1, <3>2, <3>3, <3>4, <3>5, <3>6, PassMoves DEF CInv
    <2>5. CASE Crashes
        <3>1. PICK lost \in SUBSET unsynced : \E T \in SUBSET dir : Crash(lost, T)
            BY <2>5 DEF Crashes
        <3>2. /\ today' = today /\ acked' = acked /\ dir' = dir
              /\ content' = [f \in Name |-> IF f.kind \in LogKinds THEN content[f] \ lost
                                                                   ELSE content[f]]
            BY <3>1 DEF Crash
        <3>3. \A e : Held(e)' => Held(e)
            BY <2>0, <3>2 DEF Held
        <3>. QED
            BY <2>2, <3>2, <3>3
    <2>6. CASE NewDay
        BY <2>6 DEF NewDay, fileVars, writerVars, Store!Next, Store!NewDay, Readable, Ids, Listed
    <2>7. CASE UNCHANGED vars
        BY <2>7 DEF vars, fileVars, writerVars, Readable, Ids, Listed
    <2>. QED
        BY <2>3, <2>4, <2>5, <2>6, <2>7 DEF Next
<1>. QED
    BY <1>2, <1>4, CountedInductive, AckedIsNeverLost, PTL
       DEF Spec, ImplementsEventStore, Store!Spec

=============================================================================
