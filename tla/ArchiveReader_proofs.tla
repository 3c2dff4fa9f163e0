-------------------------- MODULE ArchiveReader_proofs -------------------------
(***************************************************************************)
(* A query beside the writer and the daily pass reads no line twice, and   *)
(* what it misses was in a log that was renamed and came back.             *)
(***************************************************************************)
EXTENDS ArchiveReader, ArchiveCounted_proofs

-----------------------------------------------------------------------------
(* The inductive invariant of a query.                                     *)

\* The one pass that may run beside the attempt has come past the step that
\* creates files of kind k: no file of that kind will be created again.
Past(k) ==
    /\ overlapped
    /\ k = "closed"  => pc \in {"claim", "dump", "months", "remove", "idle"}
    /\ k = "dumping" => pc \in {"dump", "months", "remove", "idle"}
    /\ k = "day"     => pc \in {"months", "remove", "idle"}

\* A listed name that is gone does not come back, unless it is a log's.
GoneStaysGone ==
    \A f \in listing \ dir :
        /\ f.kind \in {"closed", "dumping", "day"} => Past(f.kind)
        /\ f.kind = "month" => Expired(f.day)

\* No listed file hides another one, and none holds a line read already.
ListedApart == \A f, g \in listing : ~Hides(g, f)
ReadOnce    == \A x \in got : \A f \in listing : x[2] \notin content[f]

\* A line read is one of the copies appended.
GotFiled == \A x \in got : x[2].copy <= copies[x[2].id]

\* The lines of a log are of its day, whatever it is renamed to.
LogsByDay ==
    \A f \in Name : f.kind \in LogKinds => \A l \in content[f] : DayOf(l) = f.day

\* An event the attempt promised is read, or in a file yet to read, or was in
\* one that is gone, or was in a log that is another one by now.
PromiseTracked ==
    \A e \in promised : Kept(e) =>
        \/ \E x \in got : x[2].id = e
        \/ \E f \in listing : e \in Ids(content[f])
        \/ \E f \in listing \ dir : f.kind \in LogKinds => f.day = EventDay[e]
        \/ \E f \in reborn : f.kind \in LogKinds /\ f.day = EventDay[e]

RInv ==
    /\ ReaderTypeOK /\ LogsByDay
    /\ query # "reading" => listing = {}
    /\ query = "reading" =>
         /\ pc # "idle" => overlapped
         /\ GoneStaysGone /\ ListedApart
    /\ ReadOnce /\ GotFiled /\ AnswerCountsOnce
    /\ query # "idle" => PromiseTracked

-----------------------------------------------------------------------------

\* What a step of the writer, the pass or the clock does to a file: what is
\* there before and after it only grows, by new lines; what it creates and
\* what it removes are of the kinds its place in the pass allows.
FilesStep ==
    /\ \A f \in dir : f \in dir' => content[f] \subseteq content'[f]
    /\ \A f \in dir : \A l \in content'[f] : l \in content[f] \/ l.copy = copies[l.id] + 1
    /\ \A f \in dir' \ dir :
         /\ f.kind = "log"     => \A l \in content'[f] : l.copy = copies[l.id] + 1
         /\ f.kind = "closed"  => pc = "rotate"
         /\ f.kind = "dumping" => pc = "claim"
         /\ f.kind = "day"     => pc = "dump"
         /\ f.kind = "month"   => ~Expired(f.day)
    /\ \A f \in dir \ dir' :
         /\ pc # "idle" /\ pc' = pc
         /\ f.kind = "closed"  => pc \in {"claim", "months"}
         /\ f.kind = "dumping" => pc \in {"dump", "months"}
         /\ f.kind = "day"     => pc \in {"months", "remove"}
         /\ f.kind = "month"   => Expired(f.day)

\* The parts above hold beside a query, whatever the writer and one pass do.
LEMMA ReaderInductive ==
    ASSUME LateDays < RetentionDays
    PROVE  ReaderSpec => Spec /\ []RInv
<1>BesideFiles. ASSUME LateDays < RetentionDays, CInv, Write \/ Pass \/ NewDay
                PROVE  FilesStep
    <2>. USE <1>BesideFiles
    <2>. USE DEF CInv
    <2>. content \in [Name -> SUBSET Line] /\ dir \subseteq Name /\ todo \subseteq Name
        BY DEF IInv, TypeInv, TypeOK
    <2>0. \A f \in Name : f \notin dir => content[f] = {}
        BY DEF IInv, LinesFiled
    <2>1. CASE UNCHANGED <<dir, content>>
        BY <2>1 DEF FilesStep
    <2>2. ASSUME NEW d \in Days, NEW S \in SUBSET NewLines(d), LogGrows(d, S) PROVE FilesStep
        <3>1. LogFile(d) \in Name /\ LogFile(d).kind = "log"
            BY NameFacts
        <3>2. \A l \in S : l.copy = copies[l.id] + 1
            BY DEF NewLines
        <3>. QED
            BY <2>0, <2>2, <3>1, <3>2 DEF LogGrows, FilesStep
    <2>3. ASSUME NEW f \in Name, Drops(f) PROVE FilesStep
        <3>1. f \in dir /\ f.kind = "month" => MonthOf(f) = f.day
            BY DEF IInv, MonthsFinal, MonthOf
        <3>2. /\ dir' = dir \ {f} /\ content' = [content EXCEPT ![f] = {}]
              /\ f \in dir /\ pc' = pc
            BY <2>3 DEF Drops, Removed
        <3>3. /\ \/ pc = "claim"  /\ f.kind = "closed"
                 \/ pc = "dump"   /\ f.kind = "dumping"
                 \/ pc = "months" /\ Expired(MonthOf(f))
                 \/ pc = "remove" /\ f.kind = "day"
              /\ f.kind = "month" => Expired(f.day)
            BY <2>3, <3>1 DEF Drops
        <3>. QED
            BY <3>2, <3>3 DEF FilesStep
    <2>4. ASSUME NEW f \in Name, NEW g \in Name, Moves(f, g) PROVE FilesStep
        BY <2>4 DEF Moves, Renamed, FilesStep
    <2>5. ASSUME NEW f \in todo, WriteDump(f) PROVE FilesStep
        BY <2>5, NameFacts DEF WriteDump, FilesStep
    <2>6. ASSUME NEW m \in Days, MergeMonth(m) PROVE FilesStep
        <3>. DEFINE t == MonthFile(m)
                    days == DayFiles(todo, m)
        <3>1. t \in Name /\ t.kind = "month" /\ t.day = m
            BY NameFacts
        <3>2. /\ dir' = dir \union {t} /\ ~Expired(m)
              /\ content' = [content EXCEPT ![t] = Merged(content[t], days)]
            BY <2>6 DEF MergeMonth, Mergeable
        <3>3. t \in dir => Merged(content[t], days) = content[t]
            <4>1. \A f \in days : f \in Name /\ Hides(t, f)
                BY DEF DayFiles, Hides
            <4>. QED
                BY <4>1 DEF Merged, HiderHolds, Ids
        <3>. HIDE DEF t, days
        <3>. QED
            BY <3>1, <3>2, <3>3 DEF FilesStep
    <2>7. CASE Write
        BY <2>1, <2>2, <2>7, WriteGrows
    <2>8. CASE Pass
        BY <2>1, <2>3, <2>4, <2>5, <2>6, <2>8, PassMoves
    <2>9. CASE NewDay
        BY <2>1, <2>9 DEF NewDay, fileVars
    <2>. QED
        BY <2>7, <2>8, <2>9
<1>1. ReaderSpec => Spec
    <2>1. [ReaderNext]_<<vars, readerVars>> => [Next]_vars
        BY DEF ReaderNext, Query, QueryLists, QueryReads, QueryMisses, QueryAnswers, Beside,
               Next, readerVars
    <2>. QED
        BY <2>1, PTL DEF ReaderSpec, Spec
<1>2. Init /\ ReaderInit => RInv
    BY DEF Init, ReaderInit, RInv, ReaderTypeOK, LogsByDay, GoneStaysGone, ListedApart, ReadOnce,
           GotFiled, AnswerCountsOnce
<1>3. ASSUME CInv, CInv', AckedReadable, RInv, [ReaderNext]_<<vars, readerVars>>
      PROVE  RInv'
    <2>. USE <1>3 DEF RInv
    <2>0. /\ content \in [Name -> SUBSET Line] /\ content' \in [Name -> SUBSET Line]
          /\ dir \subseteq Name /\ dir' \subseteq Name
          /\ listing \subseteq Name /\ reborn \subseteq Name /\ got \subseteq Name \X Line
          /\ \A f \in Name : f \notin dir => content[f] = {}
        BY DEF CInv, IInv, TypeInv, TypeOK, LinesFiled, ReaderTypeOK
    <2>1. LogsByDay'
        <3>. USE DEF LogsByDay
        <3>1. CASE UNCHANGED content
            BY <3>1 DEF DayOf
        <3>2. ASSUME NEW d \in Days, NEW S \in SUBSET NewLines(d), LogGrows(d, S) PROVE LogsByDay'
            <4>1. \A l \in S : DayOf(l) = d
                BY NewLinesTyped DEF CInv, IInv, DayOf
            <4>. QED
                BY <2>0, <3>2, <4>1, NameFacts DEF LogGrows, DayOf
        <3>3. ASSUME NEW f \in Name, Drops(f) PROVE LogsByDay'
            BY <2>0, <3>3 DEF Drops, Removed, DayOf
        <3>4. ASSUME NEW f \in Name, NEW g \in Name, Moves(f, g) PROVE LogsByDay'
            <4>1. f.kind \in LogKinds /\ g.day = f.day
                BY <3>4 DEF Moves, LogKinds
            <4>2. content' = [content EXCEPT ![g] = content[f], ![f] = {}]
                BY <3>4 DEF Moves, Renamed
            <4>. QED
                BY <2>0, <4>1, <4>2 DEF DayOf
        <3>5. ASSUME NEW f \in todo, WriteDump(f) PROVE LogsByDay'
            <4>1. f \in Name
                BY DEF CInv, IInv, TypeInv, TypeOK
            <4>. QED
                BY <2>0, <3>5, <4>1, NameFacts DEF WriteDump, LogKinds, DayOf
        <3>6. ASSUME NEW m \in Days, MergeMonth(m) PROVE LogsByDay'
            BY <2>0, <3>6, NameFacts DEF MergeMonth, LogKinds, DayOf
        <3>7. CASE Write
            BY <3>1, <3>2, <3>7, WriteGrows DEF CInv
        <3>8. CASE Pass
            <4>1. todo \subseteq Name
                BY DEF CInv, IInv, TypeInv, TypeOK
            <4>. QED
                BY <3>1, <3>3, <3>4, <3>5, <3>6, <3>8, <4>1, PassMoves DEF CInv
        <3>9. CASE Crashes
            BY <2>0, <3>9 DEF Crashes, Crash, DayOf
        <3>. QED
            BY <3>1, <3>7, <3>8, <3>9
               DEF ReaderNext, Query, QueryLists, QueryReads, QueryMisses, QueryAnswers, Beside,
                   NewDay, vars, fileVars
    <2>2. CASE QueryLists
        <3>1. /\ query' = "reading" /\ listing' = Listed(dir) /\ got' = {} /\ reborn' = {}
              /\ promised' = acked /\ overlapped' = (pc # "idle") /\ UNCHANGED vars
            BY <2>2 DEF QueryLists
        <3>2. dir' = dir /\ pc' = pc /\ acked' = acked /\ content' = content
              /\ today' = today
            BY <3>1 DEF vars, fileVars, passVars, writerVars
        <3>3. Listed(dir) \subseteq dir /\ \A f, g \in Listed(dir) : ~Hides(g, f)
            BY DEF Listed, Hides
        <3>4. ReaderTypeOK'
            BY <2>0, <3>1, <3>2, <3>3 DEF ReaderTypeOK
        <3>5. GoneStaysGone' /\ ListedApart'
            BY <3>1, <3>2, <3>3 DEF GoneStaysGone, ListedApart, Hides
        <3>6. ReadOnce' /\ GotFiled' /\ AnswerCountsOnce'
            BY <3>1 DEF ReadOnce, GotFiled, AnswerCountsOnce
        <3>7. PromiseTracked'
            <4>1. ASSUME NEW e \in acked, Kept(e) PROVE \E f \in Listed(dir) : e \in Ids(content[f])
                BY <4>1 DEF AckedReadable, Readable, Ids
            <4>2. \A e : Kept(e)' => Kept(e)
                BY <3>2 DEF Kept
            <4>. QED
                BY <3>1, <3>2, <4>1, <4>2 DEF PromiseTracked, Ids
        <3>. QED
            BY <2>1, <3>1, <3>2, <3>4, <3>5, <3>6, <3>7
    <2>3. ASSUME NEW f \in listing, QueryReads(f) PROVE RInv'
        <3>1. /\ query = "reading" /\ f \in dir /\ f \in Name
              /\ got' = got \union { <<f, l>> : l \in content[f] }
              /\ listing' = listing \ {f}
              /\ UNCHANGED <<vars, promised, reborn, overlapped, query>>
            BY <2>0, <2>3 DEF QueryReads
        <3>2. UNCHANGED <<dir, content, copies, pc, acked, today, passDay>>
            BY <3>1 DEF vars, fileVars, passVars, logVars, writerVars
        <3>3. ReaderTypeOK'
            BY <2>0, <3>1, <3>2 DEF ReaderTypeOK
        <3>4. GoneStaysGone' /\ ListedApart'
            BY <3>1, <3>2 DEF GoneStaysGone, ListedApart, Hides, Past, Expired
        <3>5. \A x \in got' : x \in got \/ \E l \in content[f] : x = <<f, l>>
            BY <3>1
        <3>6. ReadOnce'
            <4>1. ASSUME NEW l \in content[f], NEW g \in listing, g # f PROVE l \notin content[g]
                BY <2>0, <4>1 DEF ListedApart, CInv, LinesApart
            <4>. QED
                BY <3>1, <3>2, <3>5, <4>1 DEF ReadOnce
        <3>7. GotFiled'
            <4>1. \A l \in content[f] : l.copy <= copies[l.id]
                BY <3>1 DEF CInv, IInv, LinesFiled
            <4>. QED
                BY <3>2, <3>5, <4>1 DEF GotFiled
        <3>8. AnswerCountsOnce'
            BY <3>5 DEF AnswerCountsOnce, ReadOnce
        <3>9. PromiseTracked'
            <4>1. ASSUME NEW e \in promised, Kept(e) PROVE
                    \/ \E x \in got' : x[2].id = e
                    \/ \E g \in listing' : e \in Ids(content[g])
                    \/ \E g \in listing' \ dir : g.kind \in LogKinds => g.day = EventDay[e]
                    \/ \E g \in reborn : g.kind \in LogKinds /\ g.day = EventDay[e]
                <5>1. CASE \E x \in got : x[2].id = e
                    BY <3>1, <5>1
                <5>2. CASE e \in Ids(content[f])
                    <6>1. PICK l \in content[f] : l.id = e
                        BY <5>2 DEF Ids
                    <6>2. <<f, l>> \in got' /\ <<f, l>>[2].id = e
                        BY <3>1, <6>1
                    <6>. QED
                        BY <6>2
                <5>. QED
                    BY <3>1, <4>1, <5>1, <5>2 DEF PromiseTracked
            <4>2. \A e : Kept(e)' => Kept(e)
                BY <3>2 DEF Kept
            <4>. QED
                BY <3>1, <3>2, <4>1, <4>2 DEF PromiseTracked, Ids
        <3>. QED
            BY <2>1, <3>1, <3>2, <3>3, <3>4, <3>6, <3>7, <3>8, <3>9
    <2>4. CASE AttemptEnds
        BY <2>1, <2>4
           DEF AttemptEnds, ReaderTypeOK, ReadOnce, GotFiled, AnswerCountsOnce
    <2>5. CASE QueryAnswers
        BY <2>0, <2>1, <2>5
           DEF QueryAnswers, ReaderTypeOK, ReadOnce, GotFiled, AnswerCountsOnce, PromiseTracked,
               Kept, vars, fileVars, logVars, writerVars, Ids
    <2>6. CASE Beside
        <3>1. /\ Write \/ Pass \/ NewDay
              /\ OnePass /\ reborn' = Reborn
              /\ overlapped' = (overlapped \/ (query = "reading" /\ pc' # "idle"))
              /\ UNCHANGED <<listing, got, promised, query>>
            BY <2>6 DEF Beside
        <3>2. FilesStep
            BY <3>1, <1>BesideFiles
        <3>3. /\ acked \subseteq acked' /\ today \in Int /\ today' \in Int /\ today' >= today
              /\ \A e \in Events : copies[e] \in Int /\ copies'[e] \in Int /\ copies'[e] >= copies[e]
            <4>1. /\ today \in Int /\ today' \in Int
                  /\ \A e \in Events : copies[e] \in Int /\ copies'[e] \in Int
                BY ArchiveAssumption DEF CInv, IInv, TypeInv, TypeOK
            <4>2. CASE Write
                <5>1. acked \subseteq acked' /\ today' = today
                    BY <4>2, Frames
                       DEF Write, WriteEvents, Append, AppendFails, AppendTears, SyncLogs, SyncFails,
                           WriteReturns
                <5>2. \A e \in Events : copies'[e] >= copies[e]
                    BY <4>1, <4>2, WriteGrows DEF LogGrows, CInv
                <5>. QED
                    BY <4>1, <5>1, <5>2
            <4>3. CASE Pass
                BY <4>1, <4>3, Frames
            <4>4. CASE NewDay
                BY <4>1, <4>4 DEF NewDay, logVars, writerVars
            <4>. QED
                BY <3>1, <4>2, <4>3, <4>4
        <3>4. /\ query = "reading" => \A k \in Kinds : Past(k) => Past(k)'
              /\ \A m \in Days : Expired(m) => Expired(m)'
              /\ query = "reading" /\ pc' # "idle" => overlapped'
            <4>1. query = "reading" /\ overlapped => (pc = "idle" => pc' = "idle")
                BY <3>1 DEF OnePass
            <4>2. \/ pc' = pc \/ pc = "idle" \/ pc' = "idle"
                  \/ pc = "rotate" /\ pc' = "claim"
                  \/ pc = "claim" /\ pc' = "dump"
                  \/ pc = "dump" /\ pc' = "months"
                  \/ pc \in {"months", "remove"} /\ pc' \in {"months", "remove"}
                BY <3>1, Frames
                   DEF Pass, PassStarts, ListClosed, ListDumping, ListMonths, PassEnds, NextLoop,
                       PassStops, Rotate, Claim, WriteDump, RemoveDumped, ExpireFile, RemoveMerged,
                       RotateFails, ClaimFails, DumpFails, MergeMonth, LeaveMonth, NewDay, passVars
            <4>3. query = "reading" => \A k \in Kinds : Past(k) => Past(k)'
                BY <3>1, <4>1, <4>2 DEF Past
            <4>. QED
                BY <3>1, <4>3, PassDayGrows DEF CInv, Next
        <3>5. ReaderTypeOK'
            BY <2>0, <3>1, <3>2, <3>3 DEF ReaderTypeOK, FilesStep, Reborn
        <3>6. query = "reading" => GoneStaysGone' /\ ListedApart'
            <4>1. ASSUME query = "reading", NEW f \in listing, f \notin dir'
                  PROVE  /\ f.kind \in {"closed", "dumping", "day"} => Past(f.kind)'
                         /\ f.kind = "month" => Expired(f.day)'
                <5>1. f \in Name /\ f.kind \in Kinds /\ f.day \in Days
                    BY <2>0, NameFacts
                <5>2. CASE f \notin dir
                    BY <3>4, <4>1, <5>1, <5>2 DEF GoneStaysGone
                <5>3. CASE f \in dir
                    <6>1. /\ pc' = pc /\ pc # "idle"
                          /\ f.kind = "closed"  => pc \in {"claim", "months"}
                          /\ f.kind = "dumping" => pc \in {"dump", "months"}
                          /\ f.kind = "day"     => pc \in {"months", "remove"}
                          /\ f.kind = "month"   => Expired(f.day)
                        BY <3>2, <4>1, <5>3 DEF FilesStep
                    <6>2. overlapped'
                        BY <3>4, <4>1, <6>1
                    <6>. QED
                        BY <3>4, <5>1, <6>1, <6>2 DEF Past
                <5>. QED
                    BY <5>2, <5>3
            <4>. QED
                BY <3>1, <4>1 DEF GoneStaysGone, ListedApart, Hides
        <3>7. ASSUME NEW f \in listing, f \in dir', f \notin dir
              PROVE  f.kind = "log" /\ \A l \in content'[f] : l.copy = copies[l.id] + 1
            <4>1. f.kind \in Kinds
                BY <2>0, NameFacts
            <4>2. /\ f.kind \in {"closed", "dumping", "day"} => Past(f.kind)
                  /\ f.kind = "month" => Expired(f.day)
                BY <3>7 DEF GoneStaysGone
            <4>3. /\ f.kind = "log"     => \A l \in content'[f] : l.copy = copies[l.id] + 1
                  /\ f.kind = "closed"  => pc = "rotate"
                  /\ f.kind = "dumping" => pc = "claim"
                  /\ f.kind = "day"     => pc = "dump"
                  /\ f.kind = "month"   => ~Expired(f.day)
                BY <3>2, <3>7 DEF FilesStep
            <4>. QED
                BY <4>1, <4>2, <4>3 DEF Past, Kinds
        <3>8. ReadOnce' /\ GotFiled' /\ AnswerCountsOnce'
            <4>1. \A x \in got : x[2] \in Line /\ x[2].id \in Events /\ x[2].copy \in Int
                BY <2>0 DEF Line
            <4>2. ASSUME NEW x \in got, NEW f \in listing PROVE x[2] \notin content'[f]
                <5>1. x[2] \notin content[f] /\ x[2].copy <= copies[x[2].id]
                    BY DEF ReadOnce, GotFiled
                <5>2. x[2].copy # copies[x[2].id] + 1
                    BY <3>3, <4>1, <5>1
                <5>3. CASE f \in dir
                    BY <3>2, <5>1, <5>2, <5>3 DEF FilesStep
                <5>4. CASE f \notin dir /\ f \in dir'
                    BY <3>7, <5>2, <5>4
                <5>5. CASE f \notin dir'
                    BY <2>0, <5>5 DEF CInv, IInv, LinesFiled
                <5>. QED
                    BY <5>3, <5>4, <5>5
            <4>. QED
                BY <3>1, <3>3, <4>1, <4>2 DEF ReadOnce, GotFiled, AnswerCountsOnce
        <3>9. query # "idle" => PromiseTracked'
            <4>1. ASSUME query # "idle", NEW e \in promised, Kept(e)'
                  PROVE  \/ \E x \in got : x[2].id = e
                         \/ \E f \in listing : e \in Ids(content'[f])
                         \/ \E f \in listing \ dir' : f.kind \in LogKinds => f.day = EventDay[e]
                         \/ \E f \in reborn' : f.kind \in LogKinds /\ f.day = EventDay[e]
                <5>1. Kept(e)
                    <6>1. e \in Events
                        BY <4>1 DEF ReaderTypeOK, CInv, IInv, TypeInv, TypeOK
                    <6>2. EventDay[e] \in Days /\ RetentionDays \in Int
                        BY <6>1, ArchiveAssumption
                    <6>3. MonthEnd[EventDay[e]] \in Int
                        BY <6>2, CalendarAssumption
                    <6>. QED
                        BY <3>3, <4>1, <6>2, <6>3 DEF Kept
                <5>2. reborn \subseteq reborn'
                    BY <3>1 DEF Reborn
                <5>3. ASSUME NEW f \in listing, e \in Ids(content[f])
                      PROVE  \/ e \in Ids(content'[f])
                             \/ f \notin dir' /\ (f.kind \in LogKinds => f.day = EventDay[e])
                    <6>1. PICK l \in content[f] : l.id = e
                        BY <5>3 DEF Ids
                    <6>2. f \in Name /\ f \in dir
                        BY <2>0, <6>1
                    <6>3. f.kind \in LogKinds => f.day = EventDay[e]
                        BY <6>1, <6>2 DEF LogsByDay, DayOf
                    <6>4. f \in dir' => l \in content'[f]
                        BY <3>2, <6>1, <6>2 DEF FilesStep
                    <6>. QED
                        BY <6>1, <6>3, <6>4 DEF Ids
                <5>4. ASSUME NEW f \in listing, f \notin dir, f.kind \in LogKinds => f.day = EventDay[e]
                      PROVE  \/ f \notin dir'
                             \/ f \in reborn' /\ f.kind \in LogKinds /\ f.day = EventDay[e]
                    BY <3>1, <3>7, <5>4 DEF Reborn, LogKinds
                <5>. QED
                    BY <4>1, <5>1, <5>2, <5>3, <5>4 DEF PromiseTracked
            <4>. QED
                BY <3>1, <4>1 DEF PromiseTracked, Ids
        <3>. QED
            BY <2>1, <3>1, <3>4, <3>5, <3>6, <3>8, <3>9
    <2>7. CASE UNCHANGED <<vars, readerVars>>
        BY <2>0, <2>1, <2>7
           DEF readerVars, ReaderTypeOK, ReadOnce, GotFiled, AnswerCountsOnce, PromiseTracked,
               GoneStaysGone, ListedApart, Hides, Past, Expired,
               Kept, vars, fileVars, logVars, writerVars, passVars, Ids
    <2>. QED
        BY <2>2, <2>3, <2>4, <2>5, <2>6, <2>7 DEF ReaderNext, Query, QueryMisses
<1>. QED
    BY <1>1, <1>2, <1>3, CountedInductive, AckedIsNeverLost, PTL DEF ReaderSpec

-----------------------------------------------------------------------------
(* The theorems.                                                           *)

\* No line is read twice by one query, whatever the writer and the pass do
\* between two of its reads.
THEOREM QueryReadsOnce ==
    ASSUME LateDays < RetentionDays PROVE ReaderSpec => []AnswerCountsOnce
<1>1. RInv => AnswerCountsOnce
    BY DEF RInv
<1>. QED
    BY <1>1, ReaderInductive, PTL

\* An acknowledged event that an answer misses was in a log renamed after the
\* query listed it, whose name a later event brought back before it was read.
THEOREM QueryMissesOnlyReborn ==
    ASSUME LateDays < RetentionDays PROVE ReaderSpec => []AnswerMissesOnlyReborn
<1>1. RInv => AnswerMissesOnlyReborn
    BY DEF RInv, PromiseTracked, AnswerMissesOnlyReborn, Missed
<1>. QED
    BY <1>1, ReaderInductive, PTL

=============================================================================
