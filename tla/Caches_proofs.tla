------------------------------ MODULE Caches_proofs -----------------------------
(***************************************************************************)
(* What the server's caches answer with, for any number of callers: the    *)
(* widget values that calls load for each other, the share rows that a     *)
(* write drops, and the copy of the visitor salt each process holds.       *)
(***************************************************************************)
EXTENDS WidgetCache, ShareCache, Salter, TLAPS

-----------------------------------------------------------------------------
(* Widget values.                                                          *)

TaskStates == Answered \cup Leading \cup {"none", "todo", "waits", "again"}

WidgetInv == task \in [Callers -> [Widgets -> TaskStates]] /\ CancelStaysOwn

\* A call whose client stays is never answered with a cancellation, though
\* the load it waits for is another call's, whose client goes away.
THEOREM CancellationIsOwn == WidgetSpec => []CancelStaysOwn
<1>1. WidgetInit => WidgetInv
    BY DEF WidgetInit, WidgetInv, TaskStates, CancelStaysOwn
<1>2. WidgetInv /\ [WidgetNext]_widgetVars => WidgetInv'
    <2>. SUFFICES ASSUME WidgetInv, [WidgetNext]_widgetVars PROVE WidgetInv'
        OBVIOUS
    <2>. USE DEF WidgetInv
    \* Only a call whose client has gone settles its flights as cancelled, and
    \* then its waiters go on to load for themselves.
    <2>0. ASSUME NEW c \in Callers, NEW W \in SUBSET Widgets, NEW end \in Answered,
                 task' = Settled(c, W, end), end = "cancelled" => c \in gone, gone' = gone
          PROVE  WidgetInv'
        <3>1. task' \in [Callers -> [Widgets -> TaskStates]]
            BY <2>0 DEF Settled, TaskStates
        <3>2. ASSUME NEW d \in Callers, NEW w \in Widgets, task'[d][w] = "cancelled"
              PROVE  d \in gone
            BY <2>0, <3>2 DEF Settled, CancelStaysOwn
        <3>. QED
            BY <2>0, <3>1, <3>2 DEF CancelStaysOwn
    <2>1. ASSUME NEW c \in Gets, NEW w \in Widgets, GetCalls(c, w) PROVE WidgetInv'
        BY <2>1 DEF GetCalls, Task, TaskStates, CancelStaysOwn
    <2>2. ASSUME NEW c \in Streams, StreamCalls(c) PROVE WidgetInv'
        BY <2>2 DEF StreamCalls, TaskStates, CancelStaysOwn
    <2>3. ASSUME NEW c \in Callers, NEW w \in Widgets, Claims(c, w) PROVE WidgetInv'
        BY <2>3 DEF Claims, Task, Lead, TaskStates, Answered, Leading, CancelStaysOwn
    <2>4. ASSUME NEW c \in Callers, StreamLoads(c) PROVE WidgetInv'
        BY <2>4 DEF StreamLoads, CancelStaysOwn
    <2>5. ASSUME NEW c \in Callers, NEW w \in Widgets, LoadSucceeds(c, w) PROVE WidgetInv'
        BY <2>5, <2>0, {w} \in SUBSET Widgets DEF LoadSucceeds, Answered
    <2>6. ASSUME NEW c \in Callers, NEW w \in Widgets, LoadGoesWrong(c, w) PROVE WidgetInv'
        BY <2>6, <2>0, {w} \in SUBSET Widgets DEF LoadGoesWrong, Answered
    <2>7. ASSUME NEW c \in Callers, NEW w \in Widgets, LoadStops(c, w) PROVE WidgetInv'
        BY <2>7, <2>0, {w} \in SUBSET Widgets DEF LoadStops, Answered
    <2>8. ASSUME NEW c \in Callers, NEW w \in Widgets, WaitStops(c, w) PROVE WidgetInv'
        BY <2>8 DEF WaitStops, Task, TaskStates, Answered, CancelStaysOwn
    <2>9. ASSUME NEW c \in Streams, ClaimPanics(c) PROVE WidgetInv'
        BY <2>9 DEF ClaimPanics, TaskStates, Answered, Leading, CancelStaysOwn
    <2>10. ASSUME NEW c \in Streams, BatchPanics(c) PROVE WidgetInv'
        BY <2>10 DEF BatchPanics, CancelStaysOwn
    <2>11. ASSUME NEW c \in Callers, BatchEnds(c) PROVE WidgetInv'
        BY <2>11 DEF BatchEnds, CancelStaysOwn
    <2>12. ASSUME NEW c \in Callers, Sweeps(c) PROVE WidgetInv'
        <3>1. Settled(c, Unsettled(c), "error") \in [Callers -> [Widgets -> TaskStates]]
            BY DEF Settled, TaskStates, Answered
        <3>2. task' \in [Callers -> [Widgets -> TaskStates]]
            BY <2>12, <3>1 DEF Sweeps, TaskStates
        <3>3. ASSUME NEW d \in Callers, NEW w \in Widgets, task'[d][w] = "cancelled"
              PROVE  d \in gone'
            <4>1. d # c
                BY <2>12, <3>1, <3>3 DEF Sweeps
            <4>2. task'[d][w] = Settled(c, Unsettled(c), "error")[d][w]
                BY <2>12, <3>1, <4>1 DEF Sweeps
            <4>3. task[d][w] = "cancelled"
                BY <3>3, <4>1, <4>2 DEF Settled
            <4>. QED
                BY <2>12, <4>1, <4>3 DEF Sweeps, CancelStaysOwn
        <3>. QED
            BY <3>2, <3>3 DEF CancelStaysOwn
    <2>13. ASSUME NEW c \in Callers, GetReturns(c) PROVE WidgetInv'
        BY <2>13 DEF GetReturns, TaskStates, CancelStaysOwn
    <2>14. ASSUME NEW c \in Streams, ClientLeaves(c) PROVE WidgetInv'
        BY <2>14 DEF ClientLeaves, CancelStaysOwn
    <2>15. ASSUME NEW w \in Widgets, Ages(w) PROVE WidgetInv'
        BY <2>15 DEF Ages, CancelStaysOwn
    <2>16. ASSUME UNCHANGED widgetVars PROVE WidgetInv'
        BY <2>16 DEF widgetVars, CancelStaysOwn
    <2>. QED
        BY <2>1, <2>2, <2>3, <2>4, <2>5, <2>6, <2>7, <2>8, <2>9, <2>10, <2>11, <2>12, <2>13,
           <2>14, <2>15, <2>16
        DEF WidgetNext, GoesOn
<1>3. WidgetInv => CancelStaysOwn
    BY DEF WidgetInv
<1>. QED
    BY <1>1, <1>2, <1>3, PTL DEF WidgetSpec

-----------------------------------------------------------------------------
(* Share rows.                                                             *)

\* The part of ShareTypeOK the safety properties rest on.
RowsTyped ==
    /\ moment \in Nat \ {0} /\ version \in 1..MaxVersion /\ settled \in 0..MaxVersion
    /\ gen \in Gens
    /\ entry \in [version : 0..MaxVersion, missing : BOOLEAN, at : Nat]
    /\ visit \in [Visitors -> {"none", "missed", "loads", "joined", "answered"}]
    /\ seenGen \in [Visitors -> Gens] /\ since \in [Visitors -> Nat]
    /\ readRow \in [Visitors -> 0..MaxVersion] /\ got \in [Visitors -> 0..MaxVersion]
    /\ floor \in [Visitors -> 0..MaxVersion]
    /\ replaced \in [1..MaxVersion -> Nat]

\* No one has seen a row, a generation or a time before it was.
NothingAhead ==
    /\ settled <= version
    /\ \A n \in 1..MaxVersion : replaced[n] # 0 => n < version /\ replaced[n] <= moment
    /\ \A v \in Visitors :
        /\ readRow[v] <= version /\ floor[v] <= settled
        /\ since[v] <= moment /\ seenGen[v] <= gen
        /\ readRow[v] # 0 => visit[v] = "loads"
        /\ visit[v] # "answered" => got[v] = 0

\* The entry is no older than the last write here that has returned, was in
\* the store at the time it counts its age from, and stays there for good if
\* it says that there is no such share.
EntryCurrent ==
    entry.at # 0 =>
        /\ 0 < entry.version /\ settled <= entry.version /\ entry.version <= version
        /\ entry.at <= moment
        /\ replaced[entry.version] # 0 => entry.at <= replaced[entry.version]
        /\ entry.missing => deleted /\ entry.version = version

Waiting(v) == visit[v] \in {"missed", "loads", "joined"}

\* Requests that missed in one generation, and so may share a load, began
\* after the same last write.
OneFloor ==
    \A v \in Visitors :
        /\ Waiting(v) /\ seenGen[v] = gen => floor[v] = settled
        /\ \A w \in Visitors :
             Waiting(v) /\ Waiting(w) /\ seenGen[v] = seenGen[w] => floor[v] = floor[w]

\* What a load has read is no older than that write; a load of the current
\* generation may be kept.
ReadCurrent ==
    \A v \in Visitors : readRow[v] # 0 =>
        /\ floor[v] <= readRow[v]
        /\ replaced[readRow[v]] # 0 => replaced[readRow[v]] = moment
        /\ seenGen[v] = gen => settled <= readRow[v]

ShareInv == RowsTyped /\ NothingAhead /\ EntryCurrent /\ OneFloor /\ ReadCurrent /\ RowIsCurrent

\* A request that comes after a write of a share has returned is not answered
\* with an older row, and a row written elsewhere is out of date for less than
\* shareRowAge, however loads, writes and invalidations overlap.
THEOREM AnsweredRowIsCurrent == ShareSpec => []RowIsCurrent
<1>. USE ShareCacheAssumption DEF Gens
<1>1. ShareInit => ShareInv
    BY DEF ShareInit, ShareInv, RowsTyped, NothingAhead, EntryCurrent, OneFloor, ReadCurrent,
           RowIsCurrent, NoEntry, Waiting
<1>2. ShareInv /\ [ShareNext]_shareVars => ShareInv'
    <2>. SUFFICES ASSUME ShareInv, [ShareNext]_shareVars PROVE ShareInv'
        OBVIOUS
    <2>. USE DEF ShareInv, storeVars, visitVars
    <2>1. ASSUME NEW v \in Visitors, Hits(v) PROVE ShareInv'
        <3>1. RowsTyped'
            BY <2>1 DEF Hits, RowsTyped
        <3>2. NothingAhead'
            BY <2>1 DEF Hits, NothingAhead, RowsTyped
        <3>3. EntryCurrent'
            BY <2>1 DEF Hits, EntryCurrent
        <3>4. OneFloor'
            BY <2>1 DEF Hits, OneFloor, Waiting
        <3>5. ReadCurrent'
            BY <2>1 DEF Hits, ReadCurrent, NothingAhead
        <3>6. RowIsCurrent'
            <4>. SUFFICES ASSUME NEW u \in Visitors, got'[u] # 0
                 PROVE  /\ got'[u] >= floor'[u]
                        /\ replaced'[got'[u]] # 0 => replaced'[got'[u]] > since'[u] - RowAge
                BY DEF RowIsCurrent
            <4>1. CASE u = v
                <5>1. got'[u] = entry.version /\ floor'[u] = settled /\ since'[u] = moment
                    BY <2>1, <4>1 DEF Hits, RowsTyped
                <5>2. replaced' = replaced /\ entry.at # 0 /\ moment - entry.at < Age(entry)
                    BY <2>1 DEF Hits, Fresh
                <5>3. settled <= entry.version /\ entry.version \in 1..MaxVersion
                    BY <5>2 DEF EntryCurrent, RowsTyped
                <5>4. entry.missing => replaced[entry.version] = 0
                    BY <5>2, <5>3 DEF EntryCurrent, NothingAhead
                <5>5. replaced[entry.version] # 0 => replaced[entry.version] > moment - RowAge
                    <6>1. replaced[entry.version] \in Nat /\ moment \in Nat /\ entry.at \in Nat
                        BY <5>3 DEF RowsTyped
                    <6>. QED
                        BY <5>2, <5>4, <6>1 DEF EntryCurrent, Age
                <5>6. settled \in Nat /\ entry.version \in Nat
                    BY DEF RowsTyped
                <5>. QED
                    BY <5>1, <5>2, <5>3, <5>5, <5>6
            <4>2. CASE u # v
                BY <2>1, <4>2 DEF Hits, RowIsCurrent
            <4>. QED
                BY <4>1, <4>2
        <3>. QED
            BY <3>1, <3>2, <3>3, <3>4, <3>5, <3>6
    <2>2. ASSUME NEW v \in Visitors, Misses(v) PROVE ShareInv'
        <3>1. RowsTyped'
            BY <2>2 DEF Misses, RowsTyped
        <3>2. NothingAhead'
            BY <2>2 DEF Misses, NothingAhead, RowsTyped
        <3>3. EntryCurrent'
            BY <2>2 DEF Misses, EntryCurrent
        <3>4. OneFloor'
            BY <2>2 DEF Misses, OneFloor, Waiting, RowsTyped
        <3>5. ReadCurrent'
            BY <2>2 DEF Misses, ReadCurrent, NothingAhead
        <3>6. RowIsCurrent'
            BY <2>2 DEF Misses, RowIsCurrent, NothingAhead
        <3>. QED
            BY <3>1, <3>2, <3>3, <3>4, <3>5, <3>6
    <2>3. ASSUME NEW v \in Visitors, Leads(v) PROVE ShareInv'
        <3>1. RowsTyped'
            BY <2>3 DEF Leads, RowsTyped
        <3>2. NothingAhead'
            BY <2>3 DEF Leads, NothingAhead
        <3>3. EntryCurrent'
            BY <2>3 DEF Leads, EntryCurrent
        <3>4. OneFloor'
            BY <2>3, SMTT(20) DEF Leads, OneFloor, Waiting
        <3>5. ReadCurrent'
            BY <2>3 DEF Leads, ReadCurrent
        <3>6. RowIsCurrent'
            BY <2>3 DEF Leads, RowIsCurrent
        <3>. QED
            BY <3>1, <3>2, <3>3, <3>4, <3>5, <3>6
    <2>4. ASSUME NEW v \in Visitors, Joins(v) PROVE ShareInv'
        <3>1. RowsTyped'
            BY <2>4 DEF Joins, RowsTyped
        <3>2. NothingAhead'
            BY <2>4 DEF Joins, NothingAhead
        <3>3. EntryCurrent'
            BY <2>4 DEF Joins, EntryCurrent
        <3>4. OneFloor'
            BY <2>4, SMTT(20) DEF Joins, OneFloor, Waiting
        <3>5. ReadCurrent'
            BY <2>4 DEF Joins, ReadCurrent
        <3>6. RowIsCurrent'
            BY <2>4 DEF Joins, RowIsCurrent
        <3>. QED
            BY <3>1, <3>2, <3>3, <3>4, <3>5, <3>6
    <2>5. ASSUME NEW v \in Visitors, ReadsRow(v) PROVE ShareInv'
        <3>1. RowsTyped'
            BY <2>5 DEF ReadsRow, RowsTyped
        <3>2. NothingAhead'
            BY <2>5 DEF ReadsRow, NothingAhead, RowsTyped
        <3>3. EntryCurrent'
            BY <2>5 DEF ReadsRow, EntryCurrent
        <3>4. OneFloor'
            BY <2>5 DEF ReadsRow, OneFloor, Waiting
        <3>5. ReadCurrent'
            BY <2>5 DEF ReadsRow, ReadCurrent, NothingAhead, RowsTyped
        <3>6. RowIsCurrent'
            BY <2>5 DEF ReadsRow, RowIsCurrent
        <3>. QED
            BY <3>1, <3>2, <3>3, <3>4, <3>5, <3>6
    <2>6. ASSUME NEW v \in Visitors, Keeps(v) PROVE ShareInv'
        <3>1. RowsTyped'
            BY <2>6 DEF Keeps, AnswersAll, RowsTyped
        <3>2. NothingAhead'
            <4>1. \A u \in Visitors : visit'[u] # "answered" => visit'[u] = visit[u] /\ got'[u] = got[u]
                BY <2>6 DEF Keeps, AnswersAll
            <4>2. \A u \in Visitors : readRow'[u] # 0 => u # v /\ readRow'[u] = readRow[u]
                BY <2>6 DEF Keeps, AnswersAll, RowsTyped
            <4>3. \A u \in Visitors : readRow[u] # 0 /\ u # v => visit'[u] = visit[u]
                BY <2>6 DEF Keeps, AnswersAll, Joined, NothingAhead
            <4>4. \A u \in Visitors : readRow'[u] <= version
                BY <2>6, <3>1 DEF Keeps, AnswersAll, NothingAhead, RowsTyped
            <4>. QED
                BY <2>6, <4>1, <4>2, <4>3, <4>4 DEF Keeps, NothingAhead
        <3>3. EntryCurrent'
            <4>1. UNCHANGED <<settled, version, moment, replaced, deleted>>
                BY <2>6 DEF Keeps
            <4>2. CASE gen # seenGen[v]
                BY <2>6, <4>1, <4>2 DEF Keeps, EntryCurrent
            <4>3. CASE gen = seenGen[v]
                <5>1. /\ readRow[v] # 0 /\ entry'.version = readRow[v] /\ entry'.at = since[v]
                      /\ entry'.missing => deleted /\ readRow[v] = version
                    BY <2>6, <4>3 DEF Keeps
                <5>2. /\ settled <= readRow[v] /\ readRow[v] <= version /\ since[v] <= moment
                      /\ replaced[readRow[v]] # 0 => replaced[readRow[v]] = moment
                    BY <4>3, <5>1 DEF ReadCurrent, NothingAhead
                <5>3. readRow[v] \in Nat
                    BY DEF RowsTyped
                <5>4. replaced'[entry'.version] # 0 => entry'.at <= replaced'[entry'.version]
                    BY <4>1, <5>1, <5>2
                <5>. QED
                    BY <4>1, <5>1, <5>2, <5>3, <5>4 DEF EntryCurrent
            <4>. QED
                BY <4>2, <4>3
        <3>4. OneFloor'
            BY <2>6 DEF Keeps, AnswersAll, OneFloor, Waiting
        <3>5. ReadCurrent'
            BY <2>6 DEF Keeps, AnswersAll, ReadCurrent
        <3>6. RowIsCurrent'
            <4>. SUFFICES ASSUME NEW u \in Visitors, got'[u] # 0
                 PROVE  /\ got'[u] >= floor'[u]
                        /\ replaced'[got'[u]] # 0 => replaced'[got'[u]] > since'[u] - RowAge
                BY DEF RowIsCurrent
            <4>1. UNCHANGED <<floor, since, replaced>>
                BY <2>6 DEF Keeps
            <4>2. CASE u \in Joined(v) \cup {v}
                <5>1. got'[u] = readRow[v] /\ readRow[v] # 0
                    BY <2>6, <4>2 DEF Keeps, AnswersAll
                <5>2. floor[u] = floor[v]
                    BY <2>6, <4>2 DEF Keeps, Joined, FlightOf, OneFloor, Waiting
                <5>3. replaced[readRow[v]] # 0 => replaced[readRow[v]] = moment
                    BY <5>1 DEF ReadCurrent
                <5>4. floor[v] <= readRow[v]
                    BY <5>1 DEF ReadCurrent
                <5>5. since[u] <= moment /\ since[u] \in Nat /\ moment \in Nat
                    BY DEF NothingAhead, RowsTyped
                <5>6. readRow[v] \in Nat /\ floor[v] \in Nat
                    BY DEF RowsTyped
                <5>. QED
                    BY <4>1, <5>1, <5>2, <5>3, <5>4, <5>5, <5>6
            <4>3. CASE u \notin Joined(v) \cup {v}
                <5>1. got'[u] = got[u]
                    BY <2>6, <4>3 DEF Keeps, AnswersAll
                <5>. QED
                    BY <4>1, <5>1 DEF RowIsCurrent
            <4>. QED
                BY <4>2, <4>3
        <3>. QED
            BY <3>1, <3>2, <3>3, <3>4, <3>5, <3>6
    <2>7. ASSUME NEW v \in Visitors, LoadFails(v) PROVE ShareInv'
        <3>1. RowsTyped'
            BY <2>7 DEF LoadFails, AnswersAll, RowsTyped
        <3>2. NothingAhead'
            BY <2>7, SMTT(20) DEF LoadFails, AnswersAll, Joined, NothingAhead, RowsTyped
        <3>3. EntryCurrent'
            BY <2>7 DEF LoadFails, EntryCurrent
        <3>4. OneFloor'
            BY <2>7 DEF LoadFails, AnswersAll, OneFloor, Waiting
        <3>5. ReadCurrent'
            BY <2>7 DEF LoadFails, AnswersAll, ReadCurrent
        <3>6. RowIsCurrent'
            BY <2>7 DEF LoadFails, AnswersAll, RowIsCurrent
        <3>. QED
            BY <3>1, <3>2, <3>3, <3>4, <3>5, <3>6
    <2>8. ASSUME NEW v \in Visitors, AsksAgain(v) PROVE ShareInv'
        <3>1. RowsTyped'
            BY <2>8 DEF AsksAgain, RowsTyped
        <3>2. NothingAhead'
            BY <2>8 DEF AsksAgain, NothingAhead, RowsTyped
        <3>3. EntryCurrent'
            BY <2>8 DEF AsksAgain, EntryCurrent
        <3>4. OneFloor'
            BY <2>8 DEF AsksAgain, OneFloor, Waiting
        <3>5. ReadCurrent'
            BY <2>8 DEF AsksAgain, ReadCurrent, NothingAhead
        <3>6. RowIsCurrent'
            BY <2>8 DEF AsksAgain, RowIsCurrent, RowsTyped
        <3>. QED
            BY <3>1, <3>2, <3>3, <3>4, <3>5, <3>6
    <2>9. ASSUME WritesHere PROVE ShareInv'
        <3>1. RowsTyped'
            BY <2>9 DEF WritesHere, RowChanges, RowsTyped
        <3>2. NothingAhead'
            BY <2>9 DEF WritesHere, RowChanges, NothingAhead, RowsTyped
        <3>3. EntryCurrent'
            BY <2>9 DEF WritesHere, RowChanges, EntryCurrent, RowsTyped
        <3>4. OneFloor'
            BY <2>9 DEF WritesHere, RowChanges, OneFloor, Waiting
        <3>5. ReadCurrent'
            BY <2>9 DEF WritesHere, RowChanges, ReadCurrent
        <3>6. RowIsCurrent'
            BY <2>9 DEF WritesHere, RowChanges, RowIsCurrent, NothingAhead, RowsTyped
        <3>. QED
            BY <3>1, <3>2, <3>3, <3>4, <3>5, <3>6
    <2>10. ASSUME InvalidatesOther PROVE ShareInv'
        <3>1. RowsTyped'
            BY <2>10 DEF InvalidatesOther, RowsTyped
        <3>2. NothingAhead'
            BY <2>10 DEF InvalidatesOther, NothingAhead, RowsTyped
        <3>3. EntryCurrent'
            BY <2>10 DEF InvalidatesOther, EntryCurrent
        <3>4. OneFloor'
            BY <2>10 DEF InvalidatesOther, OneFloor, NothingAhead, Waiting, RowsTyped
        <3>5. ReadCurrent'
            BY <2>10 DEF InvalidatesOther, ReadCurrent, NothingAhead, RowsTyped
        <3>6. RowIsCurrent'
            BY <2>10 DEF InvalidatesOther, RowIsCurrent
        <3>. QED
            BY <3>1, <3>2, <3>3, <3>4, <3>5, <3>6
    <2>11. ASSUME Invalidates PROVE ShareInv'
        <3>1. RowsTyped'
            BY <2>11 DEF Invalidates, NoEntry, RowsTyped
        <3>2. NothingAhead'
            BY <2>11 DEF Invalidates, NothingAhead, RowsTyped
        <3>3. EntryCurrent'
            BY <2>11 DEF Invalidates, NoEntry, EntryCurrent
        <3>4. OneFloor'
            BY <2>11 DEF Invalidates, OneFloor, NothingAhead, Waiting, RowsTyped
        <3>5. ReadCurrent'
            BY <2>11 DEF Invalidates, ReadCurrent, NothingAhead, RowsTyped
        <3>6. RowIsCurrent'
            BY <2>11 DEF Invalidates, RowIsCurrent
        <3>. QED
            BY <3>1, <3>2, <3>3, <3>4, <3>5, <3>6
    <2>12. ASSUME WritesElsewhere PROVE ShareInv'
        <3>1. RowsTyped'
            BY <2>12 DEF WritesElsewhere, RowChanges, RowsTyped
        <3>2. NothingAhead'
            BY <2>12 DEF WritesElsewhere, RowChanges, NothingAhead, RowsTyped
        <3>3. EntryCurrent'
            BY <2>12 DEF WritesElsewhere, RowChanges, EntryCurrent, RowsTyped
        <3>4. OneFloor'
            BY <2>12 DEF WritesElsewhere, RowChanges, OneFloor, Waiting
        <3>5. ReadCurrent'
            BY <2>12 DEF WritesElsewhere, RowChanges, ReadCurrent
        <3>6. RowIsCurrent'
            BY <2>12 DEF WritesElsewhere, RowChanges, RowIsCurrent, NothingAhead, RowsTyped
        <3>. QED
            BY <3>1, <3>2, <3>3, <3>4, <3>5, <3>6
    <2>13. ASSUME MomentPasses PROVE ShareInv'
        <3>1. RowsTyped'
            BY <2>13 DEF MomentPasses, RowsTyped
        <3>2. NothingAhead'
            BY <2>13 DEF MomentPasses, NothingAhead, RowsTyped
        <3>3. EntryCurrent'
            BY <2>13 DEF MomentPasses, EntryCurrent, RowsTyped
        <3>4. OneFloor'
            BY <2>13 DEF MomentPasses, OneFloor, Waiting
        <3>5. ReadCurrent'
            BY <2>13 DEF MomentPasses, ReadCurrent
        <3>6. RowIsCurrent'
            BY <2>13 DEF MomentPasses, RowIsCurrent
        <3>. QED
            BY <3>1, <3>2, <3>3, <3>4, <3>5, <3>6
    <2>14. ASSUME UNCHANGED shareVars PROVE ShareInv'
        BY <2>14 DEF shareVars, RowsTyped, NothingAhead, EntryCurrent, OneFloor, ReadCurrent,
                      RowIsCurrent, Waiting
    <2>. QED
        BY <2>1, <2>2, <2>3, <2>4, <2>5, <2>6, <2>7, <2>8, <2>9, <2>10, <2>11, <2>12, <2>13, <2>14
           DEF ShareNext
<1>3. ShareInv => RowIsCurrent
    BY DEF ShareInv
<1>. QED
    BY <1>1, <1>2, <1>3, PTL DEF ShareSpec

-----------------------------------------------------------------------------
(* The visitor salt.                                                       *)

\* The part of SaltTypeOK the safety properties rest on.
SaltTyped ==
    /\ hour \in Nat /\ saltRow \in [salt : Nat, at : Nat]
    /\ mem \in [Servers -> [salt : Nat, at : Nat]]
    /\ saltStep \in [Servers -> {"idle", "found", "rotate", "wrote"}]
    /\ inHand \in [Servers -> Nat]
    /\ born \in Seq(Nat)
    /\ mixed \in [Servers -> BOOLEAN]

\* The row holds the last salt made, and a time that is not after it: its own,
\* or that of a salt before it.
LatestRow ==
    /\ saltRow.salt = Len(born) /\ saltRow.at <= hour
    /\ Len(born) > 0 => saltRow.at <= born[Len(born)]
    /\ \A i \in 1..Len(born) : born[i] <= hour

\* Between its two writes a process holds a salt made in this unit of the
\* clock; the last one made may be another's of the same unit.
WrittenNow ==
    \A p \in Servers :
        saltStep[p] = "wrote" =>
            /\ inHand[p] \in 1..Len(born) /\ born[inHand[p]] = hour
            /\ born[Len(born)] = hour

\* What a process reads between two rotations belongs together, and no salt
\* it holds from such a read counts from before it was made.
HeldFromBirth ==
    \A p \in Servers :
        /\ inHand[p] <= Len(born)
        /\ saltStep[p] = "found" /\ ~mixed[p] => inHand[p] = saltRow.salt
        /\ mem[p].salt <= Len(born)
        /\ mem[p].salt # 0 /\ ~mixed[p] => mem[p].at <= born[mem[p].salt]

SaltInv == SaltTyped /\ LatestRow /\ WrittenNow /\ HeldFromBirth

\* A salt a process answers with at once was made less than RotateEvery ago,
\* however the rotations of several processes overlap, fail and are cut short,
\* unless it was read on either side of a step of another's rotation.
THEOREM HeldSaltIsYoung == SaltSpec => []SaltIsYoung
<1>. USE SalterAssumption
<1>1. SaltInit => SaltInv
    <2>. SUFFICES ASSUME SaltInit PROVE SaltInv
        OBVIOUS
    <2>1. SaltTyped
        BY DEF SaltInit, SaltTyped, NoSalt
    <2>2. LatestRow /\ WrittenNow /\ HeldFromBirth
        BY DEF SaltInit, LatestRow, WrittenNow, HeldFromBirth, NoSalt
    <2>. QED
        BY <2>1, <2>2 DEF SaltInv
<1>2. SaltInv /\ [SaltNext]_saltVars => SaltInv'
    <2>. SUFFICES ASSUME SaltInv, [SaltNext]_saltVars PROVE SaltInv'
        OBVIOUS
    <2>. USE DEF SaltInv
    <2>1. ASSUME NEW p \in Servers, LoadsSalt(p) PROVE SaltInv'
        <3>1. SaltTyped'
            BY <2>1 DEF LoadsSalt, SaltMoves, SaltTyped
        <3>2. LatestRow'
            BY <2>1 DEF LoadsSalt, LatestRow
        <3>3. WrittenNow'
            BY <2>1 DEF LoadsSalt, SaltMoves, WrittenNow
        <3>4. HeldFromBirth'
            BY <2>1 DEF LoadsSalt, SaltMoves, NoSalt, HeldFromBirth, LatestRow, SaltTyped
        <3>. QED
            BY <3>1, <3>2, <3>3, <3>4
    <2>2. ASSUME NEW p \in Servers, LoadsTime(p) PROVE SaltInv'
        <3>1. SaltTyped'
            <4>1. [salt |-> inHand[p], at |-> saltRow.at] \in [salt : Nat, at : Nat]
                BY DEF SaltTyped
            <4>2. mem' \in [Servers -> [salt : Nat, at : Nat]]
                BY <2>2, <4>1 DEF LoadsTime, Holds, SaltTyped
            <4>. QED
                BY <2>2, <4>2 DEF LoadsTime, SaltMoves, SaltTyped
        <3>2. LatestRow'
            BY <2>2 DEF LoadsTime, LatestRow
        <3>3. WrittenNow'
            BY <2>2 DEF LoadsTime, SaltMoves, WrittenNow
        <3>4. HeldFromBirth'
            BY <2>2 DEF LoadsTime, SaltMoves, Holds, HeldFromBirth, LatestRow, SaltTyped
        <3>. QED
            BY <3>1, <3>2, <3>3, <3>4
    <2>3. ASSUME NEW p \in Servers, Outgrown(p) PROVE SaltInv'
        <3>1. SaltTyped'
            BY <2>3 DEF Outgrown, SaltMoves, SaltTyped
        <3>2. LatestRow'
            BY <2>3 DEF Outgrown, LatestRow
        <3>3. WrittenNow'
            BY <2>3 DEF Outgrown, SaltMoves, WrittenNow
        <3>4. HeldFromBirth'
            BY <2>3 DEF Outgrown, SaltMoves, HeldFromBirth
        <3>. QED
            BY <3>1, <3>2, <3>3, <3>4
    <2>4. ASSUME NEW p \in Servers, Scheduled(p) PROVE SaltInv'
        <3>1. SaltTyped'
            BY <2>4 DEF Scheduled, SaltMoves, SaltTyped
        <3>2. LatestRow'
            BY <2>4 DEF Scheduled, LatestRow
        <3>3. WrittenNow'
            BY <2>4 DEF Scheduled, SaltMoves, WrittenNow
        <3>4. HeldFromBirth'
            BY <2>4 DEF Scheduled, SaltMoves, HeldFromBirth
        <3>. QED
            BY <3>1, <3>2, <3>3, <3>4
    <2>5. ASSUME NEW p \in Servers, WritesSalt(p) PROVE SaltInv'
        <3>1. SaltTyped'
            <4>1. born' \in Seq(Nat) /\ Len(born') \in Nat
                BY <2>5 DEF WritesSalt, SaltTyped
            <4>2. saltRow' \in [salt : Nat, at : Nat]
                BY <2>5, <4>1 DEF WritesSalt, SaltTyped
            <4>3. mixed' \in [Servers -> BOOLEAN]
                <5>1. \A q \in Servers : (mixed[q] \/ saltStep[q] = "found") \in BOOLEAN
                    OBVIOUS
                <5>2. mixed' = [q \in Servers |-> mixed[q] \/ saltStep[q] = "found"]
                    BY <2>5 DEF WritesSalt
                <5>. QED
                    BY ONLY <5>1, <5>2
            <4>4. inHand' \in [Servers -> Nat]
                BY <2>5, <4>1 DEF WritesSalt, SaltTyped
            <4>5. saltStep' \in [Servers -> {"idle", "found", "rotate", "wrote"}]
                BY <2>5 DEF WritesSalt, SaltMoves, SaltTyped
            <4>. QED
                BY <2>5, <4>1, <4>2, <4>3, <4>4, <4>5 DEF WritesSalt, SaltTyped
        <3>2. LatestRow'
            BY <2>5 DEF WritesSalt, LatestRow, SaltTyped
        <3>3. WrittenNow'
            BY <2>5, SMTT(20) DEF WritesSalt, SaltMoves, WrittenNow, SaltTyped
        <3>4. HeldFromBirth'
            <4>1. /\ Len(born') = Len(born) + 1 /\ Len(born) \in Nat
                  /\ \A i \in 1..Len(born) : born'[i] = born[i]
                BY <2>5 DEF WritesSalt
            <4>. SUFFICES ASSUME NEW q \in Servers
                 PROVE  /\ inHand'[q] <= Len(born')
                        /\ saltStep'[q] = "found" /\ ~mixed'[q] => inHand'[q] = saltRow'.salt
                        /\ mem'[q].salt <= Len(born')
                        /\ mem'[q].salt # 0 /\ ~mixed'[q] => mem'[q].at <= born'[mem'[q].salt]
                BY DEF HeldFromBirth
            <4>2. inHand[q] \in Nat /\ mem[q].salt \in Nat /\ mem' = mem
                BY <2>5 DEF WritesSalt, SaltTyped
            <4>3. inHand'[q] <= Len(born')
                BY <2>5, <4>1, <4>2, SMTT(20) DEF WritesSalt, HeldFromBirth
            <4>4. saltStep'[q] = "found" => saltStep[q] = "found" /\ mixed'[q]
                BY <2>5 DEF WritesSalt, SaltMoves, SaltTyped
            <4>5. ~mixed'[q] => ~mixed[q]
                BY <2>5 DEF WritesSalt
            <4>6. mem[q].salt <= Len(born)
                BY DEF HeldFromBirth
            <4>7. mem[q].salt # 0 /\ ~mixed[q] => mem[q].at <= born'[mem[q].salt]
                BY <4>1, <4>2, <4>6 DEF HeldFromBirth
            <4>. QED
                BY <4>1, <4>2, <4>3, <4>4, <4>5, <4>6, <4>7
        <3>. QED
            BY <3>1, <3>2, <3>3, <3>4
    <2>6. ASSUME NEW p \in Servers, WritesTime(p) PROVE SaltInv'
        <3>1. SaltTyped'
            BY <2>6 DEF WritesTime, SaltMoves, Holds, SaltTyped
        <3>2. LatestRow'
            BY <2>6 DEF WritesTime, SaltMoves, LatestRow, WrittenNow
        <3>3. WrittenNow'
            BY <2>6 DEF WritesTime, SaltMoves, WrittenNow, SaltTyped
        <3>4. HeldFromBirth'
            BY <2>6 DEF WritesTime, SaltMoves, Holds, HeldFromBirth, WrittenNow, SaltTyped
        <3>. QED
            BY <3>1, <3>2, <3>3, <3>4
    <2>7. ASSUME NEW p \in Servers, RotationFails(p) PROVE SaltInv'
        <3>1. SaltTyped'
            BY <2>7 DEF RotationFails, SaltTyped
        <3>2. LatestRow'
            BY <2>7 DEF RotationFails, LatestRow
        <3>3. WrittenNow'
            BY <2>7 DEF RotationFails, WrittenNow, SaltTyped
        <3>4. HeldFromBirth'
            BY <2>7 DEF RotationFails, HeldFromBirth
        <3>. QED
            BY <3>1, <3>2, <3>3, <3>4
    <2>8. ASSUME NEW p \in Servers, Restarts(p) PROVE SaltInv'
        <3>1. SaltTyped'
            BY <2>8 DEF Restarts, NoSalt, SaltTyped
        <3>2. LatestRow'
            BY <2>8 DEF Restarts, LatestRow
        <3>3. WrittenNow'
            BY <2>8 DEF Restarts, WrittenNow, SaltTyped
        <3>4. HeldFromBirth'
            BY <2>8 DEF Restarts, NoSalt, HeldFromBirth, SaltTyped
        <3>. QED
            BY <3>1, <3>2, <3>3, <3>4
    <2>9. ASSUME HourPasses PROVE SaltInv'
        <3>1. SaltTyped'
            BY <2>9 DEF HourPasses, SaltTyped
        <3>2. LatestRow'
            BY <2>9 DEF HourPasses, LatestRow, SaltTyped
        <3>3. WrittenNow'
            BY <2>9 DEF HourPasses, WrittenNow
        <3>4. HeldFromBirth'
            BY <2>9 DEF HourPasses, HeldFromBirth
        <3>. QED
            BY <3>1, <3>2, <3>3, <3>4
    <2>10. ASSUME UNCHANGED saltVars PROVE SaltInv'
        BY <2>10 DEF saltVars, SaltTyped, LatestRow, WrittenNow, HeldFromBirth
    <2>. QED
        BY <2>1, <2>2, <2>3, <2>4, <2>5, <2>6, <2>7, <2>8, <2>9, <2>10 DEF SaltNext
<1>3. SaltInv => SaltIsYoung
    <2>. SUFFICES ASSUME SaltInv, NEW p \in Servers, Young(mem[p]), ~mixed[p]
         PROVE  hour - born[mem[p].salt] < RotateEvery
        BY DEF SaltIsYoung
    <2>1. mem[p].salt # 0 /\ hour - mem[p].at < RotateEvery
        BY DEF Young
    <2>2. mem[p].at <= born[mem[p].salt]
        BY <2>1 DEF SaltInv, HeldFromBirth
    <2>3. mem[p].salt \in 1..Len(born) /\ mem[p].at \in Nat /\ hour \in Nat
        BY <2>1 DEF SaltInv, HeldFromBirth, SaltTyped
    <2>4. born[mem[p].salt] \in Nat
        BY <2>3 DEF SaltInv, SaltTyped
    <2>. QED
        BY <2>1, <2>2, <2>3, <2>4
<1>. QED
    BY <1>1, <1>2, <1>3, PTL DEF SaltSpec

=============================================================================
