----------------------------- MODULE Intake_proofs -----------------------------
(***************************************************************************)
(* What the process keeps of what it is sent, for any number of tabs,      *)
(* requests, submissions and projects: the SDK's batches, the buffer before*)
(* the event log, the form outbox, the registry every request asks, and the*)
(* sweep that removes the files of a project.                              *)
(***************************************************************************)
EXTENDS SdkQueue, Pipeline, Outbox, Registry, Sweep, Selections_proofs, FiniteSetTheorems

-----------------------------------------------------------------------------
(* Batches of the browser SDK.                                             *)

\* The copies of an event: queued in a tab, kept or under way, beaconed.
Queued(e) == \E t \in Tabs : e \in queue[t]
Copies(e) == { b \in ToSend : b.event = e }
Beaconed(e) == { m \in beacons : m.event = e }

SdkTypes ==
    /\ tick \in Nat /\ made \in [SentEvents -> Nat] /\ opened \subseteq Tabs
    /\ queue \in [Tabs -> SUBSET SentEvents] /\ pending \in [Tabs -> Seq(KeptBatch)]
    /\ kept \in Seq(KeptBatch) /\ counted \in [SentEvents -> SUBSET Int]
    /\ fetches \subseteq [tab : Tabs \cup {"gone"}, batch : KeptBatch, at : Nat]
    /\ beacons \subseteq [event : SentEvents, at : Nat]

\* A message arrives within one unit of the clock.
InTime ==
    /\ tick >= 1 /\ \A e \in SentEvents : made[e] <= tick
    /\ \A r \in fetches : r.at <= tick /\ tick <= r.at + 1
    /\ \A m \in beacons : m.at <= tick /\ tick <= m.at + 1

MadeFirst ==
    \A e \in SentEvents :
        made[e] = 0 => ~Queued(e) /\ Copies(e) = {} /\ Beaconed(e) = {} /\ counted[e] = {}

QueuedOnce ==
    \A t \in Tabs : \A e \in queue[t] :
        /\ Copies(e) = {} /\ Beaconed(e) = {} /\ counted[e] = {}
        /\ \A u \in Tabs : e \in queue[u] => u = t

\* A marked batch is sent while it is young, but for what overdue lists.
YoungReplays ==
    \A r \in fetches : r.batch.beaconed =>
        r.at - made[r.batch.event] <= ReplayAge \/ r.batch.event \in overdue

\* Of an event counted as no unmarked copy was left, all that is to be sent is marked and young.
OneDay ==
    \A e \in SentEvents \ (left \cup overdue) : counted[e] # {} =>
        /\ \A b \in Copies(e) : b.beaconed
        /\ \A m \in Beaconed(e) : m.at - made[e] <= ReplayAge
        /\ \A c, d \in counted[e] : c = d
        /\ \A d \in counted[e] : tick - made[e] <= LateWindow => d = made[e] \div DayLength

SdkInv == SdkTypes /\ InTime /\ MadeFirst /\ QueuedOnce /\ YoungReplays /\ OneDay

\* b is kept on the device, kept in a tab, or under way.
ToBeSent(b) == \/ b \in ToSet(kept) \/ \E t \in Tabs : b \in ToSet(pending[t])
               \/ \E r \in fetches : b = r.batch

\* The batches still to send are those on the device, in a tab's memory, or under way.
LEMMA ToSendFacts ==
    /\ SdkTypes => ToSend \subseteq KeptBatch /\ \A b : b \in ToSend <=> ToBeSent(b)
    /\ SdkTypes' => ToSend' \subseteq KeptBatch /\ \A b : b \in ToSend' <=> ToBeSent(b)'
<1>1. ASSUME NEW b PROVE b \in ToSend <=> ToBeSent(b)
    <2>1. b \in UNION { ToSet(pending[t]) : t \in Tabs } <=> \E t \in Tabs : b \in ToSet(pending[t])
        BY Zenon
    <2>2. b \in { r.batch : r \in fetches } <=> \E r \in fetches : b = r.batch
        BY Zenon
    <2>3. b \in ToSend <=> \/ b \in ToSet(kept) \/ b \in UNION { ToSet(pending[t]) : t \in Tabs }
                             \/ b \in { r.batch : r \in fetches }
        BY DEF ToSend
    <2>. QED
        BY <2>1, <2>2, <2>3, Zenon DEF ToBeSent
<1>2. ASSUME NEW b PROVE b \in ToSend' <=> ToBeSent(b)'
    <2>1. b \in UNION { ToSet(pending'[t]) : t \in Tabs } <=> \E t \in Tabs : b \in ToSet(pending'[t])
        BY Zenon
    <2>2. b \in { r.batch : r \in fetches' } <=> \E r \in fetches' : b = r.batch
        BY Zenon
    <2>3. b \in ToSend' <=> \/ b \in ToSet(kept') \/ b \in UNION { ToSet(pending'[t]) : t \in Tabs }
                             \/ b \in { r.batch : r \in fetches' }
        BY DEF ToSend
    <2>. QED
        BY <2>1, <2>2, <2>3, Zenon DEF ToBeSent
<1>3. \A s \in Seq(KeptBatch) : ToSet(s) \subseteq KeptBatch
    BY DEF ToSet
<1>4. SdkTypes => \A b : ToBeSent(b) => b \in KeptBatch
    BY <1>3 DEF SdkTypes, ToBeSent
<1>5. SdkTypes' => \A b : ToBeSent(b)' => b \in KeptBatch
    BY <1>3 DEF SdkTypes, ToBeSent
<1>. QED
    BY <1>1, <1>2, <1>4, <1>5

\* A browser's event is counted on one day, but for the two cases BatchCountsOnce names.
THEOREM BatchesCountedOnce == SdkSpec => []BatchCountsOnce
<1>KeptFacts. /\ \A a, b \in Int : Max({a, b}) = IF a >= b THEN a ELSE b
              /\ \A s \in Seq(KeptBatch) : Newest(s) \in Seq(KeptBatch)
                    /\ ToSet(Newest(s)) \subseteq ToSet(s)
              /\ \A s, u \in Seq(KeptBatch) :
                    MergedWith(s, u) \in Seq(KeptBatch)
                       /\ ToSet(MergedWith(s, u)) \subseteq ToSet(s) \cup ToSet(u)
    <2>1. \A a, b \in Int : Max({a, b}) = IF a >= b THEN a ELSE b
        BY DEF Max
    <2>2. ASSUME NEW s \in Seq(KeptBatch)
          PROVE  Newest(s) \in Seq(KeptBatch) /\ ToSet(Newest(s)) \subseteq ToSet(s)
        <3>. DEFINE k == Max({0, Len(s) - MaxStored})
        <3>1. k \in Nat /\ k <= Len(s)
            BY <2>1, SdkQueueAssumption
        <3>. HIDE DEF k
        <3>2. SubSeq(s, k + 1, Len(s)) \in Seq(KeptBatch)
            BY <3>1
        <3>3. DOMAIN SubSeq(s, k + 1, Len(s)) = 1..(Len(s) - k) /\ DOMAIN s = 1..Len(s)
            BY <3>1
        <3>4. \A i \in 1..(Len(s) - k) : SubSeq(s, k + 1, Len(s))[i] = s[i + k] /\ i + k \in 1..Len(s)
            BY <3>1
        <3>5. ToSet(SubSeq(s, k + 1, Len(s))) \subseteq ToSet(s)
            BY <3>3, <3>4 DEF ToSet
        <3>. QED
            BY <3>2, <3>5 DEF Newest, k
    <2>3. ASSUME NEW s \in Seq(KeptBatch), NEW u \in Seq(KeptBatch)
          PROVE  MergedWith(s, u) \in Seq(KeptBatch)
                    /\ ToSet(MergedWith(s, u)) \subseteq ToSet(s) \cup ToSet(u)
        <3>. DEFINE o == Only(u, { b \in ToSet(u) : b.event \notin Ids(s) })
        <3>1. o \in Seq(KeptBatch) /\ ToSet(o) \subseteq ToSet(u)
            BY OnlyFacts
        <3>. HIDE DEF o
        <3>2. s \o o \in Seq(KeptBatch) /\ ToSet(s \o o) \subseteq ToSet(s) \cup ToSet(o)
            BY <3>1 DEF ToSet
        <3>. QED
            BY <3>1, <3>2, <2>2 DEF MergedWith, o
    <2>. QED
        BY <2>1, <2>2, <2>3
<1>PassStep. ASSUME SdkInv, SdkTypes', UNCHANGED <<tick, made, counted, left>>,
                    overdue \subseteq overdue',
                    \A t \in Tabs : queue'[t] \subseteq queue[t],
                    \A b \in ToSend' : \/ b \in ToSend
                                       \/ b.beaconed /\ Copies(b.event) # {}
                                       \/ \E t \in Tabs : b.event \in queue[t] \ queue'[t],
                    \A m \in beacons' : \/ m \in beacons
                                        \/ /\ m.at = tick
                                           /\ \/ \E t \in Tabs : m.event \in queue[t] \ queue'[t]
                                              \/ \E b \in Copies(m.event) : b.beaconed =>
                                                    tick - made[m.event] <= ReplayAge
                                                       \/ m.event \in overdue',
                    \A r \in fetches' : \/ \E q \in fetches : q.batch = r.batch /\ q.at = r.at
                                        \/ r.at = tick /\ (r.batch.beaconed =>
                                              tick - made[r.batch.event] <= ReplayAge
                                                 \/ r.batch.event \in overdue')
             PROVE  SdkInv'
    <2>. USE <1>PassStep
    <2>1. \A b \in ToSend' : b.event \in SentEvents
        BY ToSendFacts DEF KeptBatch
    <2>2. InTime'
        <3>1. \A r \in fetches' : r.at <= tick /\ tick <= r.at + 1
            BY DEF SdkInv, InTime, SdkTypes
        <3>2. \A m \in beacons' : m.at <= tick /\ tick <= m.at + 1
            BY DEF SdkInv, InTime, SdkTypes
        <3>. QED
            BY <3>1, <3>2 DEF SdkInv, InTime
    <2>3. MadeFirst'
        BY DEF SdkInv, MadeFirst, Queued, Copies, Beaconed
    <2>4. QueuedOnce'
        BY DEF SdkInv, QueuedOnce, Queued, Copies, Beaconed
    <2>5. YoungReplays'
        BY DEF SdkInv, YoungReplays
    <2>6. OneDay'
        <3>1. SUFFICES ASSUME NEW e \in SentEvents, e \notin left, e \notin overdue', counted[e] # {}
                       PROVE  /\ \A b \in Copies(e)' : b.beaconed
                              /\ \A m \in Beaconed(e)' : m.at - made[e] <= ReplayAge
              BY DEF SdkInv, OneDay
        <3>2. \A t \in Tabs : e \notin queue[t]
            BY <3>1 DEF SdkInv, QueuedOnce
        <3>3. \A b \in Copies(e) : b.beaconed
            BY <3>1 DEF SdkInv, OneDay
        <3>4. \A m \in Beaconed(e) : m.at - made[e] <= ReplayAge
            BY <3>1 DEF SdkInv, OneDay
        <3>5. \A b \in Copies(e)' : b.beaconed
            BY <3>2, <3>3 DEF Copies
        <3>6. \A m \in Beaconed(e)' : m.at - made[e] <= ReplayAge
            BY <3>1, <3>2, <3>3, <3>4 DEF Beaconed
        <3>. QED
            BY <3>5, <3>6
    <2>. QED
        BY <2>2, <2>3, <2>4, <2>5, <2>6 DEF SdkInv
<1>ArriveStep. ASSUME SdkInv, SdkTypes', UNCHANGED <<tick, made, queue, overdue>>,
                      ToSend' \subseteq ToSend, beacons' \subseteq beacons, fetches' \subseteq fetches,
                      NEW e \in SentEvents,
                      (\E r \in fetches : r.batch.event = e) \/ (\E m \in beacons : m.event = e),
                      Counts(e) \/ UNCHANGED <<counted, left>>
               PROVE  SdkInv'
    <2>. USE <1>ArriveStep
    <2>1. Copies(e) # {} \/ Beaconed(e) # {}
        BY ToSendFacts DEF Copies, Beaconed, SdkInv, ToBeSent
    <2>2. InTime' /\ YoungReplays'
        BY DEF SdkInv, InTime, YoungReplays, SdkTypes
    <2>3. \A f \in SentEvents : counted'[f] # counted[f] => f = e
        BY DEF SdkInv, SdkTypes, Counts
    <2>4. made[e] # 0 /\ \A t \in Tabs : e \notin queue[t]
        BY <2>1 DEF SdkInv, MadeFirst, QueuedOnce
    <2>5. MadeFirst'
        BY <2>3, <2>4 DEF SdkInv, MadeFirst, Queued, Copies, Beaconed
    <2>6. QueuedOnce'
        <3>1. SUFFICES ASSUME NEW t \in Tabs, NEW f \in queue[t]
                       PROVE  /\ Copies(f)' = {} /\ Beaconed(f)' = {} /\ counted'[f] = {}
                              /\ \A u \in Tabs : f \in queue[u] => u = t
            BY DEF QueuedOnce
        <3>2. f \in SentEvents /\ f # e
            BY <2>4 DEF SdkInv, SdkTypes
        <3>. QED
            BY <3>2, <2>3 DEF SdkInv, QueuedOnce, Copies, Beaconed
    <2>7. OneDay'
        <3>1. SUFFICES ASSUME NEW f \in SentEvents, f \notin left', f \notin overdue, counted'[f] # {}
                       PROVE  /\ \A b \in Copies(f)' : b.beaconed
                              /\ \A m \in Beaconed(f)' : m.at - made[f] <= ReplayAge
                              /\ \A c, d \in counted'[f] : c = d
                              /\ \A d \in counted'[f] : tick - made[f] <= LateWindow
                                    => d = made[f] \div DayLength
            BY DEF OneDay
        <3>2. f \notin left
            BY <3>1 DEF Counts
        <3>3. CASE counted'[f] = counted[f] /\ counted[f] # {}
            BY <3>1, <3>2, <3>3 DEF SdkInv, OneDay, Copies, Beaconed
        <3>4. CASE f = e /\ Counts(e)
            <4>. DEFINE day == Max({made[e], tick - LateWindow}) \div DayLength
            <4>1. counted'[e] = counted[e] \cup {day}
                BY <3>4 DEF Counts, SdkInv, SdkTypes
            <4>2. NewBatch(e) \notin ToSend' /\ ~\E m \in beacons' : m.event = e
                BY <3>4, <3>1 DEF Counts
            <4>3. \A b \in Copies(e)' : b.beaconed
                <5>1. \A b \in ToSend : b \in KeptBatch
                    BY ToSendFacts DEF SdkInv
                <5>2. \A b \in KeptBatch : b.event = e /\ ~b.beaconed => b = NewBatch(e)
                    BY DEF KeptBatch, NewBatch
                <5>. QED
                    BY <5>1, <5>2, <4>2 DEF Copies
            <4>4. tick - made[e] <= LateWindow => day = made[e] \div DayLength
                <5>1. tick \in Int /\ made[e] \in Int /\ LateWindow \in Int
                    BY SdkQueueAssumption DEF SdkInv, SdkTypes
                <5>2. tick - made[e] <= LateWindow => made[e] >= tick - LateWindow
                         /\ tick - LateWindow \in Int
                    BY <5>1
                <5>3. tick - made[e] <= LateWindow => Max({made[e], tick - LateWindow}) = made[e]
                    BY <5>1, <5>2, <1>KeptFacts
                <5>. QED
                    BY <5>3
            <4>5. CASE counted[e] = {}
                BY <4>1, <4>2, <4>3, <4>4, <4>5, <3>4 DEF Beaconed
            <4>6. CASE counted[e] # {}
                <5>1. /\ \A b \in Copies(e) : b.beaconed
                      /\ \A m \in Beaconed(e) : m.at - made[e] <= ReplayAge
                      /\ \A c, d \in counted[e] : c = d
                      /\ \A d \in counted[e] : tick - made[e] <= LateWindow => d = made[e] \div DayLength
                    BY <3>1, <3>2, <3>4, <4>6 DEF SdkInv, OneDay
                <5>2. tick - made[e] <= LateWindow
                    <6>1. CASE \E r \in fetches : r.batch.event = e
                        <7>1. PICK r \in fetches : r.batch.event = e
                            BY <6>1
                        <7>2. r.batch \in Copies(e)
                            BY <7>1, ToSendFacts DEF Copies, SdkInv, ToBeSent
                        <7>3. r.at - made[e] <= ReplayAge
                            BY <7>1, <7>2, <5>1, <3>1, <3>4 DEF SdkInv, YoungReplays
                        <7>. QED
                            BY <7>3, SdkQueueAssumption DEF SdkInv, SdkTypes, InTime
                    <6>2. CASE \E m \in beacons : m.event = e
                        <7>1. PICK m \in beacons : m.event = e
                            BY <6>2
                        <7>2. m.at - made[e] <= ReplayAge
                            BY <7>1, <5>1 DEF Beaconed
                        <7>. QED
                            BY <7>2, SdkQueueAssumption DEF SdkInv, SdkTypes, InTime
                    <6>. QED
                        BY <6>1, <6>2
                <5>3. \A d \in counted'[e] : d = made[e] \div DayLength
                    BY <4>1, <4>4, <5>1, <5>2
                <5>. QED
                    BY <5>1, <5>3, <4>2, <4>3, <3>4 DEF Beaconed
            <4>. QED
                BY <4>5, <4>6
        <3>. QED
            BY <3>1, <3>3, <3>4, <2>3 DEF Counts
    <2>. QED
        BY <2>2, <2>5, <2>6, <2>7 DEF SdkInv
<1>. USE SdkQueueAssumption
<1>1. SdkInit => SdkInv
    <2>. SUFFICES ASSUME SdkInit PROVE SdkInv
        OBVIOUS
    <2>1. SdkTypes /\ InTime
        BY DEF SdkInit, SdkTypes, InTime
    <2>2. \A e : ~Queued(e) /\ Copies(e) = {} /\ Beaconed(e) = {}
        <3>1. ToSet(<<>>) = {}
            BY DEF ToSet
        <3>2. ToSend = {}
            BY <2>1, <3>1, ToSendFacts DEF SdkInit, ToBeSent
        <3>. QED
            BY <3>2 DEF SdkInit, Queued, Copies, Beaconed
    <2>. QED
        BY <2>1, <2>2 DEF SdkInit, SdkInv, MadeFirst, QueuedOnce, YoungReplays, OneDay
<1>2. ASSUME SdkInv, [SdkNext]_sdkVars PROVE SdkInv'
    <2>. USE <1>2
    <2>1. SdkTypes /\ \A b : b \in ToSend <=> ToBeSent(b)
        BY ToSendFacts DEF SdkInv
    <2>2. \A s \in Seq(KeptBatch) : ToSet(s) \subseteq KeptBatch
        BY DEF ToSet
    <2>. DEFINE CountsInt == \A e \in SentEvents : Counts(e) => counted' \in [SentEvents -> SUBSET Int]
    <2>0. CountsInt
        <3>1. ASSUME NEW e \in SentEvents, Counts(e) PROVE counted' \in [SentEvents -> SUBSET Int]
            <4>. DEFINE m == Max({made[e], tick - LateWindow})
            <4>1. m \in Int
                <5>1. made[e] \in Int /\ tick - LateWindow \in Int
                    BY <2>1, SdkQueueAssumption DEF SdkTypes
                <5>. QED
                    BY <5>1, <1>KeptFacts
            <4>. HIDE DEF m
            <4>2. m \div DayLength \in Int
                BY <4>1, SdkQueueAssumption
            <4>3. counted' = [counted EXCEPT ![e] = @ \cup {m \div DayLength}]
                BY <3>1 DEF Counts, m
            <4>. QED
                BY <4>2, <4>3, <2>1 DEF SdkTypes
        <3>. QED
            BY <3>1
    <2>3. ASSUME NEW t \in Tabs, NEW e \in SentEvents, Emits(t, e) PROVE SdkInv'
        <3>1. SdkTypes'
            BY <2>3, <2>1 DEF Emits, SdkTypes, wireVars
        <3>2. ToSend' = ToSend
            BY <2>3 DEF Emits, wireVars, ToSend
        <3>3. ~Queued(e) /\ Copies(e) = {} /\ Beaconed(e) = {} /\ counted[e] = {}
            BY <2>3 DEF Emits, SdkInv, MadeFirst
        <3>4. made'[e] = tick /\ \A f \in SentEvents : f # e => made'[f] = made[f]
            BY <2>3, <2>1 DEF Emits, SdkTypes
        <3>5. \A u \in Tabs : queue'[u] = IF u = t THEN queue[u] \cup {e} ELSE queue[u]
            BY <2>3, <2>1 DEF Emits, SdkTypes
        <3>6. \A f : Copies(f)' = Copies(f) /\ Beaconed(f)' = Beaconed(f)
            BY <2>3, <3>2 DEF Emits, wireVars, Copies, Beaconed
        <3>7. UNCHANGED <<tick, fetches, beacons, counted, left, overdue>>
            BY <2>3 DEF Emits, wireVars
        <3>8. InTime'
            BY <3>4, <3>7 DEF SdkInv, InTime, SdkTypes
        <3>9. MadeFirst'
            <4>1. made'[e] # 0
                BY <3>4 DEF SdkInv, InTime, SdkTypes
            <4>2. \A f \in SentEvents : f # e /\ Queued(f)' => Queued(f)
                BY <3>5 DEF Queued
            <4>. QED
                BY <4>1, <4>2, <3>4, <3>6, <3>7 DEF SdkInv, MadeFirst
        <3>10. QueuedOnce'
            <4>1. ASSUME NEW u \in Tabs, NEW f \in queue'[u]
                  PROVE  /\ Copies(f) = {} /\ Beaconed(f) = {} /\ counted[f] = {}
                         /\ \A v \in Tabs : f \in queue'[v] => v = u
                <5>1. CASE f = e
                    BY <5>1, <4>1, <3>3, <3>5 DEF Queued
                <5>2. CASE f # e
                    <6>1. \A v \in Tabs : f \in queue'[v] <=> f \in queue[v]
                        BY <5>2, <3>5
                    <6>. QED
                        BY <6>1, <4>1 DEF SdkInv, QueuedOnce
                <5>. QED
                    BY <5>1, <5>2
            <4>. QED
                BY <4>1, <3>6, <3>7 DEF QueuedOnce
        <3>11. YoungReplays'
            <4>1. \A r \in fetches : r.batch.event \in SentEvents /\ r.batch.event # e
                <5>1. \A r \in fetches : r.batch.event \in SentEvents /\ r.batch \in ToSend
                    BY <2>1 DEF SdkTypes, KeptBatch, ToBeSent
                <5>. QED
                    BY <5>1, <3>3 DEF Copies
            <4>. QED
                BY <4>1, <3>4, <3>7 DEF SdkInv, YoungReplays
        <3>12. OneDay'
            <4>1. \A f \in SentEvents : counted'[f] # {} => f # e /\ counted[f] # {} /\ made'[f] = made[f]
                BY <3>3, <3>4, <3>7
            <4>. QED
                BY <4>1, <3>6, <3>7 DEF SdkInv, OneDay
        <3>. QED
            BY <3>1, <3>8, <3>9, <3>10, <3>11, <3>12 DEF SdkInv
    <2>4. ASSUME NEW t \in Tabs, SendsQueued(t) PROVE SdkInv'
        <3>1. \A e \in SentEvents : NewBatch(e) \in KeptBatch /\ NewBatch(e).event = e
                 /\ ~NewBatch(e).beaconed
            BY DEF NewBatch, KeptBatch
        <3>2. queue[t] \subseteq SentEvents /\ queue' = [queue EXCEPT ![t] = {}]
            BY <2>4, <2>1 DEF SendsQueued, SdkTypes
        <3>3. \A r \in fetches' : r \in fetches \/ \E e \in queue[t] : r = Request(t, NewBatch(e))
            BY <2>4 DEF SendsQueued, Requests
        <3>4. SdkTypes'
            <4>1. fetches' \subseteq [tab : Tabs \cup {"gone"}, batch : KeptBatch, at : Nat]
                BY <3>1, <3>2, <3>3, <2>1 DEF SdkTypes, Request
            <4>. QED
                BY <4>1, <3>2, <2>1, <2>4 DEF SdkTypes, SendsQueued
        <3>5. \A b \in ToSend' : b \in ToSend \/ b.event \in queue[t]
            <4>1. \A b \in ToSend' : ToBeSent(b)'
                BY <3>4, ToSendFacts
            <4>2. \A r \in fetches' : r.batch \in ToSend \/ r.batch.event \in queue[t]
                BY <3>1, <3>2, <3>3, <2>1 DEF ToBeSent, Request
            <4>. QED
                BY <4>1, <4>2, <2>1, <2>4 DEF ToBeSent, SendsQueued
        <3>6. \A r \in fetches' : \/ \E q \in fetches : q.batch = r.batch /\ q.at = r.at
                                  \/ r.at = tick /\ ~r.batch.beaconed
            <4>1. \A b : Request(t, b).batch = b /\ Request(t, b).at = tick
                BY DEF Request
            <4>2. ASSUME NEW e \in queue[t], NEW r, r = Request(t, NewBatch(e))
                  PROVE  r.at = tick /\ ~r.batch.beaconed
                BY <4>1, <4>2, <3>1, <3>2
            <4>. QED
                BY <4>2, <3>3, Zenon
        <3>7. queue'[t] = {} /\ \A u \in Tabs : queue'[u] \subseteq queue[u]
            BY <3>2, <2>1 DEF SdkTypes
        <3>8. UNCHANGED <<tick, made, counted, left, overdue, beacons>>
            BY <2>4 DEF SendsQueued
        <3>. QED
            BY <3>4, <3>5, <3>6, <3>7, <3>8, <1>PassStep
    <2>5. ASSUME NEW t \in Tabs, Unloads(t) PROVE SdkInv'
        <3>1. PICK A \in SUBSET (queue[t] \cup Ids(pending[t])) :
                LET taken  == { b \in ToSet(pending[t]) : b.event \in A }
                    others == (ToSet(pending[t]) \ taken) \cup { NewBatch(e) : e \in queue[t] \ A }
                    mark(b) == IF \E o \in taken : o.event = b.event
                               THEN [b EXCEPT !.beaconed = TRUE] ELSE b IN
                /\ beacons' = beacons \cup { [event |-> e, at |-> tick] : e \in A }
                /\ fetches' = fetches \cup Requests(t, others)
                /\ pending' = [pending EXCEPT ![t] = Only(@, ToSet(@) \ taken)]
                /\ Saves([i \in DOMAIN kept |-> mark(kept[i])])
                /\ overdue' = overdue \cup { b.event : b \in { o \in ToSet(pending[t]) :
                                 o.beaconed /\ tick - made[o.event] > ReplayAge } }
            BY <2>5, Zenon DEF Unloads
        <3>. DEFINE P == ToSet(pending[t])
                    taken == { b \in P : b.event \in A }
                    others == (P \ taken) \cup { NewBatch(e) : e \in queue[t] \ A }
                    mark(b) == IF \E o \in taken : o.event = b.event
                               THEN [b EXCEPT !.beaconed = TRUE] ELSE b
                    marked == [i \in DOMAIN kept |-> mark(kept[i])]
        <3>2. /\ UNCHANGED <<tick, consent, made, opened, counted, left, losses>>
              /\ queue' = [queue EXCEPT ![t] = {}]
              /\ beacons' = beacons \cup { [event |-> e, at |-> tick] : e \in A }
              /\ fetches' = fetches \cup Requests(t, others)
              /\ pending' = [pending EXCEPT ![t] = Only(@, ToSet(@) \ taken)]
              /\ kept' = marked \/ kept' = kept
              /\ overdue' = overdue \cup { b.event : b \in { o \in P :
                                o.beaconed /\ tick - made[o.event] > ReplayAge } }
            BY <2>5, <3>1 DEF Unloads, Saves
        <3>3. pending[t] \in Seq(KeptBatch) /\ P \subseteq KeptBatch /\ P \subseteq ToSend
            BY <2>1, <2>2 DEF SdkTypes, ToBeSent
        <3>4. \A e \in A : e \in queue[t] \/ \E b \in P : b.event = e
            BY <3>3 DEF Ids, ToSet
        <3>5. \A e \in queue[t] : e \in SentEvents /\ NewBatch(e) \in KeptBatch
                                 /\ NewBatch(e).event = e /\ ~NewBatch(e).beaconed
            BY <2>1 DEF SdkTypes, NewBatch, KeptBatch
        <3>6. \A b \in KeptBatch : mark(b) \in KeptBatch /\ mark(b).event = b.event
                 /\ (mark(b) = b \/ mark(b).beaconed)
            BY DEF KeptBatch
        <3>7. marked \in Seq(KeptBatch) /\ \A b \in ToSet(marked) : \E c \in ToSet(kept) : b = mark(c)
            <4>1. kept \in Seq(KeptBatch) /\ DOMAIN kept = 1..Len(kept) /\ Len(kept) \in Nat
                BY <2>1 DEF SdkTypes
            <4>2. \A i \in 1..Len(kept) : mark(kept[i]) \in KeptBatch
                BY <4>1, <3>6
            <4>3. marked \in [1..Len(kept) -> KeptBatch]
                BY <4>1, <4>2
            <4>4. marked \in Seq(KeptBatch)
                BY <4>1, <4>3
            <4>5. DOMAIN marked = DOMAIN kept /\ \A i \in DOMAIN kept : marked[i] = mark(kept[i])
                OBVIOUS
            <4>. QED
                BY <4>4, <4>5 DEF ToSet
        <3>. HIDE DEF P, mark, marked
        <3>8. \A b \in others : \/ b \in P
                                \/ \E e \in queue[t] : b = NewBatch(e)
            OBVIOUS
        <3>9. \A b \in others : b \in KeptBatch
            BY <3>3, <3>5, <3>8
        <3>. HIDE DEF others
        <3>10. \A r \in fetches' : r \in fetches \/ \E b \in others : r = Request(t, b)
            BY <3>2 DEF Requests
        <3>11. \A b : Request(t, b).batch = b /\ Request(t, b).at = tick
            BY DEF Request
        <3>12. pending' \in [Tabs -> Seq(KeptBatch)]
               /\ \A u \in Tabs : ToSet(pending'[u]) \subseteq ToSet(pending[u])
            <4>1. Only(pending[t], ToSet(pending[t]) \ taken) \in Seq(KeptBatch)
                  /\ ToSet(Only(pending[t], ToSet(pending[t]) \ taken)) \subseteq ToSet(pending[t])
                BY <3>3, OnlyFacts
            <4>. HIDE DEF taken
            <4>. QED
                BY <3>2, <4>1, <2>1 DEF SdkTypes
        <3>13. SdkTypes'
            <4>1. \A r \in fetches' : r \in [tab : Tabs \cup {"gone"}, batch : KeptBatch, at : Nat]
                BY <3>9, <3>10, <2>1 DEF SdkTypes, Request
            <4>2. \A e \in A : e \in SentEvents
                BY <3>4, <3>5, <3>3 DEF KeptBatch
            <4>3. beacons' \subseteq [event : SentEvents, at : Nat]
                BY <3>2, <4>2, <2>1 DEF SdkTypes
            <4>4. kept' \in Seq(KeptBatch)
                BY <3>2, <3>7, <2>1 DEF SdkTypes
            <4>. QED
                BY <4>1, <4>3, <4>4, <3>12, <3>2, <2>1 DEF SdkTypes
        <3>14. queue'[t] = {} /\ \A u \in Tabs : queue'[u] \subseteq queue[u]
            BY <3>2, <2>1 DEF SdkTypes
        <3>15. \A b \in ToSend' : \/ b \in ToSend
                                  \/ b.beaconed /\ Copies(b.event) # {}
                                  \/ \E u \in Tabs : b.event \in queue[u] \ queue'[u]
            <4>1. SUFFICES ASSUME NEW b, ToBeSent(b)'
                           PROVE  \/ b \in ToSend
                                  \/ b.beaconed /\ Copies(b.event) # {}
                                  \/ b.event \in queue[t]
                <5>1. \A b \in ToSend' : ToBeSent(b)'
                    BY <3>13, ToSendFacts
                <5>. QED
                    BY <5>1, <3>14, Zenon
            <4>2. ASSUME b \in ToSet(kept')
                  PROVE  b \in ToSend \/ (b.beaconed /\ Copies(b.event) # {})
                <5>1. CASE kept' = kept
                    <6>1. b \in ToSet(kept)
                        BY <4>2, <5>1
                    <6>2. ToBeSent(b)
                        BY <6>1 DEF ToBeSent
                    <6>. QED
                        BY <6>2, <2>1, Zenon
                <5>2. CASE kept' = marked
                    <6>1. PICK c \in ToSet(kept) : b = mark(c)
                        BY <4>2, <5>2, <3>7
                    <6>2. c \in ToSend /\ c \in KeptBatch
                        BY <2>1, <2>2 DEF ToBeSent, SdkTypes
                    <6>. QED
                        BY <6>1, <6>2, <3>6 DEF Copies
                <5>. QED
                    BY <5>1, <5>2, <3>2
            <4>3. ASSUME NEW u \in Tabs, b \in ToSet(pending'[u]) PROVE b \in ToSend
                BY <4>3, <3>12, <2>1 DEF ToBeSent
            <4>4. ASSUME NEW r \in fetches', b = r.batch PROVE b \in ToSend \/ b.event \in queue[t]
                BY <4>4, <3>3, <3>5, <3>8, <3>10, <3>11, <2>1 DEF ToBeSent
            <4>. QED
                BY <4>1, <4>2, <4>3, <4>4 DEF ToBeSent
        <3>16. \A b \in P : b.beaconed => tick - made[b.event] <= ReplayAge \/ b.event \in overdue'
            <4>1. \A b \in P : tick \in Int /\ made[b.event] \in Int
                BY <3>3, <2>1 DEF SdkTypes, KeptBatch
            <4>. QED
                BY <3>2, <4>1, SdkQueueAssumption
        <3>17. ASSUME NEW m \in beacons'
               PROVE  \/ m \in beacons
                      \/ /\ m.at = tick
                         /\ \/ \E u \in Tabs : m.event \in queue[u] \ queue'[u]
                            \/ \E b \in Copies(m.event) : b.beaconed =>
                                  tick - made[m.event] <= ReplayAge \/ m.event \in overdue'
            <4>1. CASE m \in beacons
                BY <4>1
            <4>2. ASSUME NEW e \in A, m = [event |-> e, at |-> tick]
                  PROVE  /\ m.at = tick
                         /\ \/ m.event \in queue[t]
                            \/ \E b \in Copies(m.event) : b.beaconed =>
                                  tick - made[m.event] <= ReplayAge \/ m.event \in overdue'
                <5>1. m.at = tick /\ m.event = e
                    BY <4>2
                <5>2. CASE \E b \in P : b.event = e
                    BY <5>1, <5>2, <3>3, <3>16 DEF Copies
                <5>. QED
                    BY <5>1, <5>2, <3>4
            <4>. QED
                BY <4>1, <4>2, <3>2, <3>14
        <3>18. ASSUME NEW r \in fetches'
               PROVE  \/ \E q \in fetches : q.batch = r.batch /\ q.at = r.at
                      \/ r.at = tick /\ (r.batch.beaconed =>
                            tick - made[r.batch.event] <= ReplayAge \/ r.batch.event \in overdue')
            <4>1. ASSUME NEW b \in others, r = Request(t, b)
                  PROVE  r.at = tick /\ (r.batch.beaconed =>
                            tick - made[r.batch.event] <= ReplayAge \/ r.batch.event \in overdue')
                <5>1. r.batch = b /\ r.at = tick
                    BY <4>1, <3>11
                <5>2. CASE b \in P
                    BY <5>1, <5>2, <3>16
                <5>3. CASE \E e \in queue[t] : b = NewBatch(e)
                    BY <5>1, <5>3, <3>5
                <5>. QED
                    BY <5>2, <5>3, <3>8
            <4>. QED
                BY <4>1, <3>10, Zenon
        <3>. QED
            BY <3>2, <3>13, <3>14, <3>15, <3>17, <3>18, <1>PassStep
    <2>6. ASSUME NEW t \in Tabs, Replayed(t), UNCHANGED <<tick, consent, made, queue, beacons, counted,
                 left, overdue>>,
                 opened' \subseteq Tabs
          PROVE  SdkInv'
        <3>. DEFINE all == IF consent THEN MergedWith(kept, pending[t]) ELSE pending[t]
        <3>1. all \in Seq(KeptBatch) /\ ToSet(all) \subseteq ToSend
            <4>1. ToSet(kept) \subseteq ToSend /\ ToSet(pending[t]) \subseteq ToSend
                BY <2>1 DEF ToBeSent
            <4>. QED
                BY <4>1, <2>1, <1>KeptFacts DEF SdkTypes
        <3>2. fetches' = fetches \cup Requests(t, { b \in ToSet(all) : ReplaySafe(b) })
            BY <2>6 DEF Replayed
        <3>. HIDE DEF all
        <3>3. \A r \in fetches' : r \in fetches \/ \E b \in ToSet(all) : ReplaySafe(b)
                 /\ r = Request(t, b)
            BY <3>2 DEF Requests
        <3>4. pending' = [pending EXCEPT ![t] = <<>>] /\ (kept' = kept \/ kept' = <<>>)
            BY <2>6 DEF Replayed, Saves
        <3>5. SdkTypes'
            <4>1. fetches' \subseteq [tab : Tabs \cup {"gone"}, batch : KeptBatch, at : Nat]
                BY <3>1, <3>3, <2>1, <2>2 DEF SdkTypes, Request
            <4>2. pending' \in [Tabs -> Seq(KeptBatch)]
                <5>1. <<>> \in Seq(KeptBatch)
                    OBVIOUS
                <5>. QED
                    BY <5>1, <3>4, <2>1 DEF SdkTypes
            <4>3. kept' \in Seq(KeptBatch)
                <5>1. <<>> \in Seq(KeptBatch)
                    OBVIOUS
                <5>. QED
                    BY <5>1, <3>4, <2>1 DEF SdkTypes
            <4>. QED
                BY <4>1, <4>2, <4>3, <2>1, <2>6 DEF SdkTypes
        <3>6. ToSend' \subseteq ToSend
            <4>1. ToSet(<<>>) = {}
                BY DEF ToSet
            <4>2. \A u \in Tabs : ToSet(pending'[u]) \subseteq ToSet(pending[u])
                BY <3>4, <4>1, <2>1 DEF SdkTypes
            <4>3. ToSet(kept') \subseteq ToSet(kept)
                BY <3>4, <4>1
            <4>4. \A r \in fetches' : r.batch \in ToSend
                BY <3>1, <3>3, <2>1 DEF Request, ToBeSent
            <4>. QED
                BY <4>2, <4>3, <4>4, <3>5, <2>1, ToSendFacts DEF ToBeSent
        <3>7. \A r \in fetches' : \/ \E q \in fetches : q.batch = r.batch /\ q.at = r.at
                                  \/ r.at = tick /\ (r.batch.beaconed
                                        => tick - made[r.batch.event] <= ReplayAge)
            <4>1. \A b : Request(t, b).batch = b /\ Request(t, b).at = tick
                BY DEF Request
            <4>2. \A b : ReplaySafe(b) => (b.beaconed => tick - made[b.event] <= ReplayAge)
                BY DEF ReplaySafe
            <4>3. ASSUME NEW b \in ToSet(all), NEW r, ReplaySafe(b), r = Request(t, b)
                  PROVE  r.at = tick /\ (r.batch.beaconed => tick - made[r.batch.event] <= ReplayAge)
                BY <4>1, <4>2, <4>3
            <4>. QED
                BY <3>3, <4>3, Zenon
        <3>. QED
            BY <2>6, <3>5, <3>6, <3>7, <1>PassStep
    <2>7. ASSUME NEW t \in Tabs, ClosesTab(t) PROVE SdkInv'
        <3>1. \A r \in fetches' : \E q \in fetches : /\ q.batch = r.batch /\ q.at = r.at
                                                     /\ r.tab \in Tabs \cup {"gone"}
                                                           /\ r \in [tab : Tabs \cup {"gone"},
                                                              batch : KeptBatch, at : Nat]
            BY <2>7, <2>1 DEF ClosesTab, SdkTypes
        <3>2. ToSet(<<>>) = {}
            BY DEF ToSet
        <3>3. \A u \in Tabs : queue'[u] \subseteq queue[u]
                 /\ ToSet(pending'[u]) \subseteq ToSet(pending[u])
            BY <2>7, <2>1, <3>2 DEF ClosesTab, SdkTypes
        <3>4. SdkTypes'
            BY <3>1, <2>7, <2>1 DEF ClosesTab, SdkTypes
        <3>5. ToSend' \subseteq ToSend
            <4>1. \A b \in ToSend' : ToBeSent(b)'
                BY <3>4, ToSendFacts
            <4>2. \A r \in fetches' : r.batch \in ToSend
                BY <3>1, <2>1 DEF ToBeSent
            <4>3. \A u \in Tabs : ToSet(pending[u]) \subseteq ToSend
                BY <2>1 DEF ToBeSent
            <4>4. ToSet(kept') \subseteq ToSend
                BY <2>1, <2>7 DEF ToBeSent, ClosesTab
            <4>. QED
                BY <4>1, <4>2, <4>3, <4>4, <3>3 DEF ToBeSent
        <3>. QED
            BY <2>7, <3>1, <3>3, <3>4, <3>5, <1>PassStep DEF ClosesTab
    <2>8. ASSUME NEW r \in fetches, Delivered(r) PROVE SdkInv'
        <3>1. SdkTypes' /\ r.batch.event \in SentEvents
            <4>1. r.batch \in KeptBatch /\ r.batch.event \in SentEvents
                BY <2>1 DEF SdkTypes, KeptBatch
            <4>2. counted' \in [SentEvents -> SUBSET Int]
                BY <4>1, <2>8, <2>0, <2>1 DEF Delivered
            <4>. QED
                BY <4>1, <4>2, <2>8, <2>1 DEF Delivered, SdkTypes, tabVars
        <3>2. ToSend' \subseteq ToSend
            BY <3>1, <2>1, <2>8, ToSendFacts DEF Delivered, tabVars, ToBeSent
        <3>. QED
            BY <3>1, <3>2, <2>8, <1>ArriveStep DEF Delivered, tabVars
    <2>9. ASSUME NEW r \in fetches, Fails(r) PROVE SdkInv'
        <3>1. r.batch \in KeptBatch /\ r.batch.event \in SentEvents
            BY <2>1 DEF SdkTypes, KeptBatch
        <3>2. UNCHANGED <<tick, consent, made, opened, queue, beacons, overdue>>
                 /\ fetches' = fetches \ {r}
            BY <2>9 DEF Fails
        <3>3. /\ pending' \in [Tabs -> Seq(KeptBatch)] /\ kept' \in Seq(KeptBatch)
              /\ \A u \in Tabs : ToSet(pending'[u]) \subseteq ToSend
              /\ ToSet(kept') \subseteq ToSend
            <4>1. \A u \in Tabs : ToSet(pending[u]) \subseteq ToSend
                BY <2>1 DEF ToBeSent
            <4>2. ToSet(kept) \subseteq ToSend /\ r.batch \in ToSend
                BY <2>1 DEF ToBeSent
            <4>3. CASE UNCHANGED <<pending, kept>>
                BY <4>1, <4>2, <4>3, <2>1 DEF SdkTypes
            <4>4. CASE r.tab \in opened /\ StoresFailed(r) /\ ~UNCHANGED <<pending, kept>>
                <5>. DEFINE a == Append(pending[r.tab], r.batch)
                            n == Newest(a)
                <5>1. r.tab \in Tabs /\ pending[r.tab] \in Seq(KeptBatch)
                    BY <4>4, <2>1 DEF SdkTypes
                <5>2. a \in Seq(KeptBatch) /\ ToSet(a) = ToSet(pending[r.tab]) \cup {r.batch}
                    BY <5>1, <3>1, AppendSet
                <5>3. n \in Seq(KeptBatch) /\ ToSet(n) \subseteq ToSend
                    <6>1. ToSet(a) \subseteq ToSend
                        BY <5>1, <5>2, <4>1, <4>2
                    <6>. HIDE DEF a
                    <6>. QED
                        BY <5>2, <6>1, <1>KeptFacts
                <5>4. pending' = [pending EXCEPT ![r.tab] = n]
                    BY <4>4 DEF StoresFailed
                <5>5. kept' = pending'[r.tab] \/ kept' = kept
                    BY <4>4 DEF StoresFailed, Saves
                <5>. HIDE DEF n
                <5>. QED
                    BY <5>1, <5>3, <5>4, <5>5, <4>1, <4>2, <2>1 DEF SdkTypes
            <4>. QED
                BY <4>3, <4>4, <2>9 DEF Fails, StoresFailed
        <3>4. Counts(r.batch.event) \/ UNCHANGED <<counted, left>>
            BY <2>9 DEF Fails
        <3>5. counted' \in [SentEvents -> SUBSET Int]
            BY <3>1, <3>4, <2>0, <2>1 DEF SdkTypes
        <3>6. SdkTypes'
            BY <3>2, <3>3, <3>5, <2>1 DEF SdkTypes
        <3>7. ToSend' \subseteq ToSend
            BY <3>2, <3>3, <3>6, <2>1, ToSendFacts DEF ToBeSent
        <3>. QED
            BY <3>1, <3>2, <3>4, <3>6, <3>7, <1>ArriveStep
    <2>10. ASSUME NEW m \in beacons, BeaconEnds(m) PROVE SdkInv'
        <3>1. m.event \in SentEvents /\ (Counts(m.event) \/ UNCHANGED <<counted, left>>)
            BY <2>10, <2>1 DEF BeaconEnds, SdkTypes
        <3>2. counted' \in [SentEvents -> SUBSET Int]
            BY <3>1, <2>0, <2>1 DEF SdkTypes
        <3>3. SdkTypes'
            BY <3>2, <2>10, <2>1 DEF BeaconEnds, SdkTypes, tabVars
        <3>4. ToSend' \subseteq ToSend
            BY <3>3, <2>1, <2>10, ToSendFacts DEF BeaconEnds, tabVars, ToBeSent
        <3>. QED
            BY <3>1, <3>3, <3>4, <2>10, <1>ArriveStep DEF BeaconEnds, tabVars
    <2>11. CASE Ticks
        <3>1. tick' = tick + 1 /\ UNCHANGED <<consent, made, tabVars, kept, wireVars, losses>>
            BY <2>11 DEF Ticks
        <3>2. SdkTypes' /\ ToSend' = ToSend
            BY <3>1, <2>1 DEF SdkTypes, tabVars, wireVars, ToSend
        <3>3. InTime'
            BY <2>11, <3>1, <2>1 DEF Ticks, SdkInv, InTime, SdkTypes, wireVars
        <3>4. MadeFirst' /\ QueuedOnce' /\ YoungReplays'
            BY <3>1, <3>2
               DEF SdkInv, MadeFirst, QueuedOnce, YoungReplays, Queued, Copies, Beaconed, tabVars,
                   wireVars
        <3>5. OneDay'
            <4>1. \A e \in SentEvents : tick' - made[e] <= LateWindow => tick - made[e] <= LateWindow
                BY <3>1, <2>1 DEF SdkTypes
            <4>. QED
                BY <4>1, <3>1, <3>2 DEF SdkInv, OneDay, Copies, Beaconed, tabVars, wireVars
        <3>. QED
            BY <3>2, <3>3, <3>4, <3>5 DEF SdkInv
    <2>12. CASE Consents \/ UNCHANGED sdkVars
        <3>1. UNCHANGED <<tick, made, tabVars, kept, wireVars, losses>>
            BY <2>12 DEF Consents, sdkVars
        <3>2. ToSend' = ToSend /\ SdkTypes'
            BY <3>1, <2>1 DEF ToSend, SdkTypes, tabVars, wireVars
        <3>. QED
            BY <3>1, <3>2 DEF SdkInv, InTime, MadeFirst, QueuedOnce, YoungReplays, OneDay,
                              Queued, Copies, Beaconed, tabVars, wireVars
    <2>13. ASSUME NEW t \in Tabs, OpensTab(t) \/ ComesOnline(t) PROVE SdkInv'
        <3>1. Replayed(t) /\ UNCHANGED <<tick, consent, made, queue, beacons, counted, left, overdue>>
            BY <2>13 DEF OpensTab, ComesOnline
        <3>2. opened' \subseteq Tabs
            BY <2>13, <2>1 DEF OpensTab, ComesOnline, SdkTypes
        <3>. QED
            BY <3>1, <3>2, <2>6
    <2>. QED
        BY <2>3, <2>4, <2>5, <2>7, <2>8, <2>9, <2>10, <2>11, <2>12, <2>13 DEF SdkNext
<1>3. SdkInv => BatchCountsOnce
    <2>1. SUFFICES ASSUME SdkInv, NEW e \in SentEvents \ (left \cup overdue)
                   PROVE  Cardinality(counted[e]) \in {0, 1}
        <3>1. \A n \in {0, 1} : ~(n > 1)
            OBVIOUS
        <3>. QED
            BY <3>1 DEF BatchCountsOnce
    <2>2. CASE counted[e] = {}
        BY <2>2, FS_EmptySet
    <2>3. CASE counted[e] # {}
        <3>1. PICK d \in counted[e] : TRUE
            BY <2>3
        <3>2. counted[e] = {d}
            BY <2>1, <2>3, <3>1 DEF SdkInv, OneDay
        <3>. QED
            BY <3>2, FS_Singleton
    <2>. QED
        BY <2>2, <2>3
<1>. QED
    BY <1>1, <1>2, <1>3, PTL DEF SdkSpec

-----------------------------------------------------------------------------
(* The ingest buffer.                                                      *)

PipelineTypes ==
    /\ call \in [Events -> {"none", "send", "full", "returned"}]
    /\ ch \in Seq(Events) /\ batch \in Seq(Events) /\ order \in Seq(Events) /\ written \in Seq(Events)
    /\ evicted \subseteq Events /\ givenUp \subseteq Events

\* What the channel took, each event once, and where it is.
Taken ==
    /\ IsInjective(order) /\ ToSet(order) = { e \in Events : call[e] = "returned" }
    /\ evicted \cup givenUp \subseteq ToSet(order)
    /\ written \o batch \o ch = Only(order, Events \ (evicted \cup givenUp))
    /\ dropped = Cardinality(evicted)

ShutDown ==
    /\ worker \in {"drain", "lastWrite", "exited"} => server = "stopped"
    /\ server = "stopped" /\ ~late => Calling = {}
    /\ worker \in {"lastWrite", "exited"} /\ ~late => ch = <<>>
    /\ worker = "exited" => batch = <<>>

PipelineInv == PipelineTypes /\ Taken /\ ShutDown

\* A sequence without the elements of a part, none of which is elsewhere in it.
LEMMA OnlyWithout ==
    ASSUME NEW X, NEW u \in Seq(X), NEW v \in Seq(X), NEW w \in Seq(X), IsInjective(u \o v \o w)
    PROVE  Only(u \o v \o w, X \ ToSet(v)) = u \o w
<1>. DEFINE S == X \ ToSet(v)
<1>1. u \o v \in Seq(X) /\ ToSet(u) \subseteq X /\ ToSet(w) \subseteq X
    BY DEF ToSet
<1>2. ToSet(u) \cap ToSet(v) = {} /\ ToSet(w) \cap ToSet(v) = {}
    <2>. DEFINE s == u \o v \o w
    <2>1. \A i \in 1..Len(u) : i \in DOMAIN s /\ s[i] = u[i]
        OBVIOUS
    <2>2. \A i \in 1..Len(v) : Len(u) + i \in DOMAIN s /\ s[Len(u) + i] = v[i]
        OBVIOUS
    <2>3. \A i \in 1..Len(w) : Len(u) + Len(v) + i \in DOMAIN s /\ s[Len(u) + Len(v) + i] = w[i]
        OBVIOUS
    <2>4. \A i, j \in DOMAIN s : s[i] = s[j] => i = j
        BY DEF IsInjective
    <2>. HIDE DEF s
    <2>5. \A i \in 1..Len(u), j \in 1..Len(v) : u[i] # v[j]
        BY <2>1, <2>2, <2>4
    <2>6. \A i \in 1..Len(w), j \in 1..Len(v) : w[i] # v[j]
        BY <2>3, <2>2, <2>4
    <2>7. DOMAIN u = 1..Len(u) /\ DOMAIN v = 1..Len(v) /\ DOMAIN w = 1..Len(w)
        OBVIOUS
    <2>. QED
        BY <2>5, <2>6, <2>7 DEF ToSet
<1>3. Only(u, S) = u /\ Only(w, S) = w
    BY <1>1, <1>2, OnlyFacts
<1>4. Only(v, S) = <<>>
    BY OnlyFacts
<1>. HIDE DEF S
<1>5. Only((u \o v) \o w, S) = Only(u \o v, S) \o Only(w, S)
    <2>. DEFINE q == u \o v
    <2>1. q \in Seq(X)
        BY <1>1
    <2>. HIDE DEF q
    <2>2. Only(q \o w, S) = Only(q, S) \o Only(w, S)
        BY <2>1, OnlyConcat
    <2>. QED
        BY <2>2 DEF q
<1>6. Only(u \o v, S) = Only(u, S) \o Only(v, S)
    BY OnlyConcat
<1>7. u \o <<>> = u
    OBVIOUS
<1>. QED
    BY <1>3, <1>4, <1>5, <1>6, <1>7 DEF S

\* Events pass from the handlers to the log, or to one of the two losses, whole.
THEOREM EventsConserved == PipelineSpec => []Conserved
<1>. USE PipelineAssumption
<1>1. PipelineInit => PipelineInv
    <2>. SUFFICES ASSUME PipelineInit PROVE PipelineInv
        OBVIOUS
    <2>1. ToSet(<<>>) = {} /\ IsInjective(<<>>) /\ <<>> \o <<>> \o <<>> = <<>>
        BY DEF ToSet, IsInjective
    <2>. QED
        BY <2>1, OnlyStep, FS_EmptySet
           DEF PipelineInit, PipelineInv, PipelineTypes, Taken, ShutDown
<1>2. ASSUME PipelineInv, [PipelineNext]_pipelineVars PROVE PipelineInv'
    <2>. USE <1>2
    <2>. USE DEF channelVars, workerVars, serverVars
    <2>0. PipelineTypes
        BY DEF PipelineInv
    <2>1. ASSUME NEW e \in Events, Calls(e) PROVE PipelineInv'
        <3>1. PipelineTypes' /\ ToSet(order') = ToSet(order)
                 /\ \A f \in Events : call'[f] = "returned" <=> call[f] = "returned"
            BY <2>1, <2>0 DEF Calls, PipelineTypes
        <3>. QED
            BY <2>1, <3>1 DEF Calls, PipelineInv, Taken, ShutDown
    <2>2. ASSUME NEW e \in Events, Sends(e) PROVE PipelineInv'
        <3>. DEFINE S == Events \ (evicted \cup givenUp)
        <3>1. PipelineTypes'
            BY <2>2, <2>0 DEF Sends, PipelineTypes
        <3>2. e \notin ToSet(order) /\ e \in S
            BY <2>2 DEF Sends, PipelineInv, Taken
        <3>3. ToSet(order') = ToSet(order) \cup {e}
            BY <2>2, <2>0, AppendSet DEF Sends, PipelineTypes
        <3>4. Only(order', S) = Append(Only(order, S), e)
            BY <2>2, <2>0, <3>2, OnlyStep DEF Sends, PipelineTypes
        <3>5. written \o batch \o Append(ch, e) = Append(written \o batch \o ch, e)
            BY <2>0 DEF PipelineTypes
        <3>6. IsInjective(order')
            <4>1. order \in Seq(Events) /\ \A i \in DOMAIN order : order[i] # e
                BY <2>0, <3>2 DEF PipelineTypes, ToSet
            <4>2. DOMAIN order = 1..Len(order) /\ DOMAIN order' = 1..(Len(order) + 1)
                  /\ order'[Len(order) + 1] = e /\ \A i \in 1..Len(order) : order'[i] = order[i]
                BY <4>1, <2>2 DEF Sends
            <4>3. \A i, j \in 1..Len(order) : order[i] = order[j] => i = j
                BY <4>2 DEF PipelineInv, Taken, IsInjective
            <4>. QED
                BY <4>1, <4>2, <4>3 DEF IsInjective
        <3>7. Taken'
            <4>1. ToSet(order') = { f \in Events : call'[f] = "returned" }
                BY <3>3, <2>2, <2>0 DEF Sends, PipelineTypes, PipelineInv, Taken
            <4>. QED
                BY <4>1, <3>3, <3>4, <3>5, <3>6, <2>2 DEF Sends, PipelineInv, Taken
        <3>8. ShutDown'
            BY <2>2, <2>0 DEF Sends, PipelineInv, ShutDown, Calling, PipelineTypes
        <3>. QED
            BY <3>1, <3>7, <3>8 DEF PipelineInv
    <2>3. ASSUME NEW e \in Events, FindsFull(e) PROVE PipelineInv'
        <3>1. PipelineTypes' /\ ToSet(order') = ToSet(order)
                 /\ \A f \in Events : call'[f] = "returned" <=> call[f] = "returned"
            BY <2>3, <2>0 DEF FindsFull, PipelineTypes
        <3>2. Calling # {}
            BY <2>3 DEF FindsFull, Calling
        <3>. QED
            BY <2>3, <3>1, <3>2 DEF FindsFull, PipelineInv, Taken, ShutDown
    <2>4. ASSUME NEW e \in Events, MakesRoom(e) PROVE PipelineInv'
        <3>1. Calling # {} /\ (\A f \in Events : call'[f] = "returned" <=> call[f] = "returned")
              /\ call' \in [Events -> {"none", "send", "full", "returned"}]
            BY <2>4, <2>0 DEF MakesRoom, Calling, PipelineTypes
        <3>2. ShutDown'
            BY <2>4, <3>1 DEF MakesRoom, PipelineInv, ShutDown
        <3>3. CASE ch = <<>>
            BY <2>4, <3>1, <3>2, <3>3, <2>0 DEF MakesRoom, PipelineInv, PipelineTypes, Taken
        <3>4. CASE ch # <<>>
            <4>. DEFINE h == Head(ch)
                        G == evicted \cup givenUp
            <4>1. h \in Events /\ Tail(ch) \in Seq(Events) /\ <<h>> \in Seq(Events) /\ ToSet(<<h>>) = {h}
                  /\ ch = <<h>> \o Tail(ch)
                BY <3>4, <2>0 DEF PipelineTypes, ToSet
            <4>2. UNCHANGED <<order, written, batch, givenUp>> /\ ch' = Tail(ch)
                  /\ dropped' = dropped + 1 /\ evicted' = evicted \cup {h}
                BY <2>4, <3>4 DEF MakesRoom
            <4>3. written \o batch \in Seq(Events)
                     /\ (written \o batch) \o <<h>> \o Tail(ch) = written \o batch \o ch
                BY <4>1, <2>0 DEF PipelineTypes
            <4>4. Only(order, Events \ G) = (written \o batch) \o <<h>> \o Tail(ch)
                BY <4>3 DEF PipelineInv, Taken
            <4>5. IsInjective(Only(order, Events \ G))
                     /\ ToSet(Only(order, Events \ G)) = ToSet(order) \cap (Events \ G)
                BY <2>0, OnlyFacts DEF PipelineTypes, PipelineInv, Taken
            <4>6. h \in ToSet(Only(order, Events \ G))
                <5>. DEFINE s == (written \o batch) \o <<h>> \o Tail(ch)
                <5>1. Len(written \o batch) + 1 \in DOMAIN s /\ s[Len(written \o batch) + 1] = h
                    BY <4>1, <4>3
                <5>. QED
                    BY <5>1, <4>4 DEF ToSet
            <4>7. Only(order, Events \ (G \cup {h})) = (written \o batch) \o Tail(ch)
                <5>1. Only((written \o batch) \o <<h>> \o Tail(ch),
                      Events \ {h}) = (written \o batch) \o Tail(ch)
                    <6>. DEFINE p == written \o batch
                                one == <<h>>
                                w == Tail(ch)
                    <6>1. p \in Seq(Events) /\ one \in Seq(Events) /\ w \in Seq(Events)
                             /\ IsInjective(p \o one \o w)
                        BY <4>1, <4>3, <4>4, <4>5
                    <6>. HIDE DEF p, one, w
                    <6>2. Only(p \o one \o w, Events \ ToSet(one)) = p \o w
                        BY <6>1, OnlyWithout
                    <6>. QED
                        BY <6>2, <4>1 DEF p, one, w
                <5>2. Only(Only(order, Events \ G), Events \ {h}) = Only(order,
                      (Events \ G) \cap (Events \ {h}))
                    BY <2>0, OnlyFacts DEF PipelineTypes
                <5>3. (Events \ G) \cap (Events \ {h}) = Events \ (G \cup {h})
                    OBVIOUS
                <5>. QED
                    BY <5>1, <5>2, <5>3, <4>4
            <4>8. h \in ToSet(order) /\ h \notin evicted /\ IsFiniteSet(evicted)
                BY <4>5, <4>6, <2>0, FS_Subset DEF PipelineTypes
            <4>9. Cardinality(evicted') = dropped'
                BY <4>2, <4>8, FS_AddElement DEF PipelineInv, Taken
            <4>10. evicted' \cup givenUp' = G \cup {h}
                BY <4>2
            <4>11. PipelineTypes'
                BY <4>1, <4>2, <3>1, <2>0 DEF PipelineTypes
            <4>12. Taken'
                BY <4>2, <4>7, <4>8, <4>9, <4>10, <3>1 DEF PipelineInv, Taken
            <4>. QED
                BY <4>11, <4>12, <3>2 DEF PipelineInv
        <3>. QED
            BY <3>3, <3>4
    <2>5. ASSUME NEW from, NEW to, Receives(from, to), to \in {"select", "write"}
                    \/ (from = "drain" /\ to = "drain")
          PROVE  PipelineInv'
        <3>1. ch \in Seq(Events) /\ ch # <<>> /\ Head(ch) \in Events /\ Tail(ch) \in Seq(Events)
            BY <2>5, <2>0 DEF Receives, PipelineTypes
        <3>2. written \o Append(batch, Head(ch)) \o Tail(ch) = written \o batch \o ch
            <4>. DEFINE p == written \o batch
                        h == Head(ch)
                        w == Tail(ch)
            <4>1. ch = <<h>> \o w /\ <<h>> \in Seq(Events) /\ w \in Seq(Events) /\ h \in Events
                BY <3>1
            <4>2. written \o Append(batch, h) = Append(p, h) /\ p \in Seq(Events)
                BY <3>1, <2>0 DEF PipelineTypes
            <4>. HIDE DEF p, h, w
            <4>3. Append(p, h) = p \o <<h>>
                BY <4>1, <4>2, AppendIsConcat
            <4>4. (p \o <<h>>) \o w = p \o (<<h>> \o w)
                BY <4>1, <4>2, ConcatAssociative
            <4>. QED
                BY <4>1, <4>2, <4>3, <4>4 DEF p, h, w
        <3>3. PipelineTypes'
            BY <3>1, <2>5, <2>0 DEF Receives, PipelineTypes
        <3>4. Taken'
            BY <3>2, <2>5 DEF Receives, PipelineInv, Taken
        <3>5. ShutDown'
            BY <3>1, <2>5 DEF Receives, PipelineInv, ShutDown, Calling
        <3>. QED
            BY <3>3, <3>4, <3>5 DEF PipelineInv
    <2>6. CASE TickerFires \/ Cancelled \/ Drained
        BY <2>6
           DEF TickerFires, Cancelled, Drained, PipelineInv, PipelineTypes, Taken, ShutDown,
               Calling
    <2>7. CASE WriteSucceeds
        <3>1. written' = written \o batch /\ batch' = <<>>
                 /\ UNCHANGED <<channelVars, givenUp, serverVars>>
            BY <2>7 DEF WriteSucceeds, FlushEnds
        <3>2. PipelineTypes' /\ written' \o batch' \o ch' = written \o batch \o ch
            BY <3>1, <2>0 DEF PipelineTypes
        <3>3. ShutDown'
            BY <2>7 DEF WriteSucceeds, FlushEnds, PipelineInv, ShutDown, Calling
        <3>. QED
            BY <3>1, <3>2, <3>3 DEF PipelineInv, Taken
    <2>8. CASE WriteFails
        <3>1. CASE UNCHANGED <<worker, batch, givenUp>>
            BY <2>8, <3>1 DEF WriteFails, PipelineInv, PipelineTypes, Taken, ShutDown, Calling
        <3>2. CASE givenUp' = givenUp \cup ToSet(batch) /\ FlushEnds
            <4>. DEFINE G == evicted \cup givenUp
            <4>1. UNCHANGED <<channelVars, written, serverVars>> /\ batch' = <<>>
                     /\ givenUp' = givenUp \cup ToSet(batch)
                BY <2>8, <3>2 DEF WriteFails, FlushEnds
            <4>2. ToSet(batch) \subseteq ToSet(written \o batch \o ch)
                <5>. DEFINE s == written \o batch \o ch
                <5>1. \A i \in 1..Len(batch) : Len(written) + i \in DOMAIN s
                         /\ s[Len(written) + i] = batch[i]
                    BY <2>0 DEF PipelineTypes
                <5>2. DOMAIN batch = 1..Len(batch)
                    BY <2>0 DEF PipelineTypes
                <5>. HIDE DEF s
                <5>. QED
                    BY <5>1, <5>2 DEF ToSet, s
            <4>3. IsInjective(written \o batch \o ch)
                     /\ ToSet(written \o batch \o ch) = ToSet(order) \cap (Events \ G)
                BY <2>0, OnlyFacts DEF PipelineTypes, PipelineInv, Taken
            <4>4. Only(order, Events \ (G \cup ToSet(batch))) = written \o ch
                <5>1. Only(written \o batch \o ch, Events \ ToSet(batch)) = written \o ch
                    <6>1. written \in Seq(Events) /\ batch \in Seq(Events)
                             /\ ch \in Seq(Events) /\ IsInjective(written \o batch \o ch)
                        BY <4>3, <2>0 DEF PipelineTypes
                    <6>. QED
                        BY <6>1, OnlyWithout
                <5>2. Only(Only(order, Events \ G), Events \ ToSet(batch)) = Only(order,
                      (Events \ G) \cap (Events \ ToSet(batch)))
                    <6>. DEFINE S == Events \ G
                                U == Events \ ToSet(batch)
                    <6>. HIDE DEF S, U
                    <6>1. order \in Seq(Events)
                        BY <2>0 DEF PipelineTypes
                    <6>2. Only(Only(order, S), U) = Only(order, S \cap U)
                        BY <6>1, OnlyFacts
                    <6>. QED
                        BY <6>2 DEF S, U
                <5>3. (Events \ G) \cap (Events \ ToSet(batch)) = Events \ (G \cup ToSet(batch))
                    OBVIOUS
                <5>. QED
                    BY <5>1, <5>2, <5>3 DEF PipelineInv, Taken
            <4>5. evicted' \cup givenUp' = G \cup ToSet(batch)
                BY <4>1
            <4>6. written' \o batch' \o ch' = written \o ch
                BY <4>1, <2>0 DEF PipelineTypes
            <4>7. PipelineTypes' /\ Taken'
                <5>1. PipelineTypes'
                    BY <4>1, <4>2, <4>3, <2>0 DEF PipelineTypes
                <5>. QED
                    BY <5>1, <4>1, <4>2, <4>3, <4>4, <4>5, <4>6 DEF PipelineInv, Taken
            <4>8. ShutDown'
                BY <2>8, <3>2 DEF WriteFails, FlushEnds, PipelineInv, ShutDown, Calling
            <4>. QED
                BY <4>7, <4>8 DEF PipelineInv
        <3>. QED
            BY <2>8, <3>1, <3>2 DEF WriteFails
    <2>9. CASE HTTPCloses \/ StopsPipe \/ UNCHANGED pipelineVars
        BY <2>9
           DEF HTTPCloses, StopsPipe, pipelineVars, PipelineInv, PipelineTypes, Taken, ShutDown,
               Calling
    <2>10. CASE Takes \/ Drains
        BY <2>5, <2>10 DEF Takes, Drains
    <2>. QED
        BY <2>1, <2>2, <2>3, <2>4, <2>6, <2>7, <2>8, <2>9, <2>10 DEF PipelineNext, Runs, Enqueues
<1>3. PipelineInv => Conserved
    BY DEF PipelineInv, Taken, ShutDown, Conserved
<1>. QED
    BY <1>1, <1>2, <1>3, PTL DEF PipelineSpec

-----------------------------------------------------------------------------
(* The form outbox.                                                        *)

Row == [event : {"none", "pending", "unlogged"}, write : BOOLEAN, age : Nat, archived : BOOLEAN]

OutboxTypes ==
    /\ table \in Seq(Submissions)
    /\ row \in [Submissions -> Row]
    /\ work \in Seq([id : Submissions, write : BOOLEAN, over : BOOLEAN])

\* Accepted on an approved form: what is to become an event, in its row ...
RowsApproved ==
    \A s \in Submissions : row[s].write \/ row[s].event = "unlogged" => s \in approved

\* ... and in the job's hands.
WorkApproved ==
    \A i \in DOMAIN work : work[i].write \/ job \in {"flush", "mark"} => work[i].id \in approved

OutboxInv == OutboxTypes /\ RowsApproved /\ WorkApproved /\ logged \subseteq approved

\* No submission made on a draft reaches the log.
THEOREM PreviewsKeptOut == OutboxSpec => []PreviewsStayOut
<1>FirstOfFacts. ASSUME NEW n \in Nat, NEW S, table \in Seq(Submissions)
                 PROVE  FirstOf(n, S) \in Seq(Submissions)
                           /\ ToSet(FirstOf(n, S)) \subseteq ToSet(table) \cap S
    <2>. USE <1>FirstOfFacts
    <2>. DEFINE all == Only(table, S)
                k == IF Len(all) < n THEN Len(all) ELSE n
    <2>1. all \in Seq(Submissions) /\ ToSet(all) = ToSet(table) \cap S
        BY OnlyFacts
    <2>. HIDE DEF all
    <2>2. k \in Nat /\ k <= Len(all)
        BY <2>1
    <2>. HIDE DEF k
    <2>3. SubSeq(all, 1, k) \in Seq(Submissions) /\ DOMAIN SubSeq(all, 1, k) = 1..k
          /\ \A i \in 1..k : SubSeq(all, 1, k)[i] = all[i] /\ i \in DOMAIN all
        BY <2>1, <2>2
    <2>4. ToSet(SubSeq(all, 1, k)) \subseteq ToSet(all)
        BY <2>3 DEF ToSet
    <2>. QED
        BY <2>1, <2>3, <2>4 DEF FirstOf, all, k
<1>. USE OutboxAssumption
<1>. DEFINE Item == [id : Submissions, write : BOOLEAN, over : BOOLEAN]
<1>0. NoRow \in Row /\ ~NoRow.write /\ NoRow.event = "none"
    BY DEF NoRow, Row
<1>1. OutboxInit => OutboxInv
    <2>. SUFFICES ASSUME OutboxInit PROVE OutboxInv
        OBVIOUS
    <2>1. OutboxTypes /\ RowsApproved
        BY <1>0 DEF OutboxInit, OutboxTypes, RowsApproved
    <2>2. WorkApproved /\ logged \subseteq approved
        BY DEF OutboxInit, WorkApproved
    <2>. QED
        BY <2>1, <2>2 DEF OutboxInv
<1>2. ASSUME OutboxInv, [OutboxNext]_outboxVars PROVE OutboxInv'
    <2>. USE <1>2
    <2>1. OutboxTypes /\ RowsApproved /\ WorkApproved /\ logged \subseteq approved
        BY DEF OutboxInv
    <2>2. ASSUME NEW todo \in Seq(Submissions), NEW to, NEW next, JobGoes(to, todo, next),
                 to \in {"flush", "mark"} => ToSet(todo) \subseteq approved
          PROVE  work' \in Seq(Item) /\ \A i \in DOMAIN work' : work'[i].write
                    \/ to \in {"flush", "mark"} => work'[i].id \in approved
        <3>1. todo \in [1..Len(todo) -> Submissions] /\ Len(todo) \in Nat /\ DOMAIN todo = 1..Len(todo)
            OBVIOUS
        <3>2. \A s \in Submissions : Read(s) \in Item /\ Read(s).id = s /\ (Read(s).write
                 => s \in approved)
            <4>1. SUFFICES ASSUME NEW s \in Submissions
                           PROVE  Read(s) \in Item /\ Read(s).id = s /\ (Read(s).write => s \in approved)
                OBVIOUS
            <4>. DEFINE w == row[s].write /\ s \notin Unreadable
                        o == row[s].age >= GiveUpAge
            <4>2. Read(s) = [id |-> s, write |-> w, over |-> o]
                BY DEF Read
            <4>3. w => s \in approved
                BY <2>1 DEF RowsApproved
            <4>4. w \in BOOLEAN /\ o \in BOOLEAN
                OBVIOUS
            <4>. HIDE DEF w, o
            <4>. QED
                BY <4>2, <4>3, <4>4
        <3>3. work' = [i \in 1..Len(todo) |-> Read(todo[i])]
            BY <2>2, <3>1 DEF JobGoes, ReadAll
        <3>4. work' \in [1..Len(todo) -> Item]
            BY <3>1, <3>2, <3>3
        <3>. HIDE DEF Item
        <3>5. work' \in Seq(Item) /\ DOMAIN work' = 1..Len(todo)
            BY <3>1, <3>4
        <3>6. \A i \in 1..Len(todo) : work'[i] = Read(todo[i]) /\ todo[i] \in Submissions
                 /\ todo[i] \in ToSet(todo)
            BY <3>1, <3>3 DEF ToSet
        <3>. QED
            BY <2>2, <3>2, <3>5, <3>6
    <2>3. /\ Pending \in Seq(Submissions) /\ <<>> \in Seq(Submissions) /\ Unlogged \in Seq(Submissions)
          /\ ToSet(Unlogged) \subseteq approved /\ ToSet(<<>>) \subseteq approved
        <3>1. \A s \in ToSet(table) : s \in Submissions
            BY <2>1 DEF OutboxTypes, ToSet
        <3>2. Pending \in Seq(Submissions)
            BY <2>1, <1>FirstOfFacts DEF Pending, OutboxTypes
        <3>3. Unlogged \in Seq(Submissions)
                 /\ ToSet(Unlogged) \subseteq { s \in Stored : row[s].event = "unlogged" }
            BY <2>1, <1>FirstOfFacts DEF Unlogged, UnloggedOf, OutboxTypes
        <3>4. ToSet(<<>>) = {}
            BY DEF ToSet
        <3>. QED
            BY <3>1, <3>2, <3>3, <3>4, <2>1 DEF RowsApproved, Stored
    <2>4. ASSUME NEW s \in Submissions, Submits(s) PROVE OutboxInv'
        <3>1. table' \in Seq(Submissions)
            BY <2>4, <2>1 DEF Submits, OutboxTypes
        <3>. DEFINE w == form.status = "approved"
                    r == [NoRow EXCEPT !.event = "pending", !.write = w]
        <3>2. row' = [row EXCEPT ![s] = r]
            BY <2>4 DEF Submits
        <3>3. r \in Row /\ r.event = "pending"
            <4>1. w \in BOOLEAN
                OBVIOUS
            <4>. HIDE DEF w
            <4>. QED
                BY <4>1 DEF NoRow, Row
        <3>. HIDE DEF r
        <3>4. row'[s] = r /\ OutboxTypes'
            BY <3>1, <3>2, <3>3, <2>4, <2>1 DEF Submits, OutboxTypes, jobVars
        <3>6. (row'[s].write => s \in approved') /\ approved \subseteq approved'
            BY <2>4 DEF Submits
        <3>5. RowsApproved'
            BY <3>2, <3>3, <3>4, <3>6, <2>1 DEF RowsApproved, OutboxTypes
        <3>. QED
            BY <3>6, <3>4, <3>5, <2>4, <2>1 DEF Submits, OutboxInv, WorkApproved, jobVars
    <2>5. ASSUME NEW s \in Submissions, ArchivesOrRestores(s) PROVE OutboxInv'
        <3>1. OutboxTypes' /\ \A u \in Submissions : row'[u].event = row[u].event
                 /\ row'[u].write = row[u].write
            BY <2>5, <2>1 DEF ArchivesOrRestores, OutboxTypes, jobVars, Row
        <3>. QED
            BY <3>1, <2>5, <2>1
               DEF ArchivesOrRestores, OutboxInv, RowsApproved, WorkApproved, jobVars
    <2>6. ASSUME NEW f, ChangesForm(f) PROVE OutboxInv'
        BY <2>6, <2>1 DEF ChangesForm, OutboxInv, OutboxTypes, RowsApproved, WorkApproved, jobVars
    <2>7. ASSUME NEW S, Deleted(S), UNCHANGED <<logged, jobVars, approved>> PROVE OutboxInv'
        <3>1. table' \in Seq(Submissions)
            BY <2>7, <2>1, OnlyFacts DEF Deleted, OutboxTypes
        <3>2. \A s \in Submissions : row'[s] = IF s \in S THEN NoRow ELSE row[s]
            BY <2>7 DEF Deleted
        <3>3. OutboxTypes'
            BY <1>0, <3>1, <2>7, <2>1 DEF Deleted, OutboxTypes, jobVars
        <3>4. RowsApproved'
            BY <1>0, <3>2, <2>7, <2>1 DEF RowsApproved
        <3>. QED
            BY <3>3, <3>4, <2>7, <2>1 DEF OutboxInv, WorkApproved, jobVars
    <2>8. CASE PurgesForm \/ PurgesSubmissions
        BY <2>7, <2>8 DEF PurgesForm, PurgesSubmissions
    <2>9. CASE MinutePasses
        <3>1. \A u \in Submissions : row'[u].event = row[u].event /\ row'[u].write = row[u].write
            BY <2>9, <2>1 DEF MinutePasses, OutboxTypes, Row
        <3>2. OutboxTypes'
            <4>1. \A r \in Row : [r EXCEPT !.age = @ + 1] \in Row
                BY DEF Row
            <4>. QED
                BY <4>1, <2>9, <2>1 DEF MinutePasses, OutboxTypes, jobVars
        <3>. QED
            BY <3>1, <3>2, <2>9, <2>1
               DEF MinutePasses, OutboxInv, RowsApproved, WorkApproved, jobVars
    <2>10. ASSUME ReadsBatch, UnchangedByJob, UNCHANGED <<row, logged>> PROVE OutboxInv'
        <3>1. CASE JobGoes("attribute", Pending, looked' /\ Len(Pending) = Batch)
            <4>1. work' \in Seq(Item) /\ job' = "attribute"
                     /\ \A i \in DOMAIN work' : work'[i].write => work'[i].id \in approved
                <5>1. job' = "attribute"
                    BY <3>1 DEF JobGoes
                <5>. QED
                    BY <5>1, <3>1, <2>2, <2>3
            <4>. QED
                BY <4>1, <2>10, <2>1
                   DEF UnchangedByJob, OutboxInv, OutboxTypes, RowsApproved, WorkApproved
        <3>2. CASE JobGoes("flush", Unlogged, FALSE)
            <4>1. work' \in Seq(Item) /\ \A i \in DOMAIN work' : work'[i].id \in approved
                BY <3>2, <2>2, <2>3
            <4>. QED
                BY <4>1, <2>10, <2>1
                   DEF UnchangedByJob, OutboxInv, OutboxTypes, RowsApproved, WorkApproved
        <3>. QED
            BY <3>1, <3>2, <2>10 DEF ReadsBatch
    <2>11. CASE Attributes \/ AttributeFails
        <3>1. work # <<>> /\ job = "attribute" /\ work' = Tail(work)
                 /\ UNCHANGED <<table, approved, logged, job>>
            BY <2>11 DEF Attributes, AttributeFails, UnchangedByJob
        <3>2. work' \in Seq(Item) /\ Head(work) \in Item /\ (Head(work).write
                 => Head(work).id \in approved)
            <4>1. work \in Seq(Item) /\ 1 \in DOMAIN work /\ Head(work) = work[1]
                BY <3>1, <2>1 DEF OutboxTypes
            <4>. HIDE DEF Item
            <4>2. Tail(work) \in Seq(Item) /\ work[1] \in Item
                BY <4>1, <3>1
            <4>. QED
                BY <4>1, <4>2, <3>1, <2>1 DEF WorkApproved
        <3>3. \A i \in DOMAIN work' : work'[i] = work[i + 1] /\ i + 1 \in DOMAIN work
            BY <3>1, <2>1 DEF OutboxTypes
        <3>4. WorkApproved'
            BY <3>1, <3>3, <2>1 DEF WorkApproved
        <3>5. row' = row \/ Attributed(Head(work).id, Head(work).write)
            BY <2>11 DEF Attributes, AttributeFails
        <3>6. OutboxTypes' /\ RowsApproved'
            <4>. DEFINE p == Head(work)
            <4>1. CASE row' = row
                BY <4>1, <3>1, <3>2, <2>1 DEF OutboxTypes, RowsApproved
            <4>2. CASE row' # row
                <5>1. row' = [row EXCEPT ![p.id].event = IF p.write THEN "unlogged" ELSE "none",
                                         ![p.id].write = FALSE, ![p.id].age = 0]
                    BY <4>2, <3>5 DEF Attributed
                <5>2. p.id \in Submissions /\ (p.write => p.id \in approved)
                    BY <3>2
                <5>. HIDE DEF p
                <5>3. OutboxTypes'
                    <6>1. \A r \in Row, e \in {"unlogged", "none"} :
                             [r EXCEPT !.event = e, !.write = FALSE, !.age = 0] \in Row
                        BY DEF Row
                    <6>2. row' = [row EXCEPT ![p.id] = [@ EXCEPT !.event = IF p.write THEN "unlogged" ELSE "none",
                                                                 !.write = FALSE, !.age = 0]]
                        BY <5>1, <5>2, <2>1 DEF OutboxTypes, Row
                    <6>. QED
                        BY <6>1, <6>2, <5>2, <3>1, <3>2, <2>1 DEF OutboxTypes
                <5>4. \A u \in Submissions : u # p.id => row'[u] = row[u]
                    BY <5>1, <5>2, <2>1 DEF OutboxTypes
                <5>5. row'[p.id].write = FALSE /\ (row'[p.id].event = "unlogged" => p.write)
                    BY <5>1, <5>2, <2>1 DEF OutboxTypes, Row
                <5>. QED
                    BY <5>2, <5>3, <5>4, <5>5, <3>1, <2>1 DEF RowsApproved
            <4>. QED
                BY <4>1, <4>2
        <3>. QED
            BY <3>1, <3>4, <3>6, <2>1 DEF OutboxInv
    <2>12. CASE BatchDone
        <3>1. CASE ReadsBatch
            BY <3>1, <2>12, <2>10 DEF BatchDone
        <3>2. CASE JobGoes("flush", Unlogged, FALSE)
            <4>1. work' \in Seq(Item) /\ \A i \in DOMAIN work' : work'[i].id \in approved
                BY <3>2, <2>2, <2>3
            <4>. QED
                BY <4>1, <2>12, <2>1
                   DEF BatchDone, UnchangedByJob, OutboxInv, OutboxTypes, RowsApproved,
                       WorkApproved
        <3>. QED
            BY <3>1, <3>2, <2>12 DEF BatchDone
    <2>13. CASE WritesPage
        <3>1. InWork \subseteq approved
            BY <2>13, <2>1 DEF WritesPage, InWork, WorkApproved
        <3>. QED
            BY <3>1, <2>13, <2>1
               DEF WritesPage, UnchangedByJob, Readable, OutboxInv, OutboxTypes, RowsApproved,
                   WorkApproved
    <2>14. CASE WriteFailsAt \/ EmptyOutbox \/ JobStops
        <3>1. work' \in Seq(Item) /\ \A i \in DOMAIN work' : work'[i].write => work'[i].id \in approved
            BY <2>14, <2>2, <2>3 DEF WriteFailsAt, EmptyOutbox, JobStops
        <3>2. job' = "idle" /\ UNCHANGED <<table, row, approved>>
            BY <2>14 DEF WriteFailsAt, EmptyOutbox, JobStops, JobGoes, UnchangedByJob
        <3>3. logged' \subseteq approved
            <4>1. job = "flush" => InWork \subseteq approved
                BY <2>1 DEF InWork, WorkApproved
            <4>. QED
                BY <4>1, <2>14, <2>1 DEF WriteFailsAt, EmptyOutbox, JobStops, Readable
        <3>. QED
            BY <3>1, <3>2, <3>3, <2>1 DEF OutboxInv, OutboxTypes, RowsApproved, WorkApproved
    <2>15. CASE Marks
        <3>1. row' = [s \in Submissions |-> IF s \in InWork /\ row[s].event = "unlogged"
                                            THEN [row[s] EXCEPT !.event = "none"] ELSE row[s]]
              /\ UNCHANGED <<table, approved, logged>>
            BY <2>15 DEF Marks, UnchangedByJob
        <3>2. \A s \in Submissions : row'[s].write = row[s].write
                 /\ (row'[s].event = "unlogged" => row[s].event = "unlogged")
            BY <3>1, <2>1 DEF OutboxTypes, Row
        <3>3. row' \in [Submissions -> Row]
            <4>1. \A r \in Row : [r EXCEPT !.event = "none"] \in Row
                BY DEF Row
            <4>. QED
                BY <4>1, <3>1, <2>1 DEF OutboxTypes
        <3>4. work' \in Seq(Item) /\ WorkApproved'
            <4>1. CASE JobGoes("flush", UnloggedOf(Stored \ InWork), FALSE)
                <5>. DEFINE todo == UnloggedOf(Stored \ InWork)
                <5>1. todo \in Seq(Submissions) /\ ToSet(todo) \subseteq approved
                    <6>1. \A s \in ToSet(table) : s \in Submissions
                        BY <2>1 DEF OutboxTypes, ToSet
                    <6>2. todo \in Seq(Submissions)
                             /\ ToSet(todo) \subseteq { s \in Stored : row[s].event = "unlogged" }
                        BY <2>1, <1>FirstOfFacts DEF UnloggedOf, OutboxTypes
                    <6>. QED
                        BY <6>1, <6>2, <2>1 DEF RowsApproved, Stored
                <5>. HIDE DEF todo
                <5>. QED
                    BY <4>1, <5>1, <3>1, <2>2 DEF todo, WorkApproved
            <4>2. CASE JobGoes("idle", <<>>, FALSE)
                <5>1. job' = "idle"
                    BY <4>2 DEF JobGoes
                <5>. QED
                    BY <5>1, <4>2, <3>1, <2>2, <2>3 DEF WorkApproved
            <4>. QED
                BY <4>1, <4>2, <2>15 DEF Marks
        <3>. QED
            BY <3>1, <3>2, <3>3, <3>4, <2>1 DEF OutboxInv, OutboxTypes, RowsApproved
    <2>16. CASE UNCHANGED outboxVars
        BY <2>16, <2>1
           DEF outboxVars, tableVars, jobVars, OutboxInv, OutboxTypes, RowsApproved, WorkApproved
    <2>17. CASE StartsMinute
        BY <2>17, <2>10 DEF StartsMinute
    <2>18. CASE Approves \/ DatePasses \/ Reopens \/ Archives \/ Restores
        BY <2>18, <2>6 DEF Approves, DatePasses, Reopens, Archives, Restores
    <2>. QED
        BY <2>4, <2>5, <2>8, <2>9, <2>11, <2>12, <2>13, <2>14, <2>15, <2>16, <2>17, <2>18
           DEF OutboxNext, JobGoesOn
<1>3. OutboxInv => PreviewsStayOut
    BY DEF OutboxInv, PreviewsStayOut
<1>. QED
    BY <1>1, <1>2, <1>3, PTL DEF OutboxSpec

-----------------------------------------------------------------------------
(* The registry of projects and keys.                                      *)

\* The part of RegistryTypeOK the safety properties rest on, each function
\* typed by itself.
ReadTypes ==
    /\ archived \subseteq Projects /\ disabled \subseteq Projects
    /\ dbVersion \in 0..MaxWrites /\ snapVersion \in 0..Unknown
    /\ granted \subseteq Projects
    /\ step \in [Threads -> Steps]
    /\ writesTo \in [Threads -> SUBSET Projects] /\ unarchived \in [Threads -> SUBSET Projects]
    /\ keyed \in [Threads -> SUBSET Projects] /\ missed \in [Threads -> SUBSET Projects]
    /\ gotVersion \in [Threads -> 0..MaxWrites]
    /\ \A t \in Threads : step[t] \in {"idle", "poll", "compare", "stamp"} =>
         writesTo[t] = {} /\ missed[t] = {}

\* What a reload has read is what the database holds, but for what was
\* written since it began.
ReadsCurrent ==
    \A t \in Threads : \A p \in Projects \ missed[t] :
        /\ Reloading(t) => (p \in unarchived[t] <=> p \notin archived)
        /\ step[t] \in {"version", "publish"} => (p \in keyed[t] <=> p \notin disabled)

\* No thread has read a version the database has not reached, and neither
\* has the snapshot unless it was forgotten.
VersionsPast ==
    /\ snapVersion <= dbVersion \/ snapVersion = Unknown
    /\ \A t \in Threads : gotVersion[t] <= dbVersion

RegistryInv ==
    /\ ReadTypes /\ ReadsCurrent /\ VersionsPast
    /\ FailClosed /\ CurrentIfVersionIs

\* The parts above hold for any number of requests, whatever they read and publish.
LEMMA RegistryInductive == RegistrySpec => []RegistryInv
<1>. USE RegistryAssumption
<1>1. RegistryInit => RegistryInv
    BY DEF RegistryInit, RegistryInv, ReadTypes, ReadsCurrent, VersionsPast, FailClosed,
           CurrentIfVersionIs, Reloading, Allowed, Unknown, Steps
<1>2. RegistryInv /\ [RegistryNext]_registryVars => RegistryInv'
    <2>. SUFFICES ASSUME RegistryInv, [RegistryNext]_registryVars PROVE RegistryInv'
        OBVIOUS
    <2>. USE DEF RegistryInv, dbVars, snapVars, pollVars, threadVars
    <2>1. ASSUME NEW t \in Threads, NEW p \in Projects, OpWrites(t, p) PROVE RegistryInv'
        <3>1. ReadTypes'
            <4>1. archived' \subseteq Projects /\ disabled' \subseteq Projects
                BY <2>1 DEF OpWrites, Commits, ReadTypes
            <4>2. missed' \in [Threads -> SUBSET Projects]
                BY <2>1 DEF OpWrites, Commits, ReadTypes
            <4>3. \A u \in Threads : ~Reloading(u) => missed'[u] = missed[u]
                BY <2>1 DEF OpWrites, Commits
            <4>4. dbVersion' \in 0..MaxWrites
                BY <2>1 DEF OpWrites, Commits, ReadTypes
            <4>. QED
                BY <2>1, <4>1, <4>2, <4>3, <4>4
                   DEF OpWrites, RequestGoes, ReadTypes, Reloading, Steps
        <3>2. ReadsCurrent'
            <4>. SUFFICES ASSUME NEW u \in Threads, NEW q \in Projects \ missed'[u]
                 PROVE  /\ Reloading(u)' => (q \in unarchived'[u] <=> q \notin archived')
                        /\ step'[u] \in {"version", "publish"}
                               => (q \in keyed'[u] <=> q \notin disabled')
                BY DEF ReadsCurrent
            <4>1. q \notin missed[u] /\ (Reloading(u) => q # p)
                BY <2>1 DEF OpWrites, Commits
            <4>2. Reloading(u)' => Reloading(u)
                BY <2>1 DEF OpWrites, RequestGoes, Reloading
            <4>3. step'[u] \in {"version", "publish"} => step[u] \in {"version", "publish"}
                BY <2>1 DEF OpWrites, RequestGoes
            <4>4. q # p => (q \in archived' <=> q \in archived) /\ (q \in disabled' <=> q \in disabled)
                BY <2>1 DEF OpWrites, Commits
            <4>5. unarchived' = unarchived /\ keyed' = keyed
                BY <2>1 DEF OpWrites
            <4>6. step[u] \in {"version", "publish"} => Reloading(u)
                BY DEF Reloading
            <4>. QED
                BY <4>1, <4>2, <4>3, <4>4, <4>5, <4>6 DEF ReadsCurrent
        <3>3. VersionsPast'
            BY <2>1 DEF OpWrites, Commits, VersionsPast, ReadTypes
        <3>4. FailClosed'
            BY <2>1 DEF OpWrites, Commits, FailClosed, Allowed, ReadTypes
        <3>5. CurrentIfVersionIs'
            BY <2>1 DEF OpWrites, Commits, CurrentIfVersionIs, VersionsPast, ReadTypes, Unknown
        <3>. QED
            BY <3>1, <3>2, <3>3, <3>4, <3>5
    <2>2. ASSUME NEW t \in Threads, DailyReload(t) PROVE RegistryInv'
        <3>1. ReadTypes'
            BY <2>2 DEF DailyReload, RequestGoes, ReadTypes, Steps
        <3>2. ReadsCurrent'
            BY <2>2 DEF DailyReload, RequestGoes, ReadsCurrent, Reloading
        <3>3. VersionsPast'
            BY <2>2 DEF DailyReload, VersionsPast
        <3>4. FailClosed'
            BY <2>2 DEF DailyReload, FailClosed, Allowed
        <3>5. CurrentIfVersionIs'
            BY <2>2 DEF DailyReload, CurrentIfVersionIs, Allowed
        <3>. QED
            BY <3>1, <3>2, <3>3, <3>4, <3>5
    <2>3. ASSUME NEW p \in Projects, OutsideWrites(p) PROVE RegistryInv'
        <3>1. ReadTypes'
            <4>1. archived' \subseteq Projects /\ disabled' \subseteq Projects
                BY <2>3 DEF OutsideWrites, Commits, ReadTypes
            <4>2. missed' \in [Threads -> SUBSET Projects]
                BY <2>3 DEF OutsideWrites, Commits, ReadTypes
            <4>3. \A u \in Threads : ~Reloading(u) => missed'[u] = missed[u]
                BY <2>3 DEF OutsideWrites, Commits
            <4>4. dbVersion' \in 0..MaxWrites
                BY <2>3 DEF OutsideWrites, Commits, ReadTypes
            <4>. QED
                BY <2>3, <4>1, <4>2, <4>3, <4>4 DEF OutsideWrites, ReadTypes, Reloading
        <3>2. ReadsCurrent'
            <4>. SUFFICES ASSUME NEW u \in Threads, NEW q \in Projects \ missed'[u]
                 PROVE  /\ Reloading(u)' => (q \in unarchived'[u] <=> q \notin archived')
                        /\ step'[u] \in {"version", "publish"}
                               => (q \in keyed'[u] <=> q \notin disabled')
                BY DEF ReadsCurrent
            <4>1. q \notin missed[u] /\ (Reloading(u) => q # p)
                BY <2>3 DEF OutsideWrites, Commits
            <4>2. Reloading(u)' => Reloading(u)
                BY <2>3 DEF OutsideWrites, Reloading
            <4>3. step'[u] \in {"version", "publish"} => step[u] \in {"version", "publish"}
                BY <2>3 DEF OutsideWrites
            <4>4. q # p => (q \in archived' <=> q \in archived) /\ (q \in disabled' <=> q \in disabled)
                BY <2>3 DEF OutsideWrites, Commits
            <4>5. unarchived' = unarchived /\ keyed' = keyed
                BY <2>3 DEF OutsideWrites
            <4>6. step[u] \in {"version", "publish"} => Reloading(u)
                BY DEF Reloading
            <4>. QED
                BY <4>1, <4>2, <4>3, <4>4, <4>5, <4>6 DEF ReadsCurrent
        <3>3. VersionsPast'
            BY <2>3 DEF OutsideWrites, Commits, VersionsPast, ReadTypes
        <3>4. FailClosed'
            BY <2>3 DEF OutsideWrites, Commits, FailClosed, Allowed
        <3>5. CurrentIfVersionIs'
            BY <2>3
               DEF OutsideWrites, Commits, CurrentIfVersionIs, VersionsPast, ReadTypes, Unknown
        <3>. QED
            BY <3>1, <3>2, <3>3, <3>4, <3>5
    <2>4. ASSUME NEW t \in Threads, ReadProjects(t) PROVE RegistryInv'
        <3>1. ReadTypes'
            BY <2>4 DEF ReadProjects, RequestGoes, ReadTypes, Steps
        <3>2. ReadsCurrent'
            BY <2>4 DEF ReadProjects, RequestGoes, ReadsCurrent, Reloading, ReadTypes
        <3>3. VersionsPast'
            BY <2>4 DEF ReadProjects, VersionsPast
        <3>4. FailClosed'
            BY <2>4 DEF ReadProjects, FailClosed, Allowed
        <3>5. CurrentIfVersionIs'
            BY <2>4 DEF ReadProjects, CurrentIfVersionIs, Allowed
        <3>. QED
            BY <3>1, <3>2, <3>3, <3>4, <3>5
    <2>5. ASSUME NEW t \in Threads, ReadKeys(t) PROVE RegistryInv'
        <3>1. ReadTypes'
            BY <2>5 DEF ReadKeys, RequestGoes, ReadTypes, Steps
        <3>2. ReadsCurrent'
            BY <2>5 DEF ReadKeys, RequestGoes, ReadsCurrent, Reloading, ReadTypes
        <3>3. VersionsPast'
            BY <2>5 DEF ReadKeys, VersionsPast
        <3>4. FailClosed'
            BY <2>5 DEF ReadKeys, FailClosed, Allowed
        <3>5. CurrentIfVersionIs'
            BY <2>5 DEF ReadKeys, CurrentIfVersionIs, Allowed
        <3>. QED
            BY <3>1, <3>2, <3>3, <3>4, <3>5
    <2>6. ASSUME NEW t \in Threads, ReadVersion(t) PROVE RegistryInv'
        <3>1. ReadTypes'
            BY <2>6 DEF ReadVersion, RequestGoes, ReadTypes, Steps
        <3>2. ReadsCurrent'
            BY <2>6 DEF ReadVersion, RequestGoes, ReadsCurrent, Reloading
        <3>3. VersionsPast'
            BY <2>6 DEF ReadVersion, VersionsPast, ReadTypes
        <3>4. FailClosed'
            BY <2>6 DEF ReadVersion, FailClosed, Allowed
        <3>5. CurrentIfVersionIs'
            BY <2>6 DEF ReadVersion, CurrentIfVersionIs, Allowed
        <3>. QED
            BY <3>1, <3>2, <3>3, <3>4, <3>5
    <2>7. ASSUME NEW t \in Threads, Publish(t) PROVE RegistryInv'
        <3>1. ReadTypes'
            BY <2>7 DEF Publish, Forget, RequestGoes, ReadTypes, Steps, Unknown
        <3>2. ReadsCurrent'
            BY <2>7 DEF Publish, Forget, RequestGoes, ReadsCurrent, Reloading, ReadTypes
        <3>3. VersionsPast'
            BY <2>7 DEF Publish, Forget, VersionsPast, ReadTypes
        <3>4. FailClosed'
            BY <2>7 DEF Publish, FailClosed, Allowed, ReadTypes, ReadsCurrent, Reloading
        <3>5. CurrentIfVersionIs'
            BY <2>7 DEF Publish, CurrentIfVersionIs, Allowed, ReadTypes, ReadsCurrent, Reloading
        <3>. QED
            BY <3>1, <3>2, <3>3, <3>4, <3>5
    <2>8. ASSUME NEW t \in Threads, Stamps(t) PROVE RegistryInv'
        <3>1. ReadTypes'
            BY <2>8 DEF Stamps, RequestGoes, ReadTypes, Steps
        <3>2. ReadsCurrent'
            BY <2>8 DEF Stamps, RequestGoes, ReadsCurrent, Reloading
        <3>3. VersionsPast'
            BY <2>8 DEF Stamps, VersionsPast
        <3>4. FailClosed'
            BY <2>8 DEF Stamps, FailClosed, Allowed
        <3>5. CurrentIfVersionIs'
            BY <2>8 DEF Stamps, CurrentIfVersionIs, Allowed
        <3>. QED
            BY <3>1, <3>2, <3>3, <3>4, <3>5
    <2>9. ASSUME NEW t \in Threads, ReloadFails(t) PROVE RegistryInv'
        <3>1. ReadTypes'
            BY <2>9 DEF ReloadFails, Withhold, Forget, RequestGoes, ReadTypes, Steps, Unknown
        <3>2. ReadsCurrent'
            BY <2>9 DEF ReloadFails, Forget, RequestGoes, ReadsCurrent, Reloading, ReadTypes
        <3>3. VersionsPast'
            BY <2>9 DEF ReloadFails, Withhold, Forget, VersionsPast, ReadTypes
        <3>4. FailClosed'
            BY <2>9 DEF ReloadFails, Withhold, Forget, FailClosed, Allowed
        <3>5. CurrentIfVersionIs'
            BY <2>9 DEF ReloadFails, Withhold, CurrentIfVersionIs, Allowed, ReadTypes, Unknown
        <3>. QED
            BY <3>1, <3>2, <3>3, <3>4, <3>5
    <2>10. ASSUME NEW t \in Threads, PollTaken(t) PROVE RegistryInv'
        <3>1. ReadTypes'
            BY <2>10 DEF PollTaken, RequestGoes, ReadTypes, Steps
        <3>2. ReadsCurrent'
            BY <2>10 DEF PollTaken, RequestGoes, ReadsCurrent, Reloading
        <3>3. VersionsPast'
            BY <2>10 DEF PollTaken, VersionsPast
        <3>4. FailClosed'
            BY <2>10 DEF PollTaken, FailClosed, Allowed
        <3>5. CurrentIfVersionIs'
            BY <2>10 DEF PollTaken, CurrentIfVersionIs, Allowed
        <3>. QED
            BY <3>1, <3>2, <3>3, <3>4, <3>5
    <2>11. ASSUME NEW t \in Threads, PollReads(t) PROVE RegistryInv'
        <3>1. ReadTypes'
            BY <2>11 DEF PollReads, RequestGoes, ReadTypes, Steps
        <3>2. ReadsCurrent'
            BY <2>11 DEF PollReads, RequestGoes, ReadsCurrent, Reloading
        <3>3. VersionsPast'
            BY <2>11 DEF PollReads, VersionsPast, ReadTypes
        <3>4. FailClosed'
            BY <2>11 DEF PollReads, FailClosed, Allowed
        <3>5. CurrentIfVersionIs'
            BY <2>11 DEF PollReads, CurrentIfVersionIs, Allowed
        <3>. QED
            BY <3>1, <3>2, <3>3, <3>4, <3>5
    <2>12. ASSUME NEW t \in Threads, PollFails(t) PROVE RegistryInv'
        <3>1. ReadTypes'
            BY <2>12 DEF PollFails, Forget, RequestGoes, ReadTypes, Steps
        <3>2. ReadsCurrent'
            BY <2>12 DEF PollFails, Forget, RequestGoes, ReadsCurrent, Reloading
        <3>3. VersionsPast'
            BY <2>12 DEF PollFails, Forget, VersionsPast, ReadTypes
        <3>4. FailClosed'
            BY <2>12 DEF PollFails, Forget, FailClosed, Allowed, ReadTypes
        <3>5. CurrentIfVersionIs'
            BY <2>12 DEF PollFails, CurrentIfVersionIs, Allowed
        <3>. QED
            BY <3>1, <3>2, <3>3, <3>4, <3>5
    <2>13. ASSUME NEW t \in Threads, PollCancelled(t) PROVE RegistryInv'
        <3>1. ReadTypes'
            BY <2>13 DEF PollCancelled, Forget, RequestGoes, ReadTypes, Steps
        <3>2. ReadsCurrent'
            BY <2>13 DEF PollCancelled, Forget, RequestGoes, ReadsCurrent, Reloading
        <3>3. VersionsPast'
            BY <2>13 DEF PollCancelled, Forget, VersionsPast, ReadTypes
        <3>4. FailClosed'
            BY <2>13 DEF PollCancelled, Forget, FailClosed, Allowed, ReadTypes
        <3>5. CurrentIfVersionIs'
            BY <2>13 DEF PollCancelled, CurrentIfVersionIs, Allowed
        <3>. QED
            BY <3>1, <3>2, <3>3, <3>4, <3>5
    <2>14. ASSUME NEW t \in Threads, PollCompares(t) PROVE RegistryInv'
        <3>1. ReadTypes'
            BY <2>14 DEF PollCompares, Forget, RequestGoes, ReadTypes, Steps
        <3>2. ReadsCurrent'
            BY <2>14 DEF PollCompares, Forget, RequestGoes, ReadsCurrent, Reloading, ReadTypes
        <3>3. VersionsPast'
            BY <2>14 DEF PollCompares, Forget, VersionsPast, ReadTypes
        <3>4. FailClosed'
            BY <2>14 DEF PollCompares, Forget, FailClosed, Allowed, ReadTypes
        <3>5. CurrentIfVersionIs'
            BY <2>14 DEF PollCompares, CurrentIfVersionIs, Allowed
        <3>. QED
            BY <3>1, <3>2, <3>3, <3>4, <3>5
    <2>15. ASSUME IntervalPasses PROVE RegistryInv'
        <3>1. ReadTypes'
            BY <2>15 DEF IntervalPasses, ReadTypes
        <3>2. ReadsCurrent'
            BY <2>15 DEF IntervalPasses, ReadsCurrent, Reloading
        <3>3. VersionsPast'
            BY <2>15 DEF IntervalPasses, VersionsPast
        <3>4. FailClosed'
            BY <2>15 DEF IntervalPasses, FailClosed, Allowed
        <3>5. CurrentIfVersionIs'
            BY <2>15 DEF IntervalPasses, CurrentIfVersionIs, Allowed
        <3>. QED
            BY <3>1, <3>2, <3>3, <3>4, <3>5
    <2>16. ASSUME UNCHANGED registryVars PROVE RegistryInv'
        BY <2>16 DEF registryVars, ReadTypes, ReadsCurrent, VersionsPast, FailClosed,
                     CurrentIfVersionIs, Reloading, Allowed
    <2>. QED
        BY <2>1, <2>2, <2>3, <2>4, <2>5, <2>6, <2>7, <2>8, <2>9, <2>10, <2>11, <2>12, <2>13,
           <2>14, <2>15, <2>16
           DEF RegistryNext, RequestGoesOn, RequestFails
<1>. QED
    BY <1>1, <1>2, PTL DEF RegistrySpec

\* A key revoked in this process is refused once the operation that revoked
\* it has returned, whatever reloads failed, unless another process revoked
\* it or a reload that was under way brought it back.
THEOREM RegistryFailsClosed == RegistrySpec => []FailClosed
    BY RegistryInductive, PTL DEF RegistryInv

\* A snapshot held with the database's version accepts what the database
\* accepts, but for what was written while it was read: a poll that finds
\* the two equal may keep it.
THEOREM VersionMeansCurrent == RegistrySpec => []CurrentIfVersionIs
    BY RegistryInductive, PTL DEF RegistryInv

-----------------------------------------------------------------------------
(* The sweep.                                                              *)

Issued == existing \cup purged

\* Whatever knows a project, or holds an event or a directory of it, knows it
\* from the database: an id listed for removal is never created afterwards.
IssuedOnly ==
    /\ known \subseteq Issued /\ buffered \subseteq Issued /\ dirs \subseteq Issued
    /\ listing \subseteq Issued /\ fresh \subseteq Issued
    /\ \A r \in Reloaders : loaded[r] # NotLoading => loaded[r] \subseteq Issued

\* A reload that began after the sweep's own knows every project listed that
\* still exists, so that storing it over the sweep's does no harm.
LaterReads ==
    pass \in {"read", "stored"} =>
        \A r \in Reloaders \ older :
            loaded[r] # NotLoading => listing \cap existing \subseteq loaded[r]

\* Nor do the sweep's own read, and the snapshot it stored, lack one of them.
ListedAreKnown ==
    /\ pass = "purged" => listing \cap existing = {}
    /\ pass = "read" => listing \cap existing \subseteq fresh
    /\ pass = "stored" /\ ~overtaken => listing \cap existing \subseteq known

SweepInv == SweepTypeOK /\ IssuedOnly /\ LaterReads /\ ListedAreKnown /\ LiveFilesStay

\* The sweep removes no directory of a project that exists, unless a reload
\* that had read the database before the sweep's own was stored after it.
THEOREM LiveProjectsKeepFiles == SweepSpec => []LiveFilesStay
<1>. USE SweepAssumption
<1>1. SweepInit => SweepInv
    <2>. SUFFICES ASSUME SweepInit PROVE SweepInv
        OBVIOUS
    <2>1. SweepTypeOK
        <3>1. loaded \in [Reloaders -> (SUBSET Tenants) \cup {NotLoading}]
            <4>1. NotLoading \in (SUBSET Tenants) \cup {NotLoading}
                OBVIOUS
            <4>. QED
                BY <4>1 DEF SweepInit
        <3>2. older \subseteq Reloaders /\ sweepFaults \in 0..MaxSweepFaults
            <4>1. 0 \in 0..MaxSweepFaults
                OBVIOUS
            <4>. QED
                BY <4>1 DEF SweepInit
        <3>3. overtaken \in BOOLEAN
            BY DEF SweepInit
        <3>4. /\ existing = {} /\ purged = {} /\ known = {} /\ buffered = {} /\ dirs = {}
              /\ pass = "idle" /\ listing = {} /\ fresh = {}
            BY DEF SweepInit
        <3>. QED
            BY <3>1, <3>2, <3>3, <3>4 DEF SweepTypeOK
    <2>2. IssuedOnly /\ LaterReads /\ ListedAreKnown /\ LiveFilesStay
        <3>1. \A r \in Reloaders : loaded[r] = NotLoading
            BY DEF SweepInit
        <3>. QED
            BY <3>1 DEF SweepInit, IssuedOnly, LaterReads, ListedAreKnown, LiveFilesStay
    <2>. QED
        BY <2>1, <2>2 DEF SweepInv
<1>2. SweepInv /\ [SweepNext]_sweepVars => SweepInv'
    <2>. SUFFICES ASSUME SweepInv, [SweepNext]_sweepVars PROVE SweepInv'
        OBVIOUS
    <2>. USE DEF SweepInv, dataVars, passVars, ghostVars
    <2>1. ASSUME NEW p \in Tenants, Created(p) PROVE SweepInv'
        <3>1. SweepTypeOK'
            BY <2>1 DEF Created, SweepTypeOK
        <3>2. IssuedOnly'
            BY <2>1 DEF Created, IssuedOnly, Issued
        <3>3. LaterReads'
            BY <2>1 DEF Created, LaterReads, IssuedOnly, Issued
        <3>4. ListedAreKnown'
            BY <2>1 DEF Created, ListedAreKnown, IssuedOnly, Issued
        <3>5. LiveFilesStay'
            BY <2>1 DEF Created, LiveFilesStay, IssuedOnly, Issued
        <3>. QED
            BY <3>1, <3>2, <3>3, <3>4, <3>5
    <2>2. ASSUME NEW p \in Tenants, PurgedElsewhere(p) PROVE SweepInv'
        <3>1. SweepTypeOK'
            BY <2>2 DEF PurgedElsewhere, SweepTypeOK
        <3>2. IssuedOnly'
            BY <2>2 DEF PurgedElsewhere, IssuedOnly, Issued
        <3>3. LaterReads'
            BY <2>2 DEF PurgedElsewhere, LaterReads
        <3>4. ListedAreKnown'
            BY <2>2 DEF PurgedElsewhere, ListedAreKnown
        <3>5. LiveFilesStay'
            BY <2>2 DEF PurgedElsewhere, LiveFilesStay
        <3>. QED
            BY <3>1, <3>2, <3>3, <3>4, <3>5
    <2>3. ASSUME NEW r \in Reloaders, RequestReads(r) PROVE SweepInv'
        <3>1. SweepTypeOK'
            BY <2>3 DEF RequestReads, SweepTypeOK
        <3>2. IssuedOnly'
            BY <2>3 DEF RequestReads, IssuedOnly, Issued
        <3>3. LaterReads'
            BY <2>3 DEF RequestReads, LaterReads
        <3>4. ListedAreKnown'
            BY <2>3 DEF RequestReads, ListedAreKnown
        <3>5. LiveFilesStay'
            BY <2>3 DEF RequestReads, LiveFilesStay
        <3>. QED
            BY <3>1, <3>2, <3>3, <3>4, <3>5
    <2>4. ASSUME NEW r \in Reloaders, RequestStores(r) PROVE SweepInv'
        <3>1. SweepTypeOK'
            <4>1. known' \subseteq Tenants
                BY <2>4 DEF RequestStores, SweepTypeOK
            <4>2. loaded' \in [Reloaders -> (SUBSET Tenants) \cup {NotLoading}]
                <5>1. NotLoading \in (SUBSET Tenants) \cup {NotLoading}
                    OBVIOUS
                <5>. QED
                    BY <2>4, <5>1 DEF RequestStores, SweepTypeOK
            <4>3. older' \subseteq Reloaders /\ overtaken' \in BOOLEAN
                BY <2>4 DEF RequestStores, SweepTypeOK
            <4>. QED
                BY <2>4, <4>1, <4>2, <4>3 DEF RequestStores, SweepTypeOK
        <3>2. IssuedOnly'
            BY <2>4 DEF RequestStores, IssuedOnly, Issued
        <3>3. LaterReads'
            BY <2>4 DEF RequestStores, LaterReads, SweepTypeOK
        <3>4. ListedAreKnown'
            BY <2>4 DEF RequestStores, ListedAreKnown, LaterReads
        <3>5. LiveFilesStay'
            BY <2>4 DEF RequestStores, LiveFilesStay
        <3>. QED
            BY <3>1, <3>2, <3>3, <3>4, <3>5
    <2>5. ASSUME NEW p \in Tenants, Accepted(p) PROVE SweepInv'
        <3>1. SweepTypeOK'
            BY <2>5 DEF Accepted, SweepTypeOK
        <3>2. IssuedOnly'
            BY <2>5 DEF Accepted, IssuedOnly, Issued
        <3>3. LaterReads'
            BY <2>5 DEF Accepted, LaterReads
        <3>4. ListedAreKnown'
            BY <2>5 DEF Accepted, ListedAreKnown
        <3>5. LiveFilesStay'
            BY <2>5 DEF Accepted, LiveFilesStay
        <3>. QED
            BY <3>1, <3>2, <3>3, <3>4, <3>5
    <2>6. ASSUME NEW p \in Tenants, Written(p) PROVE SweepInv'
        <3>1. SweepTypeOK'
            BY <2>6 DEF Written, SweepTypeOK
        <3>2. IssuedOnly'
            BY <2>6 DEF Written, IssuedOnly, Issued
        <3>3. LaterReads'
            BY <2>6 DEF Written, LaterReads
        <3>4. ListedAreKnown'
            BY <2>6 DEF Written, ListedAreKnown
        <3>5. LiveFilesStay'
            BY <2>6 DEF Written, LiveFilesStay
        <3>. QED
            BY <3>1, <3>2, <3>3, <3>4, <3>5
    <2>7. ASSUME NEW p \in Tenants, PassPurges(p) PROVE SweepInv'
        <3>1. SweepTypeOK'
            BY <2>7 DEF PassPurges, SweepTypeOK
        <3>2. IssuedOnly'
            BY <2>7 DEF PassPurges, IssuedOnly, Issued
        <3>3. LaterReads'
            BY <2>7 DEF PassPurges, LaterReads
        <3>4. ListedAreKnown'
            BY <2>7 DEF PassPurges, ListedAreKnown
        <3>5. LiveFilesStay'
            BY <2>7 DEF PassPurges, LiveFilesStay
        <3>. QED
            BY <3>1, <3>2, <3>3, <3>4, <3>5
    <2>8. ASSUME PassReloads PROVE SweepInv'
        <3>1. SweepTypeOK'
            BY <2>8 DEF PassReloads, SweepTypeOK
        <3>2. IssuedOnly'
            BY <2>8 DEF PassReloads, IssuedOnly, Issued
        <3>3. LaterReads'
            BY <2>8 DEF PassReloads, LaterReads
        <3>4. ListedAreKnown'
            BY <2>8 DEF PassReloads, ListedAreKnown
        <3>5. LiveFilesStay'
            BY <2>8 DEF PassReloads, LiveFilesStay, ListedAreKnown
        <3>. QED
            BY <3>1, <3>2, <3>3, <3>4, <3>5
    <2>9. ASSUME Lists PROVE SweepInv'
        <3>1. SweepTypeOK'
            BY <2>9 DEF Lists, SweepTypeOK
        <3>2. IssuedOnly'
            BY <2>9 DEF Lists, IssuedOnly, Issued
        <3>3. LaterReads'
            BY <2>9 DEF Lists, LaterReads
        <3>4. ListedAreKnown'
            BY <2>9 DEF Lists, ListedAreKnown
        <3>5. LiveFilesStay'
            BY <2>9 DEF Lists, LiveFilesStay
        <3>. QED
            BY <3>1, <3>2, <3>3, <3>4, <3>5
    <2>10. ASSUME SweepReads PROVE SweepInv'
        <3>1. SweepTypeOK'
            BY <2>10 DEF SweepReads, SweepTypeOK
        <3>2. IssuedOnly'
            BY <2>10 DEF SweepReads, IssuedOnly, Issued
        <3>3. LaterReads'
            BY <2>10 DEF SweepReads, LaterReads
        <3>4. ListedAreKnown'
            BY <2>10 DEF SweepReads, ListedAreKnown
        <3>5. LiveFilesStay'
            BY <2>10 DEF SweepReads, LiveFilesStay
        <3>. QED
            BY <3>1, <3>2, <3>3, <3>4, <3>5
    <2>11. ASSUME SweepStores PROVE SweepInv'
        <3>1. SweepTypeOK'
            BY <2>11 DEF SweepStores, SweepTypeOK
        <3>2. IssuedOnly'
            BY <2>11 DEF SweepStores, IssuedOnly, Issued
        <3>3. LaterReads'
            BY <2>11 DEF SweepStores, LaterReads
        <3>4. ListedAreKnown'
            BY <2>11 DEF SweepStores, ListedAreKnown
        <3>5. LiveFilesStay'
            BY <2>11 DEF SweepStores, LiveFilesStay
        <3>. QED
            BY <3>1, <3>2, <3>3, <3>4, <3>5
    <2>12. ASSUME SweepGivesUp PROVE SweepInv'
        <3>1. SweepTypeOK'
            BY <2>12 DEF SweepGivesUp, SweepTypeOK
        <3>2. IssuedOnly'
            BY <2>12 DEF SweepGivesUp, IssuedOnly, Issued
        <3>3. LaterReads'
            BY <2>12 DEF SweepGivesUp, LaterReads
        <3>4. ListedAreKnown'
            BY <2>12 DEF SweepGivesUp, ListedAreKnown
        <3>5. LiveFilesStay'
            BY <2>12 DEF SweepGivesUp, LiveFilesStay
        <3>. QED
            BY <3>1, <3>2, <3>3, <3>4, <3>5
    <2>13. ASSUME SweepLooks PROVE SweepInv'
        <3>1. SweepTypeOK'
            BY <2>13 DEF SweepLooks, SweepTypeOK
        <3>2. IssuedOnly'
            BY <2>13 DEF SweepLooks, IssuedOnly, Issued
        <3>3. LaterReads'
            BY <2>13 DEF SweepLooks, LaterReads
        <3>4. ListedAreKnown'
            BY <2>13 DEF SweepLooks, ListedAreKnown
        <3>5. LiveFilesStay'
            BY <2>13 DEF SweepLooks, LiveFilesStay, ListedAreKnown
        <3>. QED
            BY <3>1, <3>2, <3>3, <3>4, <3>5
    <2>14. ASSUME NEW p \in Tenants, Removes(p) PROVE SweepInv'
        <3>1. SweepTypeOK'
            BY <2>14 DEF Removes, SweepTypeOK
        <3>2. IssuedOnly'
            BY <2>14 DEF Removes, IssuedOnly, Issued
        <3>3. LaterReads'
            BY <2>14 DEF Removes, LaterReads
        <3>4. ListedAreKnown'
            BY <2>14 DEF Removes, ListedAreKnown
        <3>5. LiveFilesStay'
            BY <2>14 DEF Removes, LiveFilesStay
        <3>. QED
            BY <3>1, <3>2, <3>3, <3>4, <3>5
    <2>15. ASSUME SweepEnds PROVE SweepInv'
        <3>1. SweepTypeOK'
            BY <2>15 DEF SweepEnds, SweepTypeOK
        <3>2. IssuedOnly'
            BY <2>15 DEF SweepEnds, IssuedOnly, Issued
        <3>3. LaterReads'
            BY <2>15 DEF SweepEnds, LaterReads
        <3>4. ListedAreKnown'
            BY <2>15 DEF SweepEnds, ListedAreKnown
        <3>5. LiveFilesStay'
            BY <2>15 DEF SweepEnds, LiveFilesStay
        <3>. QED
            BY <3>1, <3>2, <3>3, <3>4, <3>5
    <2>16. ASSUME UNCHANGED sweepVars PROVE SweepInv'
        BY <2>16 DEF sweepVars, SweepTypeOK, IssuedOnly, Issued, LaterReads, ListedAreKnown,
                      LiveFilesStay
    <2>. QED
        BY <2>1, <2>2, <2>3, <2>4, <2>5, <2>6, <2>7, <2>8, <2>9, <2>10, <2>11, <2>12, <2>13,
           <2>14, <2>15, <2>16
        DEF SweepNext, PassGoesOn
<1>3. SweepInv => LiveFilesStay
    BY DEF SweepInv
<1>. QED
    BY <1>1, <1>2, <1>3, PTL DEF SweepSpec

=============================================================================
