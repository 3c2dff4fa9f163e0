--------------------------------- MODULE SdkQueue ------------------------------
(***************************************************************************)
(* The delivery of a browser's batches (sdk/src/twillingate.ts): sent by   *)
(* fetch, kept for a retry when that fails, in the memory of a tab and in  *)
(* a queue all tabs share on the device, and handed to sendBeacon when a   *)
(* page is hidden or left.  The server counts an event once a day: it      *)
(* moves an event older than its late window to the window's first day.    *)
(*                                                                         *)
(* A batch is one event, its key in the queues the event's id.  Consent is *)
(* given between visits, and not withdrawn.  A message arrives within one  *)
(* unit of the clock, which the server shares.                             *)
(***************************************************************************)
EXTENDS SequencesExt, Selections

CONSTANTS
    Tabs, SentEvents,
    DayLength,      \* units of the clock in a day
    LateWindow,     \* INGEST_LATE_DAYS, in units
    ReplayAge,      \* BEACON_REPLAY_MAX_AGE_MS
    MaxStored,      \* MAX_STORED_BATCHES
    MaxLosses,      \* bound: requests that fail and beacons dropped
    LastTick        \* bound: the clock stops here

ASSUME SdkQueueAssumption ==
    /\ DayLength \in Nat \ {0} /\ LateWindow \in Nat /\ ReplayAge \in Nat
    /\ ReplayAge < LateWindow /\ MaxStored \in Nat \ {0}
    /\ MaxLosses \in Nat /\ LastTick \in Nat

VARIABLES
    tick,       \* the clock
    consent,    \* mayStore
    made,       \* made[e]: its ts, 0 before
    opened,     \* the tabs with the page
    queue,      \* queue[t]: events not sent yet
    pending,    \* pending[t]: batches whose delivery failed
    kept,       \* the queue on the device
    fetches,    \* requests under way: tab, batch, and when sent
    beacons,    \* beacons under way: event and when sent
    counted,    \* counted[e]: the days the server counts it on
    left,       \* history: events that arrived with an unmarked copy left to send
    overdue,    \* history: events an unload sent again, marked and past ReplayAge
    losses      \* bound: the failures so far

wireVars == <<fetches, beacons, counted, left, overdue>>
tabVars  == <<opened, queue, pending>>
sdkVars  == <<tick, consent, made, tabVars, kept, wireVars, losses>>

Loss == losses < MaxLosses /\ losses' = losses + 1

\* A batch as kept: beaconed, once marked.
KeptBatch == [event : SentEvents, beaconed : BOOLEAN]
Ids(seq) == { seq[i].event : i \in DOMAIN seq }

Newest(seq) == SubSeq(seq, Max({0, Len(seq) - MaxStored}) + 1, Len(seq))

\* mergeBatches: what is on the device first.
MergedWith(stored, mine) ==
    Newest(stored \o Only(mine, { b \in ToSet(mine) : b.event \notin Ids(stored) }))

\* saveQueue, over what any tab kept there.
Saves(batches) == kept' = IF consent THEN batches ELSE kept

\* Mutant of ReplaySafe: a beaconed batch of any age.
MutReplaySafe(b) == TRUE

ReplaySafe(b) == b.beaconed => tick - made[b.event] <= ReplayAge

Request(t, b) == [tab |-> t, batch |-> b, at |-> tick]
Requests(t, batches) == { Request(t, b) : b \in batches }

Emits(t, e) ==
    /\ t \in opened /\ made[e] = 0
    /\ made' = [made EXCEPT ![e] = tick]
    /\ queue' = [queue EXCEPT ![t] = @ \cup {e}]
    /\ UNCHANGED <<tick, consent, opened, pending, kept, wireVars, losses>>

NewBatch(e) == [event |-> e, beaconed |-> FALSE]

\* drain, by the timer or a full queue.
SendsQueued(t) ==
    /\ queue[t] # {}
    /\ fetches' = fetches \cup Requests(t, { NewBatch(e) : e \in queue[t] })
    /\ queue' = [queue EXCEPT ![t] = {}]
    /\ UNCHANGED <<tick, consent, made, opened, pending, kept, beacons, counted, left, overdue, losses>>

ToSend == ToSet(kept) \cup (UNION { ToSet(pending[t]) : t \in Tabs }) \cup { r.batch : r \in fetches }

\* clampTS, and the event's id once in the files of each day.
Counts(e) ==
    /\ counted' = [counted EXCEPT ![e] = @ \cup {Max({made[e], tick - LateWindow}) \div DayLength}]
    /\ left' = IF NewBatch(e) \in ToSend' \/ \E m \in beacons' : m.event = e
               THEN left \cup {e} ELSE left

Delivered(r) ==
    /\ fetches' = fetches \ {r}
    /\ UNCHANGED <<tick, consent, made, tabVars, kept, beacons, overdue, losses>>
    /\ Counts(r.batch.event)

\* store, of a request that failed in a tab still open.
StoresFailed(r) ==
    IF r.tab \in opened /\ r.batch \notin ToSet(pending[r.tab])
    THEN /\ pending' = [pending EXCEPT ![r.tab] = Newest(Append(@, r.batch))]
         /\ Saves(pending'[r.tab])
    ELSE UNCHANGED <<pending, kept>>

\* A 5xx or a network error, the server's answer lost among them.
Fails(r) ==
    /\ Loss
    /\ fetches' = fetches \ {r}
    /\ StoresFailed(r)
    /\ UNCHANGED <<tick, consent, made, opened, queue, beacons, overdue>>
    /\ \/ Counts(r.batch.event)
       \/ UNCHANGED <<counted, left>>

\* The page is hidden or left: what is queued and what had failed is handed
\* to sendBeacon, or sent by fetch where that refuses.  What it accepts of the
\* latter leaves the tab's memory, and is marked on the device.
Unloads(t) ==
    /\ t \in opened /\ (queue[t] # {} \/ pending[t] # <<>>)
    /\ \E A \in SUBSET (queue[t] \cup Ids(pending[t])) :
         LET taken  == { b \in ToSet(pending[t]) : b.event \in A }
             others == (ToSet(pending[t]) \ taken) \cup { NewBatch(e) : e \in queue[t] \ A }
             mark(b) == IF \E o \in taken : o.event = b.event
                        THEN [b EXCEPT !.beaconed = TRUE] ELSE b IN
         /\ beacons' = beacons \cup { [event |-> e, at |-> tick] : e \in A }
         /\ fetches' = fetches \cup Requests(t, others)
         /\ pending' = [pending EXCEPT ![t] = Only(@, ToSet(@) \ taken)]
         /\ Saves([i \in DOMAIN kept |-> mark(kept[i])])
         /\ overdue' = overdue \cup { b.event : b \in { o \in ToSet(pending[t]) :
                          o.beaconed /\ tick - made[o.event] > ReplayAge } }
    /\ queue' = [queue EXCEPT ![t] = {}]
    /\ UNCHANGED <<tick, consent, made, opened, counted, left, losses>>

\* An accepted beacon arrives, or does not.
BeaconEnds(m) ==
    /\ beacons' = beacons \ {m}
    /\ UNCHANGED <<tick, consent, made, tabVars, kept, fetches, overdue>>
    /\ \/ Counts(m.event) /\ UNCHANGED losses
       \/ Loss /\ UNCHANGED <<counted, left>>

\* replay: all that is kept is taken off the device, and sent but for what
\* the server could no longer tell from new.
Replayed(t) ==
    LET all == IF consent THEN MergedWith(kept, pending[t]) ELSE pending[t] IN
    /\ fetches' = fetches \cup Requests(t, { b \in ToSet(all) : ReplaySafe(b) })
    /\ pending' = [pending EXCEPT ![t] = <<>>]
    /\ Saves(<<>>)

OpensTab(t) ==
    /\ t \notin opened /\ opened' = opened \cup {t}
    /\ Replayed(t)
    /\ UNCHANGED <<tick, consent, made, queue, beacons, counted, left, overdue, losses>>

ComesOnline(t) ==
    /\ t \in opened /\ (pending[t] # <<>> \/ (consent /\ kept # <<>>))
    /\ Replayed(t)
    /\ UNCHANGED <<tick, consent, made, opened, queue, beacons, counted, left, overdue, losses>>

\* The page is gone; what its memory held is, too.
ClosesTab(t) ==
    /\ t \in opened /\ opened' = opened \ {t}
    /\ queue' = [queue EXCEPT ![t] = {}] /\ pending' = [pending EXCEPT ![t] = <<>>]
    /\ fetches' = { IF r.tab = t THEN [r EXCEPT !.tab = "gone"] ELSE r : r \in fetches }
    /\ UNCHANGED <<tick, consent, made, kept, beacons, counted, left, overdue, losses>>

Consents ==
    /\ ~consent /\ consent' = TRUE /\ opened = {}
    /\ UNCHANGED <<tick, made, tabVars, kept, wireVars, losses>>

Ticks ==
    /\ tick < LastTick /\ tick' = tick + 1
    /\ \A r \in fetches : r.at = tick
    /\ \A m \in beacons : m.at = tick
    /\ UNCHANGED <<consent, made, tabVars, kept, wireVars, losses>>

SdkInit ==
    /\ tick = 1 /\ consent = FALSE
    /\ made = [e \in SentEvents |-> 0]
    /\ opened = {} /\ kept = <<>>
    /\ queue = [t \in Tabs |-> {}] /\ pending = [t \in Tabs |-> <<>>]
    /\ fetches = {} /\ beacons = {} /\ counted = [e \in SentEvents |-> {}]
    /\ left = {} /\ overdue = {} /\ losses = 0

SdkNext ==
    \/ \E t \in Tabs : \/ \E e \in SentEvents : Emits(t, e)
                        \/ SendsQueued(t) \/ Unloads(t) \/ OpensTab(t) \/ ComesOnline(t) \/ ClosesTab(t)
    \/ \E r \in fetches : Delivered(r) \/ Fails(r)
    \/ \E m \in beacons : BeaconEnds(m)
    \/ Consents \/ Ticks

SdkSpec == SdkInit /\ [][SdkNext]_sdkVars

-----------------------------------------------------------------------------

SdkTypeOK ==
    /\ tick \in 0..LastTick /\ consent \in BOOLEAN /\ opened \subseteq Tabs
    /\ made \in [SentEvents -> 0..LastTick] /\ queue \in [Tabs -> SUBSET SentEvents]
    /\ kept \in Seq(KeptBatch) /\ Len(kept) <= MaxStored
    /\ \A t \in Tabs : pending[t] \in Seq(KeptBatch) /\ Len(pending[t]) <= MaxStored
    /\ fetches \subseteq [tab : Tabs \cup {"gone"}, batch : KeptBatch, at : 1..LastTick]
    /\ beacons \subseteq [event : SentEvents, at : 1..LastTick]
    /\ left \subseteq SentEvents /\ overdue \subseteq SentEvents
    /\ losses \in 0..MaxLosses

\* However a batch is beaconed, kept, replayed by this tab or another and
\* delivered again, the server counts its event once, but for two cases: as it
\* arrived a copy was left to send that no beacon had marked (its request was
\* taken for failed, or another tab held it too), or an unload sent again, past
\* ReplayAge, a batch that was marked.
BatchCountsOnce ==
    \A e \in SentEvents : Cardinality(counted[e]) > 1 => e \in left \cup overdue

\* What the comment at BEACON_REPLAY_MAX_AGE_MS says: a beaconed batch is sent
\* again only while its oldest event is younger than that.
BeaconedReplaysYoung == overdue = {}

=============================================================================
