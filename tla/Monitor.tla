--------------------------------- MODULE Monitor -------------------------------
(***************************************************************************)
(* The uptime monitor (internal/monitor): a runner that ticks, starts the  *)
(* availability check of each monitor whose slot has come and the manual   *)
(* checks requested in the database, perhaps by another process, and the   *)
(* goroutines that run them on a pool of workers.  The page that asked for *)
(* a manual check polls its row until the request has ended.               *)
(*                                                                         *)
(* Times are the row's, to the second; 0 is the empty string.  A unit of   *)
(* the clock is the cooldown between two requests.  The certificate and    *)
(* domain readings a manual check ends with are one step here.             *)
(***************************************************************************)
EXTENDS Integers, FiniteSets

CONSTANTS
    Monitors,
    Pools,          \* the sizes the worker pool (sem) may have
    CheckMaxAge,    \* past this age a request is not worth serving
    LastTime,       \* bound: the clock stops here
    MaxFaults       \* bound: failed calls, stops, crashes, clock steps back

ASSUME MonitorAssumption ==
    /\ Pools \subseteq Nat \ {0} /\ CheckMaxAge \in Nat
    /\ LastTime \in Nat \ {0} /\ MaxFaults \in Nat

VARIABLES
    now,        \* the clock
    back,       \* whether it has stepped back
    enabled,    \* the rows: monitors switched on, of live projects ...
    requested,  \* ... check_requested_at ...
    finished,   \* ... check_finished_at ...
    last,       \* ... and last_checked_at
    server,     \* "up", "stopping" or "down"
    paused,     \* MONITOR_DISABLED
    phase,      \* the tick: "idle", "list", "manuals" or "slots"
    tickAt,     \* the time it began, 0 between two ticks
    wasBusy,    \* the tick's copy of manuals
    listed,     \* the rows it listed: monitors to their request
    todo,       \* the monitors its loop has not come to
    slot,       \* slot[m]: the step of m's slot check
    manual,     \* manual[m]: the step of m's manual check (not "none": in r.manuals)
    slotReq,    \* slotReq[m]: the request on the row m's slot check was given
    serving,    \* serving[m]: the request m's manual check serves
    ran,        \* history: the last request whose check was run
    told,       \* history: the last request whose result was stored
    workers,    \* the size of the worker pool, fixed
    faults      \* bound: the faults so far

clockVars  == <<now, back>>
rowVars    == <<enabled, requested, finished, last>>
serverVars == <<server, paused>>
tickVars   == <<phase, tickAt, wasBusy, listed, todo>>
slotVars   == <<slot, slotReq>>
manualVars == <<manual, serving>>
history    == <<ran, told>>
monitorVars == <<clockVars, rowVars, serverVars, tickVars, slotVars, manualVars,
                 history, workers, faults>>

\* Every step is a fault or none; none of them resizes the pool.
NoFault == UNCHANGED <<workers, faults>>
Fault   == faults < MaxFaults /\ faults' = faults + 1 /\ UNCHANGED workers

Set(f, m, v) == [f EXCEPT ![m] = v]

CheckPending(m) == requested[m] # 0 /\ finished[m] < requested[m]

\* What the page shows of an ended request whose result is older.
CheckNotRun(m) == requested[m] # 0 /\ ~CheckPending(m) /\ last[m] < requested[m]

Later(s, t) == IF s < t THEN t ELSE s

\* Mutant of Stamp: the earlier of the two.
MutStamp(req) == IF now < req THEN now ELSE req

\* The clock as a row's time, never before the request the row had.
Stamp(req) == Later(now, req)

Busy == { m \in Monitors : manual[m] # "none" }
Free == workers - Cardinality({ m \in Monitors : slot[m] = "check" })
                - Cardinality({ m \in Monitors : manual[m] = "check" })

-----------------------------------------------------------------------------
(* The rows, written by requests of this process or another.               *)

\* Mutant of Ended: what is pending when a monitor goes off stays so.
MutEnded(m) == finished

\* A monitor switched off, or whose project is archived, ends what is pending.
Ended(m) == IF CheckPending(m) THEN Set(finished, m, Later(now, requested[m])) ELSE finished

SetsMonitor(m) ==
    /\ NoFault
    /\ enabled' = Set(enabled, m, ~enabled[m])
    /\ finished' = IF enabled[m] THEN Ended(m) ELSE finished
    /\ UNCHANGED <<clockVars, requested, last, serverVars, tickVars, slotVars,
                   manualVars, history>>

\* The write itself refuses a monitor that is off, has a request pending or
\* had one less than the cooldown ago.
RequestsCheck(m) ==
    /\ NoFault
    /\ ~paused
    /\ enabled[m] /\ ~CheckPending(m) /\ requested[m] + 1 <= now
    /\ requested' = Set(requested, m, now)
    /\ finished' = Set(finished, m, 0)
    /\ UNCHANGED <<clockVars, enabled, last, serverVars, tickVars, slotVars,
                   manualVars, history>>

\* Mutant of FinishesCheck: whatever is requested ends.
MutFinishesCheck(m, req) ==
    \/ /\ NoFault
       /\ finished' = Set(finished, m, Stamp(req))
       /\ UNCHANGED ran
    \/ /\ Fault
       /\ ran' = Set(ran, m, 0)
       /\ UNCHANGED finished

\* FinishMonitorCheck, which ends only the request it names; it may fail.
FinishesCheck(m, req) ==
    \/ /\ NoFault
       /\ finished' = IF requested[m] = req THEN Set(finished, m, Stamp(req)) ELSE finished
       /\ UNCHANGED ran
    \/ /\ Fault
       /\ ran' = Set(ran, m, 0)
       /\ UNCHANGED finished

-----------------------------------------------------------------------------
(* The tick.                                                               *)

TickBegins ==
    /\ NoFault
    /\ server # "down" /\ phase = "idle"
    /\ phase' = "list" /\ tickAt' = now
    /\ wasBusy' = Busy
    /\ UNCHANGED <<clockVars, rowVars, serverVars, listed, todo, slotVars, manualVars,
                   history>>

\* ListEnabledMonitors.
Listing == [m \in { x \in Monitors : enabled[x] } |->
              [req |-> requested[m], pending |-> CheckPending(m)]]

NoList == [m \in {} |-> 0]

\* Mutant of TickLists: the busy monitors are looked up after the list.
MutTickLists ==
    /\ NoFault
    /\ phase = "list" /\ server = "up"
    /\ phase' = "manuals"
    /\ listed' = Listing
    /\ todo' = DOMAIN Listing
    /\ wasBusy' = {}
    /\ UNCHANGED <<clockVars, rowVars, serverVars, tickAt, slotVars, manualVars, history>>

TickLists ==
    /\ NoFault
    /\ phase = "list" /\ server = "up"
    /\ phase' = "manuals"
    /\ listed' = Listing
    /\ todo' = DOMAIN Listing
    /\ UNCHANGED <<clockVars, rowVars, serverVars, tickAt, wasBusy, slotVars,
                   manualVars, history>>

\* The list fails, always so once the process is stopping.
ListFails ==
    /\ phase = "list"
    /\ IF server = "up" THEN Fault ELSE NoFault
    /\ phase' = "idle" /\ tickAt' = 0 /\ wasBusy' = {}
    /\ UNCHANGED <<clockVars, rowVars, serverVars, listed, todo, slotVars, manualVars,
                   history>>

\* The tick's loops come to m.
ComesTo(m, loop) == phase = loop /\ m \in todo /\ todo' = todo \ {m}

\* A busy monitor's request waits: it may be the one being served.
ToServe(m) == listed[m].pending /\ server = "up" /\ (paused \/ m \notin wasBusy)
TooOld(m)  == tickAt - listed[m].req > CheckMaxAge

StartsManual(m) ==
    /\ NoFault
    /\ ComesTo(m, "manuals") /\ ToServe(m)
    /\ ~paused /\ ~TooOld(m) /\ m \notin Busy
    /\ manual' = Set(manual, m, "worker")
    /\ serving' = Set(serving, m, listed[m].req)
    /\ UNCHANGED <<clockVars, rowVars, serverVars, phase, tickAt, wasBusy, listed,
                   slotVars, history>>

\* A request too old to serve, or found by a paused runner, ends unserved.
EndsUnserved(m) ==
    /\ ComesTo(m, "manuals") /\ ToServe(m)
    /\ paused \/ TooOld(m)
    /\ FinishesCheck(m, listed[m].req)
    /\ UNCHANGED <<clockVars, enabled, requested, last, serverVars, phase, tickAt,
                   wasBusy, listed,
                   slotVars, manualVars, told>>

PassesBy(m) ==
    /\ NoFault
    /\ ComesTo(m, "manuals")
    /\ ~ToServe(m) \/ (~paused /\ ~TooOld(m) /\ m \in Busy)
    /\ UNCHANGED <<clockVars, rowVars, serverVars, phase, tickAt, wasBusy, listed, slotVars,
                   manualVars, history>>

\* Some of the monitors listed have a slot now, none when the runner is paused.
SlotsBegin ==
    /\ NoFault
    /\ phase = "manuals" /\ todo = {}
    /\ phase' = "slots"
    /\ todo' \in IF paused THEN {{}} ELSE SUBSET DOMAIN listed
    /\ UNCHANGED <<clockVars, rowVars, serverVars, tickAt, wasBusy, listed, slotVars,
                   manualVars, history>>

StartsSlot(m) ==
    /\ NoFault
    /\ ComesTo(m, "slots")
    /\ slot[m] = "none" /\ m \notin Busy /\ Free > 0
    /\ slot' = Set(slot, m, "check")
    /\ slotReq' = Set(slotReq, m, listed[m].req)
    /\ UNCHANGED <<clockVars, rowVars, serverVars, phase, tickAt, wasBusy, listed,
                   manualVars, history>>

SkipsSlot(m) ==
    /\ NoFault
    /\ ComesTo(m, "slots")
    /\ slot[m] # "none" \/ m \in Busy \/ Free = 0
    /\ UNCHANGED <<clockVars, rowVars, serverVars, phase, tickAt, wasBusy, listed, slotVars,
                   manualVars, history>>

TickEnds ==
    /\ NoFault
    /\ phase = "slots" /\ todo = {}
    /\ phase' = "idle" /\ tickAt' = 0 /\ wasBusy' = {}
    /\ listed' = NoList
    /\ UNCHANGED <<clockVars, rowVars, serverVars, todo, slotVars, manualVars, history>>

-----------------------------------------------------------------------------
(* The goroutines of the checks.                                           *)

\* SetMonitorLast, which may fail; a check cut short by the shutdown stores
\* nothing.
StoresResult(m, req, ok) ==
    /\ ok => server = "up"
    /\ IF ok \/ server # "up" THEN NoFault ELSE Fault
    /\ last' = IF ok THEN Set(last, m, Stamp(req)) ELSE last

SlotEnds(m) ==
    /\ slot[m] = "check"
    /\ \E ok \in BOOLEAN : StoresResult(m, slotReq[m], ok)
    /\ slot' = Set(slot, m, "none")
    /\ slotReq' = Set(slotReq, m, 0)
    /\ UNCHANGED <<clockVars, enabled, requested, finished, serverVars, tickVars,
                   manualVars, history>>

ManualGoes(m, from, to) == manual[m] = from /\ manual' = Set(manual, m, to)

\* A manual check waits for a worker ...
ManualTakes(m) ==
    /\ NoFault
    /\ ManualGoes(m, "worker", "check") /\ Free > 0
    /\ ran' = Set(ran, m, serving[m])
    /\ UNCHANGED <<clockVars, rowVars, serverVars, tickVars, slotVars, serving, told>>

\* ... or for the shutdown.
ManualCut(m) ==
    /\ NoFault
    /\ server = "stopping"
    /\ ManualGoes(m, "worker", "finish")
    /\ UNCHANGED <<clockVars, rowVars, serverVars, tickVars, slotVars, serving, history>>

ManualChecks(m) ==
    /\ ManualGoes(m, "check", "finish")
    /\ \E ok \in BOOLEAN :
         /\ StoresResult(m, serving[m], ok)
         /\ told' = IF ok THEN Set(told, m, serving[m]) ELSE told
    /\ UNCHANGED <<clockVars, enabled, requested, finished, serverVars, tickVars,
                   slotVars, serving, ran>>

\* Its end is recorded, whatever became of it, before the monitor is free.
ManualFinishes(m) ==
    /\ ManualGoes(m, "finish", "free")
    /\ FinishesCheck(m, serving[m])
    /\ UNCHANGED <<clockVars, enabled, requested, last, serverVars, tickVars, slotVars,
                   serving, told>>

ManualFrees(m) ==
    /\ NoFault
    /\ ManualGoes(m, "free", "none")
    /\ serving' = Set(serving, m, 0)
    /\ UNCHANGED <<clockVars, rowVars, serverVars, tickVars, slotVars, history>>

-----------------------------------------------------------------------------
(* The process and the clock.                                              *)

Stops ==
    /\ Fault
    /\ server = "up" /\ server' = "stopping"
    /\ UNCHANGED <<clockVars, rowVars, paused, tickVars, slotVars, manualVars, history>>

\* Run waits for the goroutines.
RunnerExits ==
    /\ NoFault
    /\ server = "stopping" /\ phase = "idle"
    /\ \A m \in Monitors : slot[m] = "none" /\ manual[m] = "none"
    /\ server' = "down"
    /\ UNCHANGED <<clockVars, rowVars, paused, tickVars, slotVars, manualVars, history>>

Crash ==
    /\ Fault
    /\ server # "down" /\ server' = "down"
    /\ phase' = "idle" /\ tickAt' = 0 /\ wasBusy' = {} /\ listed' = NoList /\ todo' = {}
    /\ slot' = [m \in Monitors |-> "none"] /\ slotReq' = [m \in Monitors |-> 0]
    /\ manual' = [m \in Monitors |-> "none"] /\ serving' = [m \in Monitors |-> 0]
    /\ ran' = [m \in Monitors |-> IF CheckPending(m) THEN 0 ELSE ran[m]]
    /\ UNCHANGED <<clockVars, rowVars, paused, told>>

\* The next start may find monitoring paused, or no longer so.
Starts ==
    /\ NoFault
    /\ server = "down" /\ server' = "up"
    /\ paused' \in BOOLEAN
    /\ UNCHANGED <<clockVars, rowVars, tickVars, slotVars, manualVars, history>>

ClockMoves ==
    /\ NoFault
    /\ now < LastTime /\ now' = now + 1
    /\ UNCHANGED <<back, rowVars, serverVars, tickVars, slotVars, manualVars, history>>

ClockStepsBack ==
    /\ Fault
    /\ now > 1 /\ now' = now - 1 /\ back' = TRUE
    /\ UNCHANGED <<rowVars, serverVars, tickVars, slotVars, manualVars, history>>

-----------------------------------------------------------------------------

MonitorInit ==
    /\ now = 1 /\ back = FALSE
    /\ enabled = [m \in Monitors |-> TRUE]
    /\ requested = [m \in Monitors |-> 0]
    /\ finished = [m \in Monitors |-> 0]
    /\ last = [m \in Monitors |-> 0]
    /\ server = "up" /\ paused = FALSE
    /\ phase = "idle" /\ tickAt = 0 /\ wasBusy = {} /\ listed = NoList /\ todo = {}
    /\ slot = [m \in Monitors |-> "none"] /\ slotReq = [m \in Monitors |-> 0]
    /\ manual = [m \in Monitors |-> "none"] /\ serving = [m \in Monitors |-> 0]
    /\ ran = [m \in Monitors |-> 0] /\ told = [m \in Monitors |-> 0]
    /\ workers \in Pools /\ faults = 0

Tick ==
    \/ TickBegins \/ TickLists \/ ListFails \/ SlotsBegin \/ TickEnds
    \/ \E m \in todo : \/ StartsManual(m) \/ EndsUnserved(m) \/ PassesBy(m)
                        \/ StartsSlot(m) \/ SkipsSlot(m)

\* A goroutine that has its worker, or needs none.
Runs(m) == SlotEnds(m) \/ ManualCut(m) \/ ManualChecks(m) \/ ManualFinishes(m) \/ ManualFrees(m)

MonitorNext ==
    \/ \E m \in Monitors : SetsMonitor(m) \/ RequestsCheck(m) \/ Runs(m) \/ ManualTakes(m)
    \/ Tick
    \/ Stops \/ RunnerExits \/ Crash \/ Starts
    \/ ClockMoves \/ ClockStepsBack

MonitorSpec == MonitorInit /\ [][MonitorNext]_monitorVars

\* The ticker fires, checks end (each has its timeout), a channel hands the
\* pool's workers to those that wait in turn, a select that may stop does so
\* in the end, and a server that is down is started again.
MonitorFairSpec ==
    /\ MonitorSpec
    /\ WF_monitorVars(Tick)
    /\ \A m \in Monitors : WF_monitorVars(SlotEnds(m))
    /\ \A m \in Monitors : WF_monitorVars(Runs(m) /\ ~SlotEnds(m)) /\ SF_monitorVars(ManualTakes(m))
    /\ SF_monitorVars(RunnerExits) /\ WF_monitorVars(Starts)

-----------------------------------------------------------------------------

Times == 0..LastTime

MonitorTypeOK ==
    /\ now \in 1..LastTime /\ back \in BOOLEAN
    /\ enabled \in [Monitors -> BOOLEAN]
    /\ \A f \in {requested, finished, last, slotReq, serving, ran, told} :
         f \in [Monitors -> Times]
    /\ server \in {"up", "stopping", "down"} /\ paused \in BOOLEAN
    /\ phase \in {"idle", "list", "manuals", "slots"}
    /\ tickAt \in Times /\ wasBusy \subseteq Monitors /\ todo \subseteq DOMAIN listed
    /\ listed \in UNION { [S -> [req : Times, pending : BOOLEAN]] : S \in SUBSET Monitors }
    /\ slot \in [Monitors -> {"none", "check"}]
    /\ manual \in [Monitors -> {"none", "worker", "check", "finish", "free"}]
    /\ workers \in Pools /\ Free \in 0..workers /\ faults \in 0..MaxFaults

\* No request is checked twice, though it reads as pending in a list taken
\* before its check finished: unless recording that end failed, or the process
\* died before it did.
RunsOnce ==
    [][ \A m \in Monitors :
          manual[m] = "worker" /\ manual'[m] = "check" => ran[m] < serving[m] ]_monitorVars

\* A pending request is ended by its own check, or because it can have none
\* (the monitor goes off, is paused or stopping, or the request is too old):
\* never by the late end of an earlier request of the same monitor.
EndsForItsOwnReason ==
    [][ \A m \in Monitors :
          CheckPending(m) /\ ~CheckPending(m)' =>
            \/ ran[m] = requested[m]
            \/ ~enabled'[m] \/ paused \/ server # "up"
            \/ tickAt - requested[m] > CheckMaxAge ]_monitorVars

\* A request whose result was stored does not read as one that did not run,
\* whatever other checks of the monitor end later, while the clock goes forward.
ServedIsReported ==
    \A m \in Monitors :
        told[m] = requested[m] /\ CheckNotRun(m) => back

\* The same of any clock.
ReportedThoughClockStepsBack ==
    \A m \in Monitors : told[m] = requested[m] => ~CheckNotRun(m)

\* A client that waits for its request to end does not wait for ever, whatever
\* is switched off, paused, stopped or killed meanwhile.
EveryRequestEnds == \A m \in Monitors : CheckPending(m) ~> ~CheckPending(m)

=============================================================================
