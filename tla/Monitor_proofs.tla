----------------------------- MODULE Monitor_proofs -----------------------------
(***************************************************************************)
(* The uptime monitor checks no request twice, ends each for a reason of    *)
(* its own and reports those it served as served, for any number of         *)
(* monitors and workers, and through stops, crashes and failed calls. The   *)
(* daily readings of their domains never put an older one in the place of a *)
(* newer one, nor bring one back for a domain no monitor uses.              *)
(***************************************************************************)
EXTENDS Monitor, MonitorReads, TLAPS

-----------------------------------------------------------------------------

\* The part of MonitorTypeOK the safety properties rest on, each function
\* typed by itself.
RowTypes ==
    /\ now \in Nat \ {0} /\ back \in BOOLEAN
    /\ enabled \in [Monitors -> BOOLEAN]
    /\ requested \in [Monitors -> Nat] /\ finished \in [Monitors -> Nat]
    /\ last \in [Monitors -> Nat] /\ slotReq \in [Monitors -> Nat]
    /\ serving \in [Monitors -> Nat]
    /\ ran \in [Monitors -> Nat] /\ told \in [Monitors -> Nat]
    /\ slot \in [Monitors -> {"none", "check"}]
    /\ manual \in [Monitors -> {"none", "worker", "check", "finish", "free"}]
    /\ DOMAIN listed \subseteq Monitors /\ todo \subseteq DOMAIN listed
    /\ \A m \in DOMAIN listed : listed[m].req \in Nat /\ listed[m].pending \in BOOLEAN

\* While the clock goes forward no row's time is ahead of it, and a later
\* result never makes a monitor look checked earlier.
InThePast ==
    ~back => \A m \in Monitors :
        /\ requested[m] <= now /\ slotReq[m] <= now /\ serving[m] <= now
        /\ told[m] <= last[m] /\ last[m] <= now

\* Requests are served in the order they were made, and one that is pending
\* while no check of the monitor runs has not been checked.
ServesLater ==
    \A m \in Monitors :
        /\ manual[m] # "none" => 0 < serving[m] /\ serving[m] <= requested[m]
        /\ manual[m] = "worker" => ran[m] < serving[m]
        /\ manual[m] \in {"check", "finish"} => ran[m] <= serving[m]
        /\ ran[m] <= requested[m]
        /\ CheckPending(m) /\ manual[m] \notin {"check", "finish"} => ran[m] < requested[m]

\* A monitor that was not busy when the tick began stays so until the tick's
\* loop comes to it, and the request listed for it is one not yet checked.
ListedOnce ==
    /\ \A m \in DOMAIN listed :
         listed[m].req <= requested[m] /\ (listed[m].pending => 0 < listed[m].req)
    /\ phase = "list" => \A m \in Monitors \ wasBusy : manual[m] = "none"
    /\ phase = "manuals" => \A m \in todo \ wasBusy :
         manual[m] = "none" /\ (listed[m].pending => ran[m] < listed[m].req)

\* A manual check past its worker has run what it serves, but for a shutdown,
\* and a process that is down runs none.
RunsToEnd ==
    \A m \in Monitors :
        /\ manual[m] \in {"check", "finish"} => ran[m] = serving[m] \/ paused \/ server # "up"
        /\ server = "down" => manual[m] = "none"

MonitorInv == RowTypes /\ InThePast /\ ServesLater /\ ListedOnce /\ RunsToEnd

\* The parts above hold for any number of monitors and workers.
LEMMA MonitorInductive == MonitorSpec => []MonitorInv
<1>. USE MonitorAssumption
<1>1. MonitorInit => MonitorInv
    <2>. SUFFICES ASSUME MonitorInit PROVE MonitorInv
        OBVIOUS
    <2>1. DOMAIN listed = {} /\ todo = {}
        BY DEF MonitorInit, NoList
    <2>2. RowTypes
        <3>1. DOMAIN listed \subseteq Monitors /\ todo \subseteq DOMAIN listed
            BY <2>1
        <3>2. \A m \in DOMAIN listed : listed[m].req \in Nat /\ listed[m].pending \in BOOLEAN
            BY <2>1
        <3>3. now \in Nat \ {0}
            BY DEF MonitorInit
        <3>4. back \in BOOLEAN
            BY DEF MonitorInit
        <3>5. enabled \in [Monitors -> BOOLEAN]
            BY DEF MonitorInit
        <3>6. /\ requested \in [Monitors -> Nat] /\ finished \in [Monitors -> Nat]
              /\ last \in [Monitors -> Nat] /\ slotReq \in [Monitors -> Nat]
              /\ serving \in [Monitors -> Nat]
              /\ ran \in [Monitors -> Nat] /\ told \in [Monitors -> Nat]
            BY DEF MonitorInit
        <3>7. /\ slot \in [Monitors -> {"none", "check"}]
              /\ manual \in [Monitors -> {"none", "worker", "check", "finish", "free"}]
            BY DEF MonitorInit
        <3>. QED
            BY <3>1, <3>2, <3>3, <3>4, <3>5, <3>6, <3>7 DEF RowTypes
    <2>3. InThePast /\ ServesLater /\ ListedOnce /\ RunsToEnd
        BY <2>1 DEF MonitorInit, InThePast, ServesLater, ListedOnce, RunsToEnd, CheckPending
    <2>. QED
        BY <2>2, <2>3 DEF MonitorInv
<1>2. MonitorInv /\ [MonitorNext]_monitorVars => MonitorInv'
    <2>. SUFFICES ASSUME MonitorInv, [MonitorNext]_monitorVars PROVE MonitorInv'
        OBVIOUS
    <2>. USE DEF MonitorInv, clockVars, rowVars, serverVars, tickVars, slotVars, manualVars, history
    <2>1. ASSUME NEW m \in Monitors, SetsMonitor(m) PROVE MonitorInv'
        <3>1. RowTypes'
            BY <2>1 DEF SetsMonitor, Ended, Later, Set, RowTypes
        <3>2. InThePast'
            BY <2>1 DEF SetsMonitor, InThePast
        <3>3. ServesLater'
            BY <2>1 DEF SetsMonitor, Ended, Set, CheckPending, ServesLater
        <3>4. ListedOnce'
            BY <2>1 DEF SetsMonitor, ListedOnce
        <3>5. RunsToEnd'
            BY <2>1 DEF SetsMonitor, RunsToEnd
        <3>. QED
            BY <3>1, <3>2, <3>3, <3>4, <3>5
    <2>2. ASSUME NEW m \in Monitors, RequestsCheck(m) PROVE MonitorInv'
        <3>1. RowTypes'
            BY <2>2 DEF RequestsCheck, Set, RowTypes
        <3>2. InThePast'
            BY <2>2 DEF RequestsCheck, Set, InThePast, RowTypes
        <3>3. ServesLater'
            BY <2>2 DEF RequestsCheck, Set, CheckPending, ServesLater, RowTypes
        <3>4. ListedOnce'
            BY <2>2 DEF RequestsCheck, Set, ListedOnce, RowTypes
        <3>5. RunsToEnd'
            BY <2>2 DEF RequestsCheck, RunsToEnd
        <3>. QED
            BY <3>1, <3>2, <3>3, <3>4, <3>5
    <2>3. ASSUME NEW m \in Monitors, SlotEnds(m) PROVE MonitorInv'
        <3>1. RowTypes'
            BY <2>3 DEF SlotEnds, StoresResult, Stamp, Later, Set, RowTypes
        <3>2. InThePast'
            BY <2>3 DEF SlotEnds, StoresResult, Stamp, Later, Set, InThePast, RowTypes
        <3>3. ServesLater'
            BY <2>3 DEF SlotEnds, ServesLater, CheckPending
        <3>4. ListedOnce'
            BY <2>3 DEF SlotEnds, ListedOnce
        <3>5. RunsToEnd'
            BY <2>3 DEF SlotEnds, RunsToEnd
        <3>. QED
            BY <3>1, <3>2, <3>3, <3>4, <3>5
    <2>4. ASSUME NEW m \in Monitors, ManualTakes(m) PROVE MonitorInv'
        <3>1. RowTypes'
            BY <2>4 DEF ManualTakes, ManualGoes, Set, RowTypes
        <3>2. InThePast'
            BY <2>4 DEF ManualTakes, InThePast
        <3>3. ServesLater'
            BY <2>4 DEF ManualTakes, ManualGoes, Set, ServesLater, RowTypes, CheckPending
        <3>4. ListedOnce'
            BY <2>4 DEF ManualTakes, ManualGoes, Set, ListedOnce
        <3>5. RunsToEnd'
            BY <2>4 DEF ManualTakes, ManualGoes, Set, RunsToEnd, RowTypes
        <3>. QED
            BY <3>1, <3>2, <3>3, <3>4, <3>5
    <2>5. ASSUME NEW m \in Monitors, ManualCut(m) PROVE MonitorInv'
        <3>1. RowTypes'
            BY <2>5 DEF ManualCut, ManualGoes, Set, RowTypes
        <3>2. InThePast'
            BY <2>5 DEF ManualCut, InThePast
        <3>3. ServesLater'
            BY <2>5 DEF ManualCut, ManualGoes, Set, ServesLater, RowTypes, CheckPending
        <3>4. ListedOnce'
            BY <2>5 DEF ManualCut, ManualGoes, Set, ListedOnce
        <3>5. RunsToEnd'
            BY <2>5 DEF ManualCut, RunsToEnd
        <3>. QED
            BY <3>1, <3>2, <3>3, <3>4, <3>5
    <2>6. ASSUME NEW m \in Monitors, ManualChecks(m) PROVE MonitorInv'
        <3>1. RowTypes'
            BY <2>6 DEF ManualChecks, ManualGoes, Set, StoresResult, Stamp, Later, RowTypes
        <3>2. InThePast'
            BY <2>6 DEF ManualChecks, Set, StoresResult, Stamp, Later, InThePast, RowTypes
        <3>3. ServesLater'
            BY <2>6 DEF ManualChecks, ManualGoes, Set, ServesLater, CheckPending
        <3>4. ListedOnce'
            BY <2>6 DEF ManualChecks, ManualGoes, Set, ListedOnce
        <3>5. RunsToEnd'
            BY <2>6 DEF ManualChecks, ManualGoes, Set, RunsToEnd
        <3>. QED
            BY <3>1, <3>2, <3>3, <3>4, <3>5
    <2>7. ASSUME NEW m \in Monitors, ManualFinishes(m) PROVE MonitorInv'
        <3>1. RowTypes'
            BY <2>7 DEF ManualFinishes, ManualGoes, FinishesCheck, Set, Stamp, Later, RowTypes
        <3>2. InThePast'
            BY <2>7 DEF ManualFinishes, InThePast
        <3>3. ServesLater'
            BY <2>7
               DEF ManualFinishes, ManualGoes, FinishesCheck, Set, Stamp, Later, ServesLater,
                   RowTypes, CheckPending
        <3>4. ListedOnce'
            BY <2>7 DEF ManualFinishes, ManualGoes, FinishesCheck, Set, ListedOnce, RowTypes
        <3>5. RunsToEnd'
            BY <2>7 DEF ManualFinishes, ManualGoes, FinishesCheck, Set, RunsToEnd, RowTypes
        <3>. QED
            BY <3>1, <3>2, <3>3, <3>4, <3>5
    <2>8. ASSUME NEW m \in Monitors, ManualFrees(m) PROVE MonitorInv'
        <3>1. RowTypes'
            BY <2>8 DEF ManualFrees, ManualGoes, Set, RowTypes
        <3>2. InThePast'
            BY <2>8 DEF ManualFrees, Set, InThePast, RowTypes
        <3>3. ServesLater'
            BY <2>8 DEF ManualFrees, ManualGoes, Set, ServesLater, RowTypes, CheckPending
        <3>4. ListedOnce'
            BY <2>8 DEF ManualFrees, ManualGoes, Set, ListedOnce
        <3>5. RunsToEnd'
            BY <2>8 DEF ManualFrees, ManualGoes, Set, RunsToEnd
        <3>. QED
            BY <3>1, <3>2, <3>3, <3>4, <3>5
    <2>9. ASSUME TickBegins PROVE MonitorInv'
        <3>1. RowTypes'
            BY <2>9 DEF TickBegins, RowTypes
        <3>2. InThePast'
            BY <2>9 DEF TickBegins, InThePast
        <3>3. ServesLater'
            BY <2>9 DEF TickBegins, ServesLater, CheckPending
        <3>4. ListedOnce'
            BY <2>9 DEF TickBegins, Busy, ListedOnce
        <3>5. RunsToEnd'
            BY <2>9 DEF TickBegins, RunsToEnd
        <3>. QED
            BY <3>1, <3>2, <3>3, <3>4, <3>5
    <2>10. ASSUME TickLists PROVE MonitorInv'
        <3>0. /\ DOMAIN listed' = { m \in Monitors : enabled[m] } /\ todo' = DOMAIN listed'
              /\ \A m \in DOMAIN listed' : /\ listed'[m].req = requested[m]
                                           /\ listed'[m].pending = CheckPending(m)
            BY <2>10 DEF TickLists, Listing
        <3>1. RowTypes'
            <4>1. \A m \in Monitors : CheckPending(m) \in BOOLEAN
                BY DEF CheckPending
            <4>2. \A m \in DOMAIN listed' : listed'[m].req \in Nat /\ listed'[m].pending \in BOOLEAN
                BY <3>0, <4>1 DEF RowTypes
            <4>3. DOMAIN listed' \subseteq Monitors /\ todo' \subseteq DOMAIN listed'
                BY <3>0
            <4>. QED
                BY <2>10, <4>2, <4>3 DEF TickLists, RowTypes
        <3>2. InThePast'
            BY <2>10 DEF TickLists, InThePast
        <3>3. ServesLater'
            BY <2>10 DEF TickLists, ServesLater, CheckPending
        <3>4. ListedOnce'
            <4>1. \A m \in DOMAIN listed' :
                    listed'[m].req <= requested'[m] /\ (listed'[m].pending => 0 < listed'[m].req)
                <5>. SUFFICES ASSUME NEW m \in DOMAIN listed'
                     PROVE  listed'[m].req <= requested'[m] /\ (listed'[m].pending => 0 < listed'[m].req)
                    OBVIOUS
                <5>1. requested' = requested
                    BY <2>10 DEF TickLists
                <5>2. m \in Monitors /\ listed'[m].req = requested[m]
                    BY <3>0
                <5>3. requested[m] \in Nat
                    BY <5>2 DEF RowTypes
                <5>4. listed'[m].pending => requested[m] # 0
                    BY <3>0 DEF CheckPending
                <5>. QED
                    BY <5>1, <5>2, <5>3, <5>4
            <4>2. \A m \in todo' \ wasBusy' : manual'[m] = "none"
                BY <2>10, <3>0 DEF TickLists, ListedOnce
            <4>3. \A m \in todo' \ wasBusy' : listed'[m].pending => ran'[m] < listed'[m].req
                BY <2>10, <3>0, <4>2 DEF TickLists, ServesLater
            <4>4. phase' = "manuals"
                BY <2>10 DEF TickLists
            <4>. QED
                BY <4>1, <4>2, <4>3, <4>4 DEF ListedOnce
        <3>5. RunsToEnd'
            BY <2>10 DEF TickLists, RunsToEnd
        <3>. QED
            BY <3>1, <3>2, <3>3, <3>4, <3>5
    <2>11. ASSUME ListFails PROVE MonitorInv'
        <3>1. RowTypes'
            BY <2>11 DEF ListFails, RowTypes
        <3>2. InThePast'
            BY <2>11 DEF ListFails, InThePast
        <3>3. ServesLater'
            BY <2>11 DEF ListFails, ServesLater, CheckPending
        <3>4. ListedOnce'
            BY <2>11 DEF ListFails, ListedOnce
        <3>5. RunsToEnd'
            BY <2>11 DEF ListFails, RunsToEnd
        <3>. QED
            BY <3>1, <3>2, <3>3, <3>4, <3>5
    <2>12. ASSUME SlotsBegin PROVE MonitorInv'
        <3>1. RowTypes'
            BY <2>12 DEF SlotsBegin, RowTypes
        <3>2. InThePast'
            BY <2>12 DEF SlotsBegin, InThePast
        <3>3. ServesLater'
            BY <2>12 DEF SlotsBegin, ServesLater, CheckPending
        <3>4. ListedOnce'
            BY <2>12 DEF SlotsBegin, ListedOnce
        <3>5. RunsToEnd'
            BY <2>12 DEF SlotsBegin, RunsToEnd
        <3>. QED
            BY <3>1, <3>2, <3>3, <3>4, <3>5
    <2>13. ASSUME TickEnds PROVE MonitorInv'
        <3>1. RowTypes'
            BY <2>13 DEF TickEnds, NoList, RowTypes
        <3>2. InThePast'
            BY <2>13 DEF TickEnds, InThePast
        <3>3. ServesLater'
            BY <2>13 DEF TickEnds, ServesLater, CheckPending
        <3>4. ListedOnce'
            BY <2>13 DEF TickEnds, NoList, ListedOnce
        <3>5. RunsToEnd'
            BY <2>13 DEF TickEnds, RunsToEnd
        <3>. QED
            BY <3>1, <3>2, <3>3, <3>4, <3>5
    <2>14. ASSUME NEW m \in todo, StartsManual(m) PROVE MonitorInv'
        <3>1. RowTypes'
            BY <2>14 DEF StartsManual, ComesTo, Set, RowTypes
        <3>2. InThePast'
            BY <2>14 DEF StartsManual, Set, InThePast, RowTypes, ListedOnce
        <3>3. ServesLater'
            BY <2>14
               DEF StartsManual, ComesTo, ToServe, Set, ServesLater, RowTypes, CheckPending,
                   ListedOnce
        <3>4. ListedOnce'
            BY <2>14 DEF StartsManual, ComesTo, Set, ListedOnce
        <3>5. RunsToEnd'
            BY <2>14 DEF StartsManual, ToServe, Busy, Set, RunsToEnd
        <3>. QED
            BY <3>1, <3>2, <3>3, <3>4, <3>5
    <2>15. ASSUME NEW m \in todo, EndsUnserved(m) PROVE MonitorInv'
        <3>1. RowTypes'
            BY <2>15 DEF EndsUnserved, ComesTo, FinishesCheck, Set, Stamp, Later, RowTypes
        <3>2. InThePast'
            BY <2>15 DEF EndsUnserved, InThePast
        <3>3. ServesLater'
            BY <2>15
               DEF EndsUnserved, FinishesCheck, Set, Stamp, Later, ServesLater, RowTypes,
                   CheckPending
        <3>4. ListedOnce'
            BY <2>15 DEF EndsUnserved, ComesTo, FinishesCheck, Set, ListedOnce, RowTypes
        <3>5. RunsToEnd'
            BY <2>15
               DEF EndsUnserved, ComesTo, ToServe, FinishesCheck, Set, RunsToEnd, RowTypes,
                   ListedOnce
        <3>. QED
            BY <3>1, <3>2, <3>3, <3>4, <3>5
    <2>16. ASSUME NEW m \in todo, PassesBy(m) PROVE MonitorInv'
        <3>1. RowTypes'
            BY <2>16 DEF PassesBy, ComesTo, RowTypes
        <3>2. InThePast'
            BY <2>16 DEF PassesBy, InThePast
        <3>3. ServesLater'
            BY <2>16 DEF PassesBy, ServesLater, CheckPending
        <3>4. ListedOnce'
            BY <2>16 DEF PassesBy, ComesTo, ListedOnce
        <3>5. RunsToEnd'
            BY <2>16 DEF PassesBy, RunsToEnd
        <3>. QED
            BY <3>1, <3>2, <3>3, <3>4, <3>5
    <2>17. ASSUME NEW m \in todo, StartsSlot(m) PROVE MonitorInv'
        <3>1. RowTypes'
            BY <2>17 DEF StartsSlot, ComesTo, Set, RowTypes
        <3>2. InThePast'
            BY <2>17 DEF StartsSlot, Set, InThePast, RowTypes, ListedOnce
        <3>3. ServesLater'
            BY <2>17 DEF StartsSlot, ServesLater, CheckPending
        <3>4. ListedOnce'
            BY <2>17 DEF StartsSlot, ComesTo, ListedOnce
        <3>5. RunsToEnd'
            BY <2>17 DEF StartsSlot, RunsToEnd
        <3>. QED
            BY <3>1, <3>2, <3>3, <3>4, <3>5
    <2>18. ASSUME NEW m \in todo, SkipsSlot(m) PROVE MonitorInv'
        <3>1. RowTypes'
            BY <2>18 DEF SkipsSlot, ComesTo, RowTypes
        <3>2. InThePast'
            BY <2>18 DEF SkipsSlot, InThePast
        <3>3. ServesLater'
            BY <2>18 DEF SkipsSlot, ServesLater, CheckPending
        <3>4. ListedOnce'
            BY <2>18 DEF SkipsSlot, ComesTo, ListedOnce
        <3>5. RunsToEnd'
            BY <2>18 DEF SkipsSlot, RunsToEnd
        <3>. QED
            BY <3>1, <3>2, <3>3, <3>4, <3>5
    <2>19. ASSUME Stops PROVE MonitorInv'
        <3>1. RowTypes'
            BY <2>19 DEF Stops, RowTypes
        <3>2. InThePast'
            BY <2>19 DEF Stops, InThePast
        <3>3. ServesLater'
            BY <2>19 DEF Stops, ServesLater, CheckPending
        <3>4. ListedOnce'
            BY <2>19 DEF Stops, ListedOnce
        <3>5. RunsToEnd'
            BY <2>19 DEF Stops, RunsToEnd
        <3>. QED
            BY <3>1, <3>2, <3>3, <3>4, <3>5
    <2>20. ASSUME RunnerExits PROVE MonitorInv'
        <3>1. RowTypes'
            BY <2>20 DEF RunnerExits, RowTypes
        <3>2. InThePast'
            BY <2>20 DEF RunnerExits, InThePast
        <3>3. ServesLater'
            BY <2>20 DEF RunnerExits, ServesLater, CheckPending
        <3>4. ListedOnce'
            BY <2>20 DEF RunnerExits, ListedOnce
        <3>5. RunsToEnd'
            BY <2>20 DEF RunnerExits, RunsToEnd
        <3>. QED
            BY <3>1, <3>2, <3>3, <3>4, <3>5
    <2>21. ASSUME Crash PROVE MonitorInv'
        <3>1. RowTypes'
            BY <2>21 DEF Crash, NoList, RowTypes
        <3>2. InThePast'
            BY <2>21 DEF Crash, InThePast, RowTypes
        <3>3. ServesLater'
            BY <2>21 DEF Crash, CheckPending, ServesLater, RowTypes
        <3>4. ListedOnce'
            BY <2>21 DEF Crash, NoList, ListedOnce
        <3>5. RunsToEnd'
            BY <2>21 DEF Crash, RunsToEnd
        <3>. QED
            BY <3>1, <3>2, <3>3, <3>4, <3>5
    <2>22. ASSUME Starts PROVE MonitorInv'
        <3>1. RowTypes'
            BY <2>22 DEF Starts, RowTypes
        <3>2. InThePast'
            BY <2>22 DEF Starts, InThePast
        <3>3. ServesLater'
            BY <2>22 DEF Starts, ServesLater, CheckPending
        <3>4. ListedOnce'
            BY <2>22 DEF Starts, ListedOnce
        <3>5. RunsToEnd'
            BY <2>22 DEF Starts, RunsToEnd
        <3>. QED
            BY <3>1, <3>2, <3>3, <3>4, <3>5
    <2>23. ASSUME ClockMoves PROVE MonitorInv'
        <3>1. RowTypes'
            BY <2>23 DEF ClockMoves, RowTypes
        <3>2. InThePast'
            BY <2>23 DEF ClockMoves, InThePast, RowTypes
        <3>3. ServesLater'
            BY <2>23 DEF ClockMoves, ServesLater, CheckPending
        <3>4. ListedOnce'
            BY <2>23 DEF ClockMoves, ListedOnce
        <3>5. RunsToEnd'
            BY <2>23 DEF ClockMoves, RunsToEnd
        <3>. QED
            BY <3>1, <3>2, <3>3, <3>4, <3>5
    <2>24. ASSUME ClockStepsBack PROVE MonitorInv'
        <3>1. RowTypes'
            BY <2>24 DEF ClockStepsBack, RowTypes
        <3>2. InThePast'
            BY <2>24 DEF ClockStepsBack, InThePast
        <3>3. ServesLater'
            BY <2>24 DEF ClockStepsBack, ServesLater, CheckPending
        <3>4. ListedOnce'
            BY <2>24 DEF ClockStepsBack, ListedOnce
        <3>5. RunsToEnd'
            BY <2>24 DEF ClockStepsBack, RunsToEnd
        <3>. QED
            BY <3>1, <3>2, <3>3, <3>4, <3>5
    <2>25. ASSUME UNCHANGED monitorVars PROVE MonitorInv'
        BY <2>25 DEF monitorVars, RowTypes, InThePast, ServesLater, ListedOnce, RunsToEnd,
                      CheckPending
    <2>. QED
        BY <2>1, <2>2, <2>3, <2>4, <2>5, <2>6, <2>7, <2>8, <2>9, <2>10, <2>11, <2>12, <2>13,
           <2>14, <2>15, <2>16, <2>17, <2>18, <2>19, <2>20, <2>21, <2>22, <2>23, <2>24, <2>25
        DEF MonitorNext, Runs, Tick
<1>. QED
    BY <1>1, <1>2, PTL DEF MonitorSpec

\* While the clock goes forward, a request whose result was stored never reads
\* as one that did not run, whatever other checks of the monitor end later.
THEOREM ServedReadsAsServed == MonitorSpec => []ServedIsReported
<1>1. MonitorInv => ServedIsReported
    BY DEF MonitorInv, RowTypes, InThePast, ServedIsReported, CheckNotRun
<1>. QED
    BY <1>1, MonitorInductive, PTL

\* No request is checked twice, though a list taken before its check finished
\* shows it pending.
THEOREM CheckRunsOnce == MonitorSpec => RunsOnce
<1>1. MonitorInv /\ [MonitorNext]_monitorVars =>
        [ \A m \in Monitors :
            manual[m] = "worker" /\ manual'[m] = "check" => ran[m] < serving[m] ]_monitorVars
    BY DEF MonitorInv, ServesLater
<1>. QED
    BY <1>1, MonitorInductive, PTL DEF MonitorSpec, RunsOnce

\* A pending request is ended by its own check, or because it can have none.
THEOREM EndIsItsOwn == MonitorSpec => EndsForItsOwnReason
<1>. DEFINE Reason(m) ==
                \/ ran[m] = requested[m]
                \/ ~enabled'[m] \/ paused \/ server # "up"
                \/ tickAt - requested[m] > CheckMaxAge
            ForAReason == \A m \in Monitors : CheckPending(m) /\ ~CheckPending(m)' => Reason(m)
<1>1. MonitorInv /\ [MonitorNext]_monitorVars => [ForAReason]_monitorVars
    <2>. SUFFICES ASSUME MonitorInv, MonitorNext, NEW m \in Monitors,
                         CheckPending(m), ~CheckPending(m)'
                  PROVE  Reason(m)
        OBVIOUS
    <2>. USE DEF MonitorInv, clockVars, rowVars, serverVars, tickVars, slotVars, manualVars, history
    <2>1. ASSUME NEW x \in Monitors, SetsMonitor(x) PROVE Reason(m)
        BY <2>1 DEF SetsMonitor, Ended, Set, CheckPending, RowTypes
    <2>2. ASSUME NEW x \in Monitors, RequestsCheck(x) PROVE Reason(m)
        BY <2>2 DEF RequestsCheck, Set, CheckPending
    <2>3. ASSUME NEW x \in Monitors, ManualFinishes(x) PROVE Reason(m)
        BY <2>3
           DEF ManualFinishes, ManualGoes, FinishesCheck, Set, CheckPending, RowTypes, RunsToEnd
    <2>4. ASSUME NEW x \in todo, EndsUnserved(x) PROVE Reason(m)
        BY <2>4 DEF EndsUnserved, FinishesCheck, TooOld, Set, CheckPending, RowTypes
    \* No other step touches the rows' times.
    <2>5. CASE UNCHANGED <<requested, finished>>
        BY <2>5 DEF CheckPending
    <2>6. ASSUME NEW x \in Monitors, Runs(x) \/ ManualTakes(x)
          PROVE  ManualFinishes(x) \/ UNCHANGED <<requested, finished>>
        BY <2>6 DEF Runs, SlotEnds, ManualCut, ManualChecks, ManualFrees, ManualTakes
    <2>7. ASSUME Tick
          PROVE  (\E x \in todo : EndsUnserved(x)) \/ UNCHANGED <<requested, finished>>
        BY <2>7 DEF Tick, TickBegins, TickLists, ListFails, SlotsBegin, TickEnds, StartsManual,
                    PassesBy, StartsSlot, SkipsSlot
    <2>8. ASSUME Stops \/ RunnerExits \/ Crash \/ Starts \/ ClockMoves \/ ClockStepsBack
          PROVE  UNCHANGED <<requested, finished>>
        BY <2>8 DEF Stops, RunnerExits, Crash, Starts, ClockMoves, ClockStepsBack
    <2>. QED
        BY <2>1, <2>2, <2>3, <2>4, <2>5, <2>6, <2>7, <2>8 DEF MonitorNext
<1>. QED
    BY <1>1, MonitorInductive, PTL DEF MonitorSpec, EndsForItsOwnReason

-----------------------------------------------------------------------------
(* The daily readings.                                                     *)

\* The part of the types the property of the readings rests on.
ReadingsTyped ==
    /\ hours \in Nat /\ readings \in Nat
    /\ lookAt \in Int /\ tried \in Int /\ lastTry \in Int
    /\ reading \in [no : Nat, at : Int]
    /\ taken \in [Goroutines -> [no : Nat, at : Int]]
    /\ goroutine \in [Goroutines -> {"none", "lock", "pool", "reads", "ends"}]

\* One goroutine at a time is past the lock, and its reading is the newest.
TakenInTurn ==
    /\ \A g \in Goroutines : goroutine[g] \in {"pool", "reads"} => lockedBy = g
    /\ reading.no <= readings /\ reading.at <= hours
    /\ \A g \in Goroutines : goroutine[g] = "reads" =>
         reading.no <= taken[g].no /\ reading.at <= taken[g].at
         /\ taken[g].no <= readings /\ taken[g].at \in 0..hours

\* What the store holds is of a domain some monitor uses.
ReadIsUsed == reading.no # 0 => \E m \in Watchers : watching[m] # "none"

\* tried is no earlier than the last reading begun, but while a scheduled one
\* is between its lookup and its end.
TriesCounted ==
    /\ lastTry <= hours
    /\ \/ lastTry <= tried
       \/ goroutine[DailyRead] \in {"reads", "ends"} /\ tried # Never

ReadsInv == ReadingsTyped /\ TakenInTurn /\ ReadIsUsed /\ TriesCounted

\* A stored reading gives way only to one taken after it, none comes back for
\* a domain no monitor uses, and a scheduled reading is queued no sooner than
\* dailyRetry after the last was begun.
THEOREM NewestReadingIsKept == ReadsSpec => NewestReadingStays
<1>. USE MonitorReadsAssumption, ReadersApart
<1>1. ReadsInit => ReadsInv
    <2>. SUFFICES ASSUME ReadsInit PROVE ReadsInv
        OBVIOUS
    <2>1. Never \in Int /\ Unread \in [no : Nat, at : Int] /\ Never <= 0
        BY DEF Never, Unread
    <2>2. ReadingsTyped
        BY <2>1 DEF ReadsInit, ReadingsTyped
    <2>3. TakenInTurn /\ ReadIsUsed /\ TriesCounted
        BY <2>1 DEF ReadsInit, TakenInTurn, ReadIsUsed, TriesCounted, Unread
    <2>. QED
        BY <2>2, <2>3 DEF ReadsInv
<1>2. ReadsInv /\ [ReadsNext]_readsVars => ReadsInv'
    <2>. SUFFICES ASSUME ReadsInv, [ReadsNext]_readsVars PROVE ReadsInv'
        OBVIOUS
    <2>. USE DEF ReadsInv, rowsVars, lookVars, goroutineVars, boundVars
    <2>0. Never \in Int /\ Unread \in [no : Nat, at : Int] /\ Never <= 0 /\ DailyRead \in Goroutines
        BY DEF Never, Unread, Goroutines
    <2>1. NoGoroutine \notin Goroutines
        BY DEF Goroutines, DailyRead, NoGoroutine
    <2>2. ASSUME NEW m \in Watchers, ManualReads(m) PROVE ReadsInv'
        <3>1. ReadingsTyped'
            BY <2>2, <2>0 DEF ManualReads, RunsFrom, Goroutines, ReadingsTyped
        <3>2. TakenInTurn'
            BY <2>2, <2>0 DEF ManualReads, RunsFrom, Goroutines, TakenInTurn, ReadingsTyped
        <3>3. ReadIsUsed'
            BY <2>2, <2>0 DEF ManualReads, RunsFrom, Goroutines, ReadIsUsed, ReadingsTyped
        <3>4. TriesCounted'
            BY <2>2, <2>0 DEF ManualReads, RunsFrom, Goroutines, TriesCounted, ReadingsTyped
        <3>. QED
            BY <3>1, <3>2, <3>3, <3>4
    <2>3. ASSUME NEW m \in Watchers, NEW s \in {"none", "off", "on"}, SetsWatch(m, s) PROVE ReadsInv'
        <3>1. ReadingsTyped'
            BY <2>3, <2>0 DEF SetsWatch, Unread, Never, ReadingsTyped
        <3>2. TakenInTurn'
            BY <2>3, <2>0 DEF SetsWatch, Unread, Never, TakenInTurn, ReadingsTyped
        <3>3. ReadIsUsed'
            BY <2>3, <2>0 DEF SetsWatch, Unread, Never, ReadIsUsed, ReadingsTyped
        <3>4. TriesCounted'
            BY <2>3, <2>0 DEF SetsWatch, Unread, Never, TriesCounted, ReadingsTyped
        <3>. QED
            BY <3>1, <3>2, <3>3, <3>4
    <2>4. ASSUME TickListsWatched PROVE ReadsInv'
        <3>1. ReadingsTyped'
            BY <2>4, <2>0 DEF TickListsWatched, ReadingsTyped
        <3>2. TakenInTurn'
            BY <2>4, <2>0 DEF TickListsWatched, TakenInTurn, ReadingsTyped
        <3>3. ReadIsUsed'
            BY <2>4, <2>0 DEF TickListsWatched, ReadIsUsed, ReadingsTyped
        <3>4. TriesCounted'
            BY <2>4, <2>0 DEF TickListsWatched, TriesCounted, ReadingsTyped
        <3>. QED
            BY <3>1, <3>2, <3>3, <3>4
    <2>5. ASSUME SlotComes PROVE ReadsInv'
        <3>1. ReadingsTyped'
            BY <2>5, <2>0 DEF SlotComes, ReadingsTyped
        <3>2. TakenInTurn'
            BY <2>5, <2>0 DEF SlotComes, TakenInTurn, ReadingsTyped
        <3>3. ReadIsUsed'
            BY <2>5, <2>0 DEF SlotComes, ReadIsUsed, ReadingsTyped
        <3>4. TriesCounted'
            BY <2>5, <2>0 DEF SlotComes, TriesCounted, ReadingsTyped
        <3>. QED
            BY <3>1, <3>2, <3>3, <3>4
    <2>6. ASSUME SeesReading PROVE ReadsInv'
        <3>1. ReadingsTyped'
            BY <2>6, <2>0 DEF SeesReading, ReadingsTyped
        <3>2. TakenInTurn'
            BY <2>6, <2>0 DEF SeesReading, TakenInTurn, ReadingsTyped
        <3>3. ReadIsUsed'
            BY <2>6, <2>0 DEF SeesReading, ReadIsUsed, ReadingsTyped
        <3>4. TriesCounted'
            BY <2>6, <2>0 DEF SeesReading, TriesCounted, ReadingsTyped
        <3>. QED
            BY <3>1, <3>2, <3>3, <3>4
    <2>7. ASSUME StartsRead PROVE ReadsInv'
        <3>1. ReadingsTyped'
            BY <2>7, <2>0 DEF StartsRead, RunsFrom, MayRead, StaleReading, ReadingsTyped
        <3>2. TakenInTurn'
            BY <2>7, <2>0
               DEF StartsRead, RunsFrom, MayRead, StaleReading, TakenInTurn, ReadingsTyped
        <3>3. ReadIsUsed'
            BY <2>7, <2>0
               DEF StartsRead, RunsFrom, MayRead, StaleReading, ReadIsUsed, ReadingsTyped
        <3>4. TriesCounted'
            BY <2>7, <2>0
               DEF StartsRead, RunsFrom, MayRead, StaleReading, TriesCounted, ReadingsTyped
        <3>. QED
            BY <3>1, <3>2, <3>3, <3>4
    <2>8. ASSUME NEW g \in Goroutines, LocksReading(g) PROVE ReadsInv'
        <3>1. ReadingsTyped'
            BY <2>8, <2>0 DEF LocksReading, RunsFrom, ReadingsTyped
        <3>2. TakenInTurn'
            BY <2>8, <2>0, <2>1 DEF LocksReading, RunsFrom, TakenInTurn, ReadingsTyped
        <3>3. ReadIsUsed'
            BY <2>8, <2>0 DEF LocksReading, RunsFrom, ReadIsUsed, ReadingsTyped
        <3>4. TriesCounted'
            BY <2>8, <2>0 DEF LocksReading, RunsFrom, TriesCounted, ReadingsTyped
        <3>. QED
            BY <3>1, <3>2, <3>3, <3>4
    <2>9. ASSUME NEW g \in Goroutines, TakesReading(g) PROVE ReadsInv'
        <3>1. ReadingsTyped'
            BY <2>9, <2>0 DEF TakesReading, RunsFrom, ReadingsTyped
        <3>2. TakenInTurn'
            BY <2>9, <2>0 DEF TakesReading, RunsFrom, TakenInTurn, ReadingsTyped
        <3>3. ReadIsUsed'
            BY <2>9, <2>0 DEF TakesReading, RunsFrom, ReadIsUsed, ReadingsTyped
        <3>4. TriesCounted'
            BY <2>9, <2>0 DEF TakesReading, RunsFrom, TriesCounted, ReadingsTyped
        <3>. QED
            BY <3>1, <3>2, <3>3, <3>4
    <2>10. ASSUME NEW g \in Goroutines, StoresReading(g) PROVE ReadsInv'
        <3>1. ReadingsTyped'
            BY <2>10, <2>0 DEF StoresReading, Unlocks, RunsFrom, ReadingsTyped
        <3>2. TakenInTurn'
            BY <2>10, <2>0 DEF StoresReading, Unlocks, RunsFrom, TakenInTurn, ReadingsTyped
        <3>3. ReadIsUsed'
            BY <2>10, <2>0 DEF StoresReading, Unlocks, RunsFrom, ReadIsUsed, ReadingsTyped
        <3>4. TriesCounted'
            BY <2>10, <2>0 DEF StoresReading, Unlocks, RunsFrom, TriesCounted, ReadingsTyped
        <3>. QED
            BY <3>1, <3>2, <3>3, <3>4
    <2>11. ASSUME NEW g \in Goroutines, ReadsNothing(g) PROVE ReadsInv'
        <3>1. ReadingsTyped'
            BY <2>11, <2>0 DEF ReadsNothing, Unlocks, RunsFrom, ReadingsTyped
        <3>2. TakenInTurn'
            BY <2>11, <2>0 DEF ReadsNothing, Unlocks, RunsFrom, TakenInTurn, ReadingsTyped
        <3>3. ReadIsUsed'
            BY <2>11, <2>0 DEF ReadsNothing, Unlocks, RunsFrom, ReadIsUsed, ReadingsTyped
        <3>4. TriesCounted'
            BY <2>11, <2>0 DEF ReadsNothing, Unlocks, RunsFrom, TriesCounted, ReadingsTyped
        <3>. QED
            BY <3>1, <3>2, <3>3, <3>4
    <2>12. ASSUME DailyReadEnds PROVE ReadsInv'
        <3>1. ReadingsTyped'
            BY <2>12, <2>0 DEF DailyReadEnds, RunsFrom, ReadingsTyped
        <3>2. TakenInTurn'
            BY <2>12, <2>0 DEF DailyReadEnds, RunsFrom, TakenInTurn, ReadingsTyped
        <3>3. ReadIsUsed'
            BY <2>12, <2>0 DEF DailyReadEnds, RunsFrom, ReadIsUsed, ReadingsTyped
        <3>4. TriesCounted'
            BY <2>12, <2>0 DEF DailyReadEnds, RunsFrom, TriesCounted, ReadingsTyped
        <3>. QED
            BY <3>1, <3>2, <3>3, <3>4
    <2>13. ASSUME MonitorRestarts PROVE ReadsInv'
        <3>1. ReadingsTyped'
            BY <2>13, <2>0 DEF MonitorRestarts, ReadingsTyped
        <3>2. TakenInTurn'
            BY <2>13, <2>0 DEF MonitorRestarts, TakenInTurn, ReadingsTyped
        <3>3. ReadIsUsed'
            BY <2>13, <2>0 DEF MonitorRestarts, ReadIsUsed, ReadingsTyped
        <3>4. TriesCounted'
            BY <2>13, <2>0 DEF MonitorRestarts, TriesCounted, ReadingsTyped
        <3>. QED
            BY <3>1, <3>2, <3>3, <3>4
    <2>14. ASSUME RetryClockMoves PROVE ReadsInv'
        <3>1. ReadingsTyped'
            BY <2>14, <2>0 DEF RetryClockMoves, ReadingsTyped
        <3>2. TakenInTurn'
            BY <2>14, <2>0 DEF RetryClockMoves, TakenInTurn, ReadingsTyped
        <3>3. ReadIsUsed'
            BY <2>14, <2>0 DEF RetryClockMoves, ReadIsUsed, ReadingsTyped
        <3>4. TriesCounted'
            BY <2>14, <2>0 DEF RetryClockMoves, TriesCounted, ReadingsTyped
        <3>. QED
            BY <3>1, <3>2, <3>3, <3>4
    <2>15. ASSUME UNCHANGED readsVars PROVE ReadsInv'
        BY <2>15 DEF readsVars, ReadingsTyped, TakenInTurn, ReadIsUsed, TriesCounted
    <2>. QED
        BY <2>2, <2>3, <2>4, <2>5, <2>6, <2>7, <2>8, <2>9, <2>10, <2>11, <2>12, <2>13, <2>14,
           <2>15
           DEF ReadsNext
<1>. DEFINE Newest ==
        /\ reading'.no # 0 => reading'.no >= reading.no /\ reading'.at >= reading.at
        /\ reading'.no # 0 => \E m \in Watchers : watching'[m] # "none"
        /\ goroutine[DailyRead] = "none" /\ goroutine'[DailyRead] = "lock"
              => lookAt - lastTry >= DailyRetry
<1>3. ReadsInv /\ ReadsInv' /\ [ReadsNext]_readsVars => [Newest]_readsVars
    <2>. SUFFICES ASSUME ReadsInv, ReadsInv', ReadsNext PROVE Newest
        OBVIOUS
    <2>. USE DEF ReadsInv, rowsVars, lookVars, goroutineVars, boundVars
    <2>0. DailyRead \in Goroutines
        BY DEF Goroutines
    <2>1. reading'.no # 0 => reading'.no >= reading.no /\ reading'.at >= reading.at
        <3>1. ASSUME NEW g \in Goroutines, StoresReading(g)
              PROVE  reading'.no >= reading.no /\ reading'.at >= reading.at
            BY <3>1 DEF StoresReading, Unlocks, RunsFrom, TakenInTurn, ReadingsTyped
        <3>2. ASSUME NEW m \in Watchers, NEW s \in {"none", "off", "on"}, SetsWatch(m, s), reading'.no # 0
              PROVE  reading' = reading
            BY <3>2 DEF SetsWatch, Unread
        <3>3. \/ \E m \in Watchers, s \in {"none", "off", "on"} : SetsWatch(m, s)
              \/ \E g \in Goroutines : StoresReading(g)
              \/ reading' = reading
            BY DEF ReadsNext, ManualReads, TickListsWatched, SlotComes, SeesReading, StartsRead,
                   LocksReading, TakesReading, ReadsNothing, DailyReadEnds, MonitorRestarts,
                   RetryClockMoves
        <3>. QED
            BY <3>1, <3>2, <3>3 DEF ReadingsTyped
    <2>2. reading'.no # 0 => \E m \in Watchers : watching'[m] # "none"
        BY DEF ReadIsUsed
    <2>3. ASSUME goroutine[DailyRead] = "none", goroutine'[DailyRead] = "lock"
          PROVE  lookAt - lastTry >= DailyRetry
        <3>1. lastTry <= tried
            BY <2>3 DEF TriesCounted
        <3>2. StartsRead
            BY <2>0, <2>3
               DEF ReadsNext, ManualReads, SetsWatch, TickListsWatched, SlotComes, SeesReading,
                   LocksReading, TakesReading, StoresReading, ReadsNothing, Unlocks, RunsFrom,
                   DailyReadEnds, MonitorRestarts, RetryClockMoves, ReadingsTyped, Goroutines
        <3>3. lookAt - tried >= DailyRetry
            BY <2>0, <2>3, <3>2 DEF StartsRead, MayRead
        <3>. QED
            BY <3>1, <3>3 DEF ReadingsTyped
    <2>. QED
        BY <2>1, <2>2, <2>3
<1>. QED
    BY <1>1, <1>2, <1>3, PTL DEF ReadsSpec, NewestReadingStays

=============================================================================
