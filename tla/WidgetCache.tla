------------------------------ MODULE WidgetCache ------------------------------
(***************************************************************************)
(* The cache of widget values (internal/reporting/cache.go) under its two  *)
(* callers: a GET of one widget, and a stream (stream.go) that claims the  *)
(* widgets of a dashboard together, loads those it leads and waits for     *)
(* those another call is loading.  One load serves every call that asks    *)
(* for its widget meanwhile.                                               *)
(*                                                                         *)
(* A stream's query widgets are loaded together (batch), in the goroutine  *)
(* that claimed them; its other loads and its waits have one each.  Values *)
(* and the shorter age of a refresh are left out.                          *)
(***************************************************************************)
EXTENDS Integers

CONSTANTS
    Widgets,
    Queries,        \* those a stream loads as a batch
    Gets, Streams,  \* callers
    MaxMishaps      \* bound: failed loads, panics, clients gone, ages passed

ASSUME WidgetCacheAssumption == Queries \subseteq Widgets /\ MaxMishaps \in Nat

VARIABLES
    cached,     \* the widgets with an entry young enough
    leader,     \* leader[w]: the call whose flight for w is in c.flights
    stage,      \* stage[c]: "idle", "claims", "loads" or "sweeps"
    task,       \* task[c][w]: how far c is with w
    gone,       \* the streams whose client has gone (ctx is done)
    mishaps     \* bound: the mishaps so far

widgetVars == <<cached, leader, stage, task, gone, mishaps>>

Callers  == Gets \cup Streams
NoCall == "none"

Mishap == mishaps < MaxMishaps /\ mishaps' = mishaps + 1
AsPlanned == UNCHANGED mishaps

Answered == {"value", "error", "cancelled"}
Leading  == {"batch", "alone"}

Task(c, w, t) == [task EXCEPT ![c][w] = t]

Move(c, from, to) == stage[c] = from /\ stage' = [stage EXCEPT ![c] = to]

GetCalls(c, w) ==
    /\ AsPlanned
    /\ Move(c, "idle", "loads")
    /\ task' = Task(c, w, "todo")
    /\ UNCHANGED <<cached, leader, gone>>

StreamCalls(c) ==
    /\ AsPlanned
    /\ Move(c, "idle", "claims")
    /\ task' = [task EXCEPT ![c] = [w \in Widgets |-> "todo"]]
    /\ UNCHANGED <<cached, leader, gone>>

\* How a call loads a widget it comes to lead: a stream's queries together,
\* unless an abandoned flight has left it the load.
Lead(c, w) ==
    IF c \in Streams /\ w \in Queries /\ task[c][w] = "todo" THEN "batch" ELSE "alone"

\* claim, in one critical section: the entry, or the flight, or a new one.
Claims(c, w) ==
    /\ AsPlanned
    /\ \/ task[c][w] = "todo" /\ (c \in Streams => stage[c] = "claims")
       \/ task[c][w] = "again"
    /\ IF w \in cached
       THEN task' = Task(c, w, "value") /\ UNCHANGED leader
       ELSE IF leader[w] # NoCall
       THEN task' = Task(c, w, "waits") /\ UNCHANGED leader
       ELSE task' = Task(c, w, Lead(c, w)) /\ leader' = [leader EXCEPT ![w] = c]
    /\ UNCHANGED <<cached, stage, gone>>

\* The stream has claimed all it was asked for and starts its goroutines.
StreamLoads(c) ==
    /\ AsPlanned
    /\ c \in Streams /\ \A w \in Widgets : task[c][w] # "todo"
    /\ Move(c, "claims", "loads")
    /\ UNCHANGED <<cached, leader, task, gone>>

\* settle of the flights of c for W: its waiters share the end, or load for
\* themselves when c's client has gone.
Settled(c, W, end) ==
    [d \in Callers |-> [w \in Widgets |->
        IF w \notin W THEN task[d][w]
        ELSE IF d = c THEN end
        ELSE IF task[d][w] = "waits" THEN (IF end = "cancelled" THEN "again" ELSE end)
        ELSE task[d][w]]]

Lands(W) == leader' = [w \in Widgets |-> IF w \in W THEN NoCall ELSE leader[w]]

Running(c, w) ==
    \/ task[c][w] = "batch" /\ stage[c] = "loads"
    \/ task[c][w] = "alone" /\ stage[c] \in {"loads", "sweeps"}

LoadSucceeds(c, w) ==
    /\ AsPlanned
    /\ Running(c, w)
    /\ task' = Settled(c, {w}, "value")
    /\ cached' = cached \cup {w}
    /\ Lands({w})
    /\ UNCHANGED <<stage, gone>>

\* An error, or a panic of a load of its own.
LoadGoesWrong(c, w) ==
    /\ Mishap
    /\ Running(c, w)
    /\ task' = Settled(c, {w}, "error")
    /\ Lands({w})
    /\ UNCHANGED <<cached, stage, gone>>

\* Mutant of LoadStops: the waiters get the cancellation.
MutLoadStops(c, w) ==
    /\ AsPlanned
    /\ c \in gone /\ Running(c, w)
    /\ task' = [d \in Callers |-> [Settled(c, {w}, "cancelled")[d] EXCEPT ![w] =
                   IF @ = "again" THEN "cancelled" ELSE @]]
    /\ Lands({w})
    /\ UNCHANGED <<cached, stage, gone>>

\* The client of a stream has gone, and with it its loads ...
LoadStops(c, w) ==
    /\ AsPlanned
    /\ c \in gone /\ Running(c, w)
    /\ task' = Settled(c, {w}, "cancelled")
    /\ Lands({w})
    /\ UNCHANGED <<cached, stage, gone>>

\* ... and its waits.
WaitStops(c, w) ==
    /\ AsPlanned
    /\ c \in gone /\ task[c][w] = "waits" /\ stage[c] # "claims"
    /\ task' = Task(c, w, "cancelled")
    /\ UNCHANGED <<cached, leader, stage, gone>>

\* A panic among the claims: what is claimed is never loaded, nor waited for.
ClaimPanics(c) ==
    /\ Mishap
    /\ Move(c, "claims", "sweeps")
    /\ task' = [task EXCEPT ![c] = [w \in Widgets |->
                   IF @[w] \in Leading THEN "batch"
                   ELSE IF @[w] \in Answered THEN @[w] ELSE "error"]]
    /\ UNCHANGED <<cached, leader, gone>>

\* A panic of the batch: what it has not answered is never loaded.
BatchPanics(c) ==
    /\ Mishap
    /\ \E w \in Widgets : task[c][w] = "batch"
    /\ Move(c, "loads", "sweeps")
    /\ UNCHANGED <<cached, leader, task, gone>>

BatchEnds(c) ==
    /\ AsPlanned
    /\ c \in Streams /\ \A w \in Widgets : task[c][w] # "batch"
    /\ Move(c, "loads", "sweeps")
    /\ UNCHANGED <<cached, leader, task, gone>>

Unsettled(c) == { w \in Widgets : task[c][w] = "batch" }

Ended(c) == \A w \in Widgets : task[c][w] \in Answered \cup {"batch", "none"}

\* Mutant of Sweeps: the flights never loaded stay open.
MutSweeps(c) ==
    /\ AsPlanned
    /\ c \in Streams /\ Ended(c)
    /\ Move(c, "sweeps", "idle")
    /\ task' = [task EXCEPT ![c] = [w \in Widgets |-> "none"]]
    /\ gone' = gone \ {c}
    /\ UNCHANGED <<cached, leader>>

\* The last word of a stream, once its goroutines have ended: each flight it
\* has not settled is settled with an error, each request answered.
Sweeps(c) ==
    /\ AsPlanned
    /\ c \in Streams /\ Ended(c)
    /\ Move(c, "sweeps", "idle")
    /\ task' = [Settled(c, Unsettled(c), "error") EXCEPT ![c] = [w \in Widgets |-> "none"]]
    /\ Lands(Unsettled(c))
    /\ gone' = gone \ {c}
    /\ UNCHANGED cached

GetReturns(c) ==
    /\ AsPlanned
    /\ c \in Gets /\ Ended(c)
    /\ Move(c, "loads", "idle")
    /\ task' = [task EXCEPT ![c] = [w \in Widgets |-> "none"]]
    /\ UNCHANGED <<cached, leader, gone>>

ClientLeaves(c) ==
    /\ Mishap
    /\ stage[c] # "idle" /\ c \notin gone
    /\ gone' = gone \cup {c}
    /\ UNCHANGED <<cached, leader, stage, task>>

Ages(w) ==
    /\ Mishap
    /\ w \in cached /\ cached' = cached \ {w}
    /\ UNCHANGED <<leader, stage, task, gone>>

WidgetInit ==
    /\ cached = {} /\ gone = {} /\ mishaps = 0
    /\ leader = [w \in Widgets |-> NoCall]
    /\ stage = [c \in Callers |-> "idle"]
    /\ task = [c \in Callers |-> [w \in Widgets |-> "none"]]

\* What a call does of itself once it has begun.
GoesOn(c) ==
    \/ \E w \in Widgets : \/ Claims(c, w) \/ LoadSucceeds(c, w) \/ LoadStops(c, w)
                           \/ WaitStops(c, w)
    \/ StreamLoads(c) \/ BatchEnds(c) \/ Sweeps(c) \/ GetReturns(c)

WidgetNext ==
    \/ \E c \in Callers : GoesOn(c)
    \/ \E c \in Callers, w \in Widgets : LoadGoesWrong(c, w)
    \/ \E c \in Gets, w \in Widgets : GetCalls(c, w)
    \/ \E c \in Streams : StreamCalls(c) \/ ClaimPanics(c) \/ BatchPanics(c) \/ ClientLeaves(c)
    \/ \E w \in Widgets : Ages(w)

\* A call runs: each of its goroutines goes on when it can, loads having a
\* deadline.
WidgetFairness == \A c \in Callers : WF_widgetVars(GoesOn(c))

WidgetSpec == WidgetInit /\ [][WidgetNext]_widgetVars /\ WidgetFairness

-----------------------------------------------------------------------------

WidgetTypeOK ==
    /\ cached \subseteq Widgets /\ gone \subseteq Streams
    /\ leader \in [Widgets -> Callers \cup {NoCall}]
    /\ stage \in [Callers -> {"idle", "claims", "loads", "sweeps"}]
    /\ task \in [Callers -> [Widgets -> Answered \cup Leading \cup
                                       {"none", "todo", "waits", "again"}]]
    /\ mishaps \in 0..MaxMishaps

\* A call is answered with a cancellation only when its own client has gone,
\* though the load it waited for was another call's.
CancelStaysOwn == \A c \in Callers, w \in Widgets : task[c][w] = "cancelled" => c \in gone

\* A call of a ring that streams whose batches panicked have closed: each of S
\* waits, before it settles what it claimed, for what another of S claimed.
Crossed(c) ==
    \E S \in SUBSET (Callers \ gone) : c \in S /\
        \A d \in S : \E e \in S, w \in Widgets :
            task[d][w] = "waits" /\ task[e][w] = "batch" /\ stage[e] = "sweeps"

\* Every call returns, whatever became of the loads it waited for: failed,
\* abandoned, panicked or never run.  The one exception: it waits on streams
\* whose batches all panicked while each waits for a widget another claimed.
EveryCallReturns == \A c \in Callers : stage[c] # "idle" ~> stage[c] = "idle" \/ Crossed(c)

=============================================================================
