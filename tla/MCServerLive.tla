------------------------------- MODULE MCServerLive -----------------------------
(***************************************************************************)
(* Parts of the server that meet neither each other nor the event files,   *)
(* checked in one run: each behaviour is one of one of the Parts, the      *)
(* variables of the others keeping the values they begin with; one caller  *)
(* as the part stands for the widgets without it.  These parts have        *)
(* something to do in the end.                                             *)
(***************************************************************************)
EXTENDS WidgetCache, Sweep, Outbox, Pipeline, Registry

CONSTANTS Parts, Second

VARIABLES part

vars == <<part, widgetVars, sweepVars, outboxVars, pipelineVars, registryVars>>

MCInit ==
    /\ part \in Parts \cup Callers
    /\ WidgetInit /\ SweepInit /\ OutboxInit /\ PipelineInit /\ RegistryInit

\* Either one caller stays out, or there is at most one mishap.
WidgetSteps ==
    /\ WidgetNext
    /\ \/ part = "widget" /\ mishaps' <= 1
       \/ part \in Callers /\ stage'[part] = "idle"
    /\ UNCHANGED <<part, sweepVars, outboxVars, pipelineVars, registryVars>>

SweepSteps ==
    part = "sweep" /\ SweepNext /\ UNCHANGED <<part, widgetVars, outboxVars, pipelineVars, registryVars>>

\* A third submission only where nothing fails; the Second only after another
\* that has an event too, of a form that stays open.
OutboxSteps ==
    /\ part = "outbox" /\ OutboxNext
    /\ inserts' > 2 => jobFaults' = 0
    /\ Second \in Stored' =>
         /\ Len(table') = 2 /\ table'[2] = Second /\ Readable(Stored') = Stored'
         /\ form' = [status |-> "approved", archived |-> FALSE, over |-> FALSE]
         /\ \A s \in Stored' : ~row'[s].archived
    /\ UNCHANGED <<part, widgetVars, sweepVars, pipelineVars, registryVars>>

PipelineSteps ==
    part = "pipeline" /\ PipelineNext /\ UNCHANGED <<part, widgetVars, sweepVars, outboxVars, registryVars>>

RegistrySteps ==
    part = "registry" /\ RegistryNext
    /\ UNCHANGED <<part, widgetVars, sweepVars, outboxVars, pipelineVars>>

Next == WidgetSteps \/ SweepSteps \/ OutboxSteps \/ PipelineSteps \/ RegistrySteps

\* Requests keep arriving, so a due poll is taken; each request goes on.
RegistryFairness ==
    /\ \A t \in Threads : WF_registryVars(part = "registry" /\ (RequestGoesOn(t) \/ RequestFails(t)))
    /\ WF_registryVars(part = "registry" /\ \E t \in Threads : PollTaken(t))
    /\ WF_registryVars(part = "registry" /\ IntervalPasses)

\* What is fair of another part is not enabled before that part begins.
Fairness == WidgetFairness /\ SweepFairness /\ OutboxFairness /\ PipelineFairness
            /\ RegistryFairness

Spec == MCInit /\ [][Next]_vars /\ Fairness

TypeOK == WidgetTypeOK /\ SweepTypeOK /\ OutboxTypeOK /\ PipelineTypeOK

=============================================================================
