-------------------------------- MODULE MCServer -------------------------------
(***************************************************************************)
(* Parts of the server that are modelled apart from each other and from    *)
(* Archive, checked in one run: each behaviour is one of one of the Parts, *)
(* the variables of the others keeping the values they begin with.         *)
(***************************************************************************)
EXTENDS Salter, ShareCache, LogBudget, LogCache, SdkQueue, SharedScan, AnswerQueue,
        MCDerived, Registry, MonitorReads, DashboardOrder

CONSTANTS Parts, x, y, z

VARIABLES part

\* The logs' lines are of different lengths, so that one may end where
\* another does not.
MCLength == [l \in LogLines |-> IF l = x THEN 1 ELSE 2]

Req(key, aggs, heavy) == [key |-> key, aggs |-> aggs, heavy |-> heavy]

\* Calls whose requests are too heavy together, or too many, or of which one
\* is too heavy by itself; one that waits for all turns behind two answered
\* alone; in each some are put out of their scan.
MCCalls ==
    { <<>>,
      <<Req("views", 1, 0), Req("views", 1, 1), Req("views", 2, 2)>>,
      <<Req("views", 3, 2), Req("views", 2, 1)>>,
      <<Req("invalid", 1, 0), Req("views", 1, 0), Req("sessions", 3, 3)>>,
      <<Req("alone", 1, 0), Req("alone", 1, 0), Req("views", 2, 2)>> }

vars == <<part, saltVars, shareVars, budgetVars, logCacheVars, sdkVars, manyVars, queueVars,
          derivedVars, registryVars, readsVars, dashboardVars>>

\* To begin with all groups are named, and no dashboard is archived.
FewArranged ==
    /\ \A d \in Dashboards : db.status[d] # "archived"
    /\ \A g \in GroupsOf(db) : db.name[g] # NoTitle

MCInit ==
    /\ part \in Parts
    /\ SaltInit /\ ShareInit /\ BudgetInit /\ LogCacheInit /\ SdkInit
    /\ QueueInit /\ DerivedInit /\ RegistryInit /\ ReadsInit
    /\ ManyInit /\ (part # "many" => asked = <<>>)
    /\ DashboardInit /\ FewArranged /\ (part # "dashboards" => db = CHOOSE o \in Arrangements : TRUE)

SalterSteps ==
    /\ part = "salter" /\ SaltNext
    /\ UNCHANGED <<part, shareVars, budgetVars, logCacheVars, sdkVars, manyVars, queueVars,
                   derivedVars, registryVars, readsVars, dashboardVars>>

ShareSteps ==
    /\ part = "share" /\ ShareNext
    /\ UNCHANGED <<part, saltVars, budgetVars, logCacheVars, sdkVars, manyVars, queueVars,
                   derivedVars, registryVars, readsVars, dashboardVars>>

\* One log is rotated.
BudgetSteps ==
    /\ part = "budget" /\ BudgetNext
    /\ \E p \in Paths : log'[p].file = 1
    /\ UNCHANGED <<part, saltVars, shareVars, logCacheVars, sdkVars, manyVars, queueVars,
                   derivedVars, registryVars, readsVars, dashboardVars>>

\* An append fails in a log that is not rotated.
LogCacheSteps ==
    /\ part = "logs" /\ LogCacheNext
    /\ shorts' > 0 => named' = 1
    /\ UNCHANGED <<part, saltVars, shareVars, budgetVars, sdkVars, manyVars, queueVars,
                   derivedVars, registryVars, readsVars, dashboardVars>>

SdkSteps ==
    /\ part = "sdk" /\ SdkNext
    /\ UNCHANGED <<part, saltVars, shareVars, budgetVars, logCacheVars, manyVars, queueVars,
                   derivedVars, registryVars, readsVars, dashboardVars>>

\* Two troubles only for the smaller calls, one of them a context done.
ManySteps ==
    /\ part = "many" /\ ManyNext
    /\ troubles' > 1 => Len(asked) <= 2 /\ ctxDone' # {}
    /\ UNCHANGED <<part, saltVars, shareVars, budgetVars, logCacheVars, sdkVars, queueVars,
                   derivedVars, registryVars, readsVars, dashboardVars>>

QueueSteps ==
    /\ part = "queue" /\ QueueNext
    /\ UNCHANGED <<part, saltVars, shareVars, budgetVars, logCacheVars, sdkVars, manyVars,
                   derivedVars, registryVars, readsVars, dashboardVars>>

\* A fault only without the second month.
DerivedSteps ==
    /\ part = "derived" /\ DerivedNext
    /\ passFaults' > 0 => l4 \notin lotsBorn'
    /\ UNCHANGED <<part, saltVars, shareVars, budgetVars, logCacheVars, sdkVars, manyVars, queueVars,
                   registryVars, readsVars, dashboardVars>>

RegistrySteps ==
    /\ part = "registry" /\ RegistryNext
    /\ UNCHANGED <<part, saltVars, shareVars, budgetVars, logCacheVars, sdkVars, manyVars, queueVars,
                   derivedVars, readsVars, dashboardVars>>

\* A restart only with one monitor at a time.
ReadsSteps ==
    /\ part = "reads" /\ ReadsNext
    /\ restarts' > 0 => \E m \in Watchers : watching'[m] = "none"
    /\ UNCHANGED <<part, saltVars, shareVars, budgetVars, logCacheVars, sdkVars, manyVars, queueVars,
                   derivedVars, registryVars, dashboardVars>>

\* Two requests, or one and a fault, and so on; a third of them only if it is a
\* purge amid the writes of a placement.  The callers are alike, so the others
\* are used only beside the first.
FirstCaller == CHOOSE c \in Callers : TRUE
Used == calls + archivings + writeFaults

DashboardSteps ==
    /\ part = "dashboards" /\ DashboardNext
    /\ Used' > 2 => Used' = Used \/ (placeMu # NoCaller /\ Len(db'.order) < Len(db.order))
    /\ \A c \in Callers : calling[c] # calling'[c] /\ calling[c] = "idle"
                              => c = FirstCaller \/ calling[FirstCaller] # "idle"
    /\ UNCHANGED <<part, saltVars, shareVars, budgetVars, logCacheVars, sdkVars, manyVars, queueVars,
                   derivedVars, registryVars, readsVars>>

Next == SalterSteps \/ ShareSteps \/ BudgetSteps \/ LogCacheSteps \/ SdkSteps
        \/ ManySteps \/ QueueSteps \/ DerivedSteps \/ RegistrySteps \/ ReadsSteps
        \/ DashboardSteps

Spec == MCInit /\ [][Next]_vars

TypeOK ==
    CASE part = "salter"   -> SaltTypeOK
      [] part = "share"    -> ShareTypeOK
      [] part = "budget"   -> BudgetTypeOK
      [] part = "logs"     -> LogCacheTypeOK
      [] part = "sdk"      -> SdkTypeOK
      [] part = "many"     -> ManyTypeOK
      [] part = "queue"    -> QueueTypeOK
      [] part = "derived"  -> DerivedTypeOK
      [] part = "registry" -> RegistryTypeOK
      [] part = "reads"    -> ReadsTypeOK
      [] part = "dashboards" -> DashboardTypeOK

=============================================================================
