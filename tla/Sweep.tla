---------------------------------- MODULE Sweep --------------------------------
(***************************************************************************)
(* The removal of purged projects' files by the daily pass of the process  *)
(* that ingests (internal/jobs): what it purges itself, and what is on     *)
(* disk for a project its registry does not know, for another process may  *)
(* have purged it.  Requests reload the same registry meanwhile, and       *)
(* events accepted under it reach the disk later.                          *)
(*                                                                         *)
(* A snapshot is the set of projects it lists; an id is never used again.  *)
(***************************************************************************)
EXTENDS Integers

CONSTANTS
    Tenants,        \* projects
    Reloaders,      \* requests that reload the registry
    MaxSweepFaults  \* bound: reloads of the pass that fail

ASSUME SweepAssumption == MaxSweepFaults \in Nat

VARIABLES
    existing, purged,   \* the database: projects, and those purged
    known,              \* the registry's snapshot
    loaded,             \* loaded[r]: what a reload has read, NotLoading if none
    buffered,           \* projects with an event accepted and not yet written
    dirs,               \* projects with a directory
    pass,               \* the pass: "idle", "purged", "listed", "read", "stored", "removes"
    listing,            \* the directories it removes, listed or left of them
    fresh,              \* what its reload has read
    older,              \* history: reloads that began before the pass's
    overtaken,          \* history: whether one of them was stored after it
    sweepFaults         \* bound: the failures so far

dataVars  == <<existing, purged>>
passVars  == <<pass, listing, fresh>>
ghostVars == <<older, overtaken>>
sweepVars == <<dataVars, known, loaded, buffered, dirs, passVars, ghostVars, sweepFaults>>

NotLoading == {"not loading"}

Created(p) ==
    /\ p \notin existing \cup purged
    /\ existing' = existing \cup {p}
    /\ UNCHANGED <<purged, known, loaded, buffered, dirs, passVars, ghostVars, sweepFaults>>

\* Another process purges it.
PurgedElsewhere(p) ==
    /\ p \in existing
    /\ existing' = existing \ {p} /\ purged' = purged \cup {p}
    /\ UNCHANGED <<known, loaded, buffered, dirs, passVars, ghostVars, sweepFaults>>

\* Reload by a request: what it reads is stored later, over whatever is held.
RequestReads(r) ==
    /\ loaded[r] = NotLoading
    /\ loaded' = [loaded EXCEPT ![r] = existing]
    /\ UNCHANGED <<dataVars, known, buffered, dirs, passVars, ghostVars, sweepFaults>>

RequestStores(r) ==
    /\ loaded[r] # NotLoading
    /\ known' = loaded[r]
    /\ loaded' = [loaded EXCEPT ![r] = NotLoading]
    /\ overtaken' = (overtaken \/ (pass = "stored" /\ r \in older))
    /\ older' = older \ {r}
    /\ UNCHANGED <<dataVars, buffered, dirs, passVars, sweepFaults>>

Accepted(p) ==
    /\ p \in known
    /\ buffered' = buffered \cup {p}
    /\ UNCHANGED <<dataVars, known, loaded, dirs, passVars, ghostVars, sweepFaults>>

Written(p) ==
    /\ p \in buffered
    /\ buffered' = buffered \ {p}
    /\ dirs' = dirs \cup {p}
    /\ UNCHANGED <<dataVars, known, loaded, passVars, ghostVars, sweepFaults>>

\* The pass purges a project itself, reloads, and removes its directory
\* though the reload failed.
PassPurges(p) ==
    /\ pass = "idle" /\ pass' = "purged"
    /\ p \in existing
    /\ existing' = existing \ {p} /\ purged' = purged \cup {p}
    /\ listing' = {p}
    /\ UNCHANGED <<known, loaded, buffered, dirs, fresh, ghostVars, sweepFaults>>

PassReloads ==
    /\ pass = "purged" /\ pass' = "removes"
    /\ \/ known' = existing /\ UNCHANGED sweepFaults
       \/ /\ sweepFaults < MaxSweepFaults /\ sweepFaults' = sweepFaults + 1
          /\ UNCHANGED known
    /\ UNCHANGED <<dataVars, loaded, buffered, dirs, listing, fresh, ghostVars>>

\* Mutant of Lists: only the directories of projects the registry knows.
MutLists ==
    /\ pass = "idle" /\ dirs # {} /\ pass' = "listed"
    /\ listing' = dirs \cap known
    /\ UNCHANGED <<dataVars, known, loaded, buffered, dirs, fresh, ghostVars, sweepFaults>>

\* removeOrphanedArchives lists the directories, if there are any, then
\* reloads the registry ...
Lists ==
    /\ pass = "idle" /\ dirs # {} /\ pass' = "listed"
    /\ listing' = dirs
    /\ UNCHANGED <<dataVars, known, loaded, buffered, dirs, fresh, ghostVars, sweepFaults>>

SweepReads ==
    /\ pass = "listed" /\ pass' = "read"
    /\ fresh' = existing
    /\ older' = { r \in Reloaders : loaded[r] # NotLoading }
    /\ overtaken' = FALSE
    /\ UNCHANGED <<dataVars, known, loaded, buffered, dirs, listing, sweepFaults>>

\* Mutant of SweepStores: the directories are listed after the reload.
MutSweepStores ==
    /\ pass = "read" /\ pass' = "stored"
    /\ known' = fresh /\ fresh' = {}
    /\ listing' = dirs
    /\ UNCHANGED <<dataVars, loaded, buffered, dirs, ghostVars, sweepFaults>>

SweepStores ==
    /\ pass = "read" /\ pass' = "stored"
    /\ known' = fresh /\ fresh' = {}
    /\ UNCHANGED <<dataVars, loaded, buffered, dirs, listing, ghostVars, sweepFaults>>

SweepGivesUp ==
    /\ pass = "listed" /\ pass' = "idle"
    /\ listing' = {}
    /\ sweepFaults < MaxSweepFaults /\ sweepFaults' = sweepFaults + 1
    /\ UNCHANGED <<dataVars, known, loaded, buffered, dirs, fresh, ghostVars>>

\* ... looks the listed ones up in the snapshot held then ...
SweepLooks ==
    /\ pass = "stored" /\ pass' = "removes"
    /\ listing' = listing \ known
    /\ UNCHANGED <<dataVars, known, loaded, buffered, dirs, fresh, ghostVars, sweepFaults>>

\* ... and removes those it lacks.
Removes(p) ==
    /\ pass = "removes" /\ p \in listing
    /\ dirs' = dirs \ {p} /\ listing' = listing \ {p}
    /\ UNCHANGED <<dataVars, known, loaded, buffered, pass, fresh, ghostVars, sweepFaults>>

SweepEnds ==
    /\ pass = "removes" /\ listing = {} /\ pass' = "idle"
    /\ older' = {} /\ overtaken' = FALSE
    /\ UNCHANGED <<dataVars, known, loaded, buffered, dirs, listing, fresh, sweepFaults>>

SweepInit ==
    /\ existing = {} /\ purged = {} /\ known = {}
    /\ loaded = [r \in Reloaders |-> NotLoading]
    /\ buffered = {} /\ dirs = {}
    /\ pass = "idle" /\ listing = {} /\ fresh = {}
    /\ older = {} /\ overtaken = FALSE /\ sweepFaults = 0

PassGoesOn ==
    \/ PassReloads \/ Lists \/ SweepReads \/ SweepStores \/ SweepLooks \/ SweepEnds
    \/ \E p \in Tenants : Removes(p)

SweepNext ==
    \/ PassGoesOn \/ SweepGivesUp
    \/ \E p \in Tenants : \/ Created(p) \/ PurgedElsewhere(p) \/ PassPurges(p)
                           \/ Accepted(p) \/ Written(p)
    \/ \E r \in Reloaders : RequestReads(r) \/ RequestStores(r)

\* The pass runs every day, the pipeline writes, a reload that has read stores.
SweepFairness ==
    /\ WF_sweepVars(PassGoesOn)
    /\ WF_sweepVars(\E p \in Tenants : Written(p))
    /\ \A r \in Reloaders : WF_sweepVars(RequestStores(r))

SweepSpec == SweepInit /\ [][SweepNext]_sweepVars /\ SweepFairness

-----------------------------------------------------------------------------

SweepTypeOK ==
    /\ existing \subseteq Tenants /\ purged \subseteq Tenants /\ existing \cap purged = {}
    /\ known \subseteq Tenants /\ buffered \subseteq Tenants /\ dirs \subseteq Tenants
    /\ loaded \in [Reloaders -> (SUBSET Tenants) \cup {NotLoading}]
    /\ pass \in {"idle", "purged", "listed", "read", "stored", "removes"}
    /\ listing \subseteq Tenants /\ fresh \subseteq Tenants
    /\ older \subseteq Reloaders /\ overtaken \in BOOLEAN
    /\ sweepFaults \in 0..MaxSweepFaults

\* The sweep removes no directory of a project that exists, unless a request's
\* reload that had read the database before the sweep's was stored after it:
\* a project created after the sweep began keeps its first events.
LiveFilesStay == pass = "removes" /\ ~overtaken => listing \cap existing = {}

\* What the comment at removeOrphanedArchives says: the reload that follows the
\* listing knows every project listed that exists.
SweepSparesLive == pass = "removes" => listing \cap existing = {}

\* Whoever purged a project, its files are gone in the end, the events still
\* under way when it was purged included.
PurgedFilesGo == <>[](dirs \cap purged = {})

=============================================================================
