-------------------------------- MODULE Registry -------------------------------
(***************************************************************************)
(* The registry of projects and ingest keys (internal/manage): an          *)
(* in-memory snapshot of what the database holds, which decides on every   *)
(* event whether its key is accepted.  A snapshot is built by Reload from   *)
(* several reads, none in a transaction with another; requests that write  *)
(* reload it themselves, requests that only look poll config_version once  *)
(* an interval, and another process (the CLI) may write at any time.         *)
(*                                                                         *)
(* A project has one key here.  The event and attribute rules, read        *)
(* between the keys and the version like the keys, are left out.           *)
(***************************************************************************)
EXTENDS Naturals, FiniteSets

CONSTANTS
    Projects,
    Threads,    \* the requests of this process
    NoThread,
    MaxWrites,  \* bound: writes to the registry
    MaxFailures \* bound: reads that fail, and polls whose caller goes away

ASSUME RegistryAssumption ==
    /\ NoThread \notin Threads
    /\ MaxWrites \in Nat /\ MaxFailures \in Nat

VARIABLES
    archived,   \* the database: archived projects ...
    disabled,   \* ... projects whose key is disabled ...
    dbVersion,  \* ... and meta.config_version
    granted,    \* the snapshot: projects whose key it accepts
    snapVersion, \* the version held with it
    pollDue,    \* whether the last poll is an interval ago (lastCheck)
    lastPoll,   \* the thread whose poll set lastCheck last
    step,       \* step[t]: what thread t does next
    writesTo,   \* writesTo[t]: the projects of t's write; {} for a poll
    unarchived, \* unarchived[t]: the projects not archived, as t read them
    keyed,      \* keyed[t]: the projects with an active key, as t read them
    gotVersion, \* gotVersion[t]: the version t read
    missed,     \* missed[t]: projects written since t's reload began
    unseen,     \* projects written since the snapshot's reload began
    failures    \* bound: the failures so far

dbVars     == <<archived, disabled, dbVersion>>
snapVars   == <<granted, snapVersion, unseen>>
pollVars   == <<pollDue, lastPoll>>
threadVars == <<step, writesTo, unarchived, keyed, gotVersion, missed>>
registryVars == <<dbVars, snapVars, pollVars, threadVars, failures>>

\* Never a config_version, so a poll that compares against it reloads.
Unknown == MaxWrites + 1

Steps ==
    {"idle", "poll", "compare", "projects", "keys", "version", "publish", "stamp"}
Reloading(t) == step[t] \in {"keys", "version", "publish"}

\* What the database accepts now.
Allowed == Projects \ (archived \union disabled)

NoFailure == failures' = failures
Failure   == failures < MaxFailures /\ failures' = failures + 1

RequestGoes(t, to) == step' = [step EXCEPT ![t] = to]

-----------------------------------------------------------------------------
(* Writes: one transaction each, that also bumps config_version.           *)

Commits(p) ==
    /\ dbVersion < MaxWrites
    /\ dbVersion' = dbVersion + 1
    /\ \/ /\ archived' = IF p \in archived THEN archived \ {p} ELSE archived \union {p}
          /\ disabled' = disabled
       \/ /\ disabled' = IF p \in disabled THEN disabled \ {p} ELSE disabled \union {p}
          /\ archived' = archived
    /\ missed' = [t \in Threads |-> IF Reloading(t) THEN missed[t] \union {p} ELSE missed[t]]

\* An operation commits its write, and goes on to reload (afterWrite).
OpWrites(t, p) ==
    /\ NoFailure
    /\ step[t] = "idle"
    /\ Commits(p)
    /\ RequestGoes(t, "projects")
    /\ writesTo' = [writesTo EXCEPT ![t] = {p}]
    /\ UNCHANGED <<snapVars, pollVars, unarchived, keyed, gotVersion>>

\* The daily pass reloads once it has purged projects, and before it removes
\* the files of projects that are gone.
DailyReload(t) ==
    /\ NoFailure
    /\ step[t] = "idle"
    /\ RequestGoes(t, "projects")
    /\ UNCHANGED <<dbVars, snapVars, pollVars, writesTo, unarchived, keyed, gotVersion, missed>>

\* Another process writes.
OutsideWrites(p) ==
    /\ NoFailure
    /\ Commits(p)
    /\ unseen' = unseen \union {p}
    /\ UNCHANGED <<granted, snapVersion, pollVars, step, writesTo, unarchived, keyed, gotVersion>>

-----------------------------------------------------------------------------
(* Reload: three reads of the database, then the snapshot they make.       *)

ReadProjects(t) ==
    /\ NoFailure
    /\ step[t] = "projects"
    /\ unarchived' = [unarchived EXCEPT ![t] = Projects \ archived]
    /\ missed' = [missed EXCEPT ![t] = {}]
    /\ RequestGoes(t, "keys")
    /\ UNCHANGED <<dbVars, snapVars, pollVars, writesTo, keyed, gotVersion>>

ReadKeys(t) ==
    /\ NoFailure
    /\ step[t] = "keys"
    /\ keyed' = [keyed EXCEPT ![t] = Projects \ disabled]
    /\ RequestGoes(t, "version")
    /\ UNCHANGED <<dbVars, snapVars, pollVars, writesTo, unarchived, gotVersion, missed>>

ReadVersion(t) ==
    /\ NoFailure
    /\ step[t] = "version"
    /\ gotVersion' = [gotVersion EXCEPT ![t] = dbVersion]
    /\ RequestGoes(t, "publish")
    /\ UNCHANGED <<dbVars, snapVars, pollVars, writesTo, unarchived, keyed, missed>>

\* What a thread read is of no more use once it is done.
Forget(t, to) ==
    /\ RequestGoes(t, to)
    /\ writesTo'   = [writesTo EXCEPT ![t] = {}]
    /\ unarchived' = [unarchived EXCEPT ![t] = {}]
    /\ keyed'      = [keyed EXCEPT ![t] = {}]
    /\ gotVersion' = [gotVersion EXCEPT ![t] = 0]
    /\ missed'     = [missed EXCEPT ![t] = {}]

\* The snapshot and its version are stored as a pair, under the mutex.
Publish(t) ==
    /\ NoFailure
    /\ step[t] = "publish"
    /\ granted' = unarchived[t] \intersect keyed[t]
    /\ snapVersion' = gotVersion[t]
    /\ unseen' = missed[t]
    /\ Forget(t, "stamp")
    /\ UNCHANGED <<dbVars, pollVars>>

\* The mutex is free again when the reload puts the next poll off: also one
\* a withhold has just asked for.
Stamps(t) ==
    /\ NoFailure
    /\ step[t] = "stamp"
    /\ pollDue' = FALSE /\ lastPoll' = NoThread
    /\ RequestGoes(t, "idle")
    /\ UNCHANGED <<dbVars, snapVars, writesTo, unarchived, keyed, gotVersion, missed>>

\* Mutants of Withhold: the keys stay, or the version held with them does.
MutWithholdKeys(ids) ==
    /\ granted' = granted
    /\ snapVersion' = Unknown
    /\ pollDue' = TRUE /\ lastPoll' = NoThread

MutWithholdVersion(ids) ==
    /\ granted' = granted \ ids
    /\ snapVersion' = snapVersion
    /\ pollDue' = TRUE /\ lastPoll' = NoThread

\* A read fails.  A write's projects are withheld and the version is
\* forgotten; any other reload leaves the snapshot as it is.
Withhold(ids) ==
    /\ granted' = granted \ ids
    /\ snapVersion' = Unknown
    /\ pollDue' = TRUE /\ lastPoll' = NoThread

ReloadFails(t) ==
    /\ Failure
    /\ step[t] \in {"projects", "keys", "version"}
    /\ IF writesTo[t] # {} THEN Withhold(writesTo[t])
                          ELSE UNCHANGED <<granted, snapVersion, pollVars>>
    /\ Forget(t, "idle")
    /\ UNCHANGED <<dbVars, unseen>>

-----------------------------------------------------------------------------
(* Snapshot: the poll of config_version, by whichever request is first.    *)

PollTaken(t) ==
    /\ NoFailure
    /\ step[t] = "idle" /\ pollDue
    /\ pollDue' = FALSE /\ lastPoll' = t
    /\ RequestGoes(t, "poll")
    /\ UNCHANGED <<dbVars, snapVars, writesTo, unarchived, keyed, gotVersion, missed>>

PollReads(t) ==
    /\ NoFailure
    /\ step[t] = "poll"
    /\ gotVersion' = [gotVersion EXCEPT ![t] = dbVersion]
    /\ RequestGoes(t, "compare")
    /\ UNCHANGED <<dbVars, snapVars, pollVars, writesTo, unarchived, keyed, missed>>

PollFails(t) ==
    /\ Failure
    /\ step[t] = "poll"
    /\ Forget(t, "idle")
    /\ UNCHANGED <<dbVars, snapVars, pollVars>>

\* The caller went away: the next one polls again, unless lastCheck moved.
PollCancelled(t) ==
    /\ Failure
    /\ step[t] = "poll"
    /\ pollDue' = (pollDue \/ lastPoll = t)
    /\ Forget(t, "idle")
    /\ UNCHANGED <<dbVars, snapVars, lastPoll>>

\* Mutant of PollCompares: a forgotten version counts as up to date.
MutPollCompares(t) ==
    /\ NoFailure
    /\ step[t] = "compare"
    /\ IF snapVersion \in {gotVersion[t], Unknown}
       THEN Forget(t, "idle")
       ELSE /\ RequestGoes(t, "projects")
            /\ gotVersion' = [gotVersion EXCEPT ![t] = 0]
            /\ UNCHANGED <<writesTo, unarchived, keyed, missed>>
    /\ UNCHANGED <<dbVars, snapVars, pollVars>>

PollCompares(t) ==
    /\ NoFailure
    /\ step[t] = "compare"
    /\ IF gotVersion[t] = snapVersion
       THEN Forget(t, "idle")
       ELSE /\ RequestGoes(t, "projects")
            /\ gotVersion' = [gotVersion EXCEPT ![t] = 0]
            /\ UNCHANGED <<writesTo, unarchived, keyed, missed>>
    /\ UNCHANGED <<dbVars, snapVars, pollVars>>

\* pollInterval passes.
IntervalPasses ==
    /\ NoFailure
    /\ ~pollDue /\ pollDue' = TRUE
    /\ UNCHANGED <<dbVars, snapVars, lastPoll, threadVars>>

-----------------------------------------------------------------------------

\* At boot the registry is loaded once, before any request is served.
RegistryInit ==
    /\ archived = {} /\ disabled = {} /\ dbVersion = 0
    /\ granted = Projects /\ snapVersion = 0 /\ unseen = {}
    /\ pollDue = FALSE /\ lastPoll = NoThread
    /\ step = [t \in Threads |-> "idle"]
    /\ writesTo = [t \in Threads |-> {}]
    /\ unarchived = [t \in Threads |-> {}] /\ keyed = [t \in Threads |-> {}]
    /\ gotVersion = [t \in Threads |-> 0] /\ missed = [t \in Threads |-> {}]
    /\ failures = 0

RequestGoesOn(t) ==
    \/ ReadProjects(t) \/ ReadKeys(t) \/ ReadVersion(t) \/ Publish(t) \/ Stamps(t)
    \/ PollReads(t) \/ PollCompares(t)

RequestFails(t) == ReloadFails(t) \/ PollFails(t) \/ PollCancelled(t)

RegistryNext ==
    \/ \E t \in Threads : RequestGoesOn(t) \/ RequestFails(t) \/ PollTaken(t) \/ DailyReload(t)
    \/ \E t \in Threads : \E p \in Projects : OpWrites(t, p)
    \/ \E p \in Projects : OutsideWrites(p)
    \/ IntervalPasses

RegistrySpec == RegistryInit /\ [][RegistryNext]_registryVars

-----------------------------------------------------------------------------

RegistryTypeOK ==
    /\ archived \subseteq Projects /\ disabled \subseteq Projects
    /\ dbVersion \in 0..MaxWrites /\ snapVersion \in 0..Unknown
    /\ granted \subseteq Projects /\ unseen \subseteq Projects
    /\ pollDue \in BOOLEAN /\ lastPoll \in Threads \union {NoThread}
    /\ step \in [Threads -> Steps]
    /\ \A f \in {writesTo, unarchived, keyed, missed} : f \in [Threads -> SUBSET Projects]
    /\ gotVersion \in [Threads -> 0..MaxWrites] /\ failures \in 0..MaxFailures
    /\ \A t \in Threads : step[t] \in {"idle", "poll", "compare", "stamp"} =>
         writesTo[t] = {} /\ unarchived[t] = {} /\ keyed[t] = {} /\ missed[t] = {}

\* A key revoked in this process is refused once its operation returns,
\* whether the reload after it succeeded or not; but a reload that was
\* already under way may bring it back.
FailClosed ==
    granted \ Allowed \subseteq unseen \union UNION { writesTo[t] : t \in Threads }

\* A snapshot held with the database's version is the database's content,
\* but for what was written between the reads it was made of.
CurrentIfVersionIs ==
    snapVersion = dbVersion =>
        (granted \ Allowed) \union (Allowed \ granted) \subseteq unseen

\* However reloads race, fail and withhold, the polls bring the held version
\* to the database's once writes stop.
VersionCatchesUp == <>[](snapVersion = dbVersion)

\* When nothing is under way and the held version is the database's, so that
\* no poll will reload, no revoked key is accepted.
SnapshotAgrees ==
    snapVersion = dbVersion /\ (\A t \in Threads : step[t] = "idle") => granted \subseteq Allowed

=============================================================================
