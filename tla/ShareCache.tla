------------------------------- MODULE ShareCache ------------------------------
(***************************************************************************)
(* The cache of widget shares in front of the public /share/ routes        *)
(* (internal/reporting/share_cache.go): a share's row is read from the     *)
(* store once for all who ask meanwhile, kept for a while, and dropped by  *)
(* each write of this process.                                             *)
(*                                                                         *)
(* One share.  Its row is a version, the number of times it was written;   *)
(* a deleted row stays so.  A read of the store falls in one unit of the   *)
(* clock, however long it waits for the connection.                        *)
(***************************************************************************)
EXTENDS Integers

CONSTANTS
    Visitors,       \* requests of the public routes
    RowAge,         \* shareRowAge
    MissAge,        \* shareMissAge
    LastMoment,     \* bound: the clock stops here
    MaxVersion      \* bound: writes of the row, and of other shares

ASSUME ShareCacheAssumption ==
    /\ RowAge \in Nat \ {0} /\ MissAge \in Nat
    /\ LastMoment \in Nat /\ MaxVersion \in Nat \ {0}

VARIABLES
    moment,     \* the clock
    version,    \* the row in the store
    deleted,    \* whether that version is its deletion
    entry,      \* the cached row; at 0: none
    gen,        \* c.gen
    writing,    \* whether a write of this process has yet to invalidate
    flights,    \* flights[g]: the load under way for generation g, its leader
    visit,      \* visit[v]: the step of a request
    seenGen,    \* seenGen[v]: the generation it missed in
    since,      \* since[v]: the time it looked
    readRow,    \* readRow[v]: the version its load has read, 0 before
    got,        \* history: got[v]: the version it was answered with, 0 none
    floor,      \* history: the version whose write had returned when it began
    settled,    \* history: the last version whose write here has returned
    replaced    \* history: replaced[n]: when version n was, 0 if not

storeVars == <<moment, version, deleted, replaced>>
visitVars == <<visit, seenGen, since, readRow, got, floor>>
shareVars == <<storeVars, entry, gen, writing, flights, visitVars, settled>>

NoEntry == [version |-> 0, missing |-> FALSE, at |-> 0]
Nobody  == "nobody"
Gens    == 0..MaxVersion

Age(e) == IF e.missing THEN MissAge ELSE RowAge

Fresh(e) == e.at # 0 /\ moment - e.at < Age(e)

\* A request finds the row in the cache ...
Hits(v) ==
    /\ visit[v] = "none" /\ Fresh(entry)
    /\ visit' = [visit EXCEPT ![v] = "answered"]
    /\ got' = [got EXCEPT ![v] = entry.version]
    /\ floor' = [floor EXCEPT ![v] = settled]
    /\ since' = [since EXCEPT ![v] = moment]
    /\ UNCHANGED <<storeVars, entry, gen, writing, flights, seenGen, readRow, settled>>

\* ... or takes down the generation it is not there in ...
Misses(v) ==
    /\ visit[v] = "none" /\ ~Fresh(entry)
    /\ visit' = [visit EXCEPT ![v] = "missed"]
    /\ seenGen' = [seenGen EXCEPT ![v] = gen]
    /\ floor' = [floor EXCEPT ![v] = settled]
    /\ since' = [since EXCEPT ![v] = moment]
    /\ UNCHANGED <<storeVars, entry, gen, writing, flights, readRow, got, settled>>

\* Mutant of FlightOf: one flight for all generations.
MutFlightOf(v) == 0

\* The key of the load it shares.
FlightOf(v) == seenGen[v]

\* ... and starts the load of that generation, or joins it.
Leads(v) ==
    /\ visit[v] = "missed" /\ flights[FlightOf(v)] = Nobody
    /\ visit' = [visit EXCEPT ![v] = "loads"]
    /\ flights' = [flights EXCEPT ![FlightOf(v)] = v]
    /\ UNCHANGED <<storeVars, entry, gen, writing, seenGen, since, readRow, got, floor, settled>>

Joins(v) ==
    /\ visit[v] = "missed" /\ flights[FlightOf(v)] # Nobody
    /\ visit' = [visit EXCEPT ![v] = "joined"]
    /\ UNCHANGED <<storeVars, entry, gen, writing, flights, seenGen, since, readRow, got,
                   floor, settled>>

\* The load reads the store.
ReadsRow(v) ==
    /\ visit[v] = "loads" /\ readRow[v] = 0
    /\ readRow' = [readRow EXCEPT ![v] = version]
    /\ UNCHANGED <<storeVars, entry, gen, writing, flights, visit, seenGen, since, got,
                   floor, settled>>

Joined(v) == { w \in Visitors : visit[w] = "joined" /\ FlightOf(w) = FlightOf(v) }

EndsFlight(v) == flights' = [flights EXCEPT ![FlightOf(v)] = Nobody]

AnswersAll(v, n) ==
    /\ visit' = [w \in Visitors |-> IF w \in Joined(v) \cup {v} THEN "answered" ELSE visit[w]]
    /\ got' = [w \in Visitors |-> IF w \in Joined(v) \cup {v} THEN n ELSE got[w]]
    /\ readRow' = [readRow EXCEPT ![v] = 0]

\* What it read is kept, from the time its leader looked, unless a write
\* invalidated the cache meanwhile, and answers all who joined.
Keeps(v) ==
    /\ visit[v] = "loads" /\ readRow[v] # 0
    /\ entry' = IF gen # seenGen[v] THEN entry
                ELSE [version |-> readRow[v], missing |-> deleted /\ readRow[v] = version,
                      at |-> since[v]]
    /\ AnswersAll(v, readRow[v])
    /\ EndsFlight(v)
    /\ UNCHANGED <<storeVars, gen, writing, seenGen, since, floor, settled>>

\* A load that fails, or whose leader's client goes away, keeps nothing and
\* fails all who joined.
LoadFails(v) ==
    /\ visit[v] = "loads"
    /\ AnswersAll(v, 0)
    /\ EndsFlight(v)
    /\ UNCHANGED <<storeVars, entry, gen, writing, seenGen, since, floor, settled>>

\* A client asks again.
AsksAgain(v) ==
    /\ visit[v] = "answered"
    /\ visit' = [visit EXCEPT ![v] = "none"]
    /\ got' = [got EXCEPT ![v] = 0]
    /\ seenGen' = [seenGen EXCEPT ![v] = 0]
    /\ since' = [since EXCEPT ![v] = 0]
    /\ floor' = [floor EXCEPT ![v] = 0]
    /\ UNCHANGED <<storeVars, entry, gen, writing, flights, readRow, settled>>

RowChanges ==
    /\ ~deleted /\ version < MaxVersion
    /\ version' = version + 1
    /\ replaced' = [replaced EXCEPT ![version] = moment]
    /\ UNCHANGED <<moment, entry, gen, flights, visitVars, settled>>

\* A write of this process commits, and then invalidates, even when it failed.
WritesHere == ~writing /\ gen < MaxVersion /\ writing' = TRUE /\ RowChanges /\ UNCHANGED deleted

Invalidates ==
    /\ writing /\ writing' = FALSE /\ gen < MaxVersion
    /\ gen' = gen + 1 /\ entry' = NoEntry
    /\ settled' = version
    /\ UNCHANGED <<storeVars, flights, visitVars>>

\* The end of a write of another share, which has the same generation.
InvalidatesOther ==
    /\ gen < MaxVersion /\ gen' = gen + 1
    /\ UNCHANGED <<storeVars, entry, writing, flights, visitVars, settled>>

\* Another process writes the row, or it is deleted with its project.
WritesElsewhere ==
    /\ RowChanges
    /\ deleted' \in BOOLEAN
    /\ UNCHANGED writing

MomentPasses ==
    /\ moment < LastMoment /\ moment' = moment + 1
    /\ \A v \in Visitors : readRow[v] = 0
    /\ UNCHANGED <<version, deleted, replaced, entry, gen, writing, flights, visitVars, settled>>

ShareInit ==
    /\ moment = 1 /\ version = 1 /\ deleted = FALSE
    /\ entry = NoEntry /\ gen = 0 /\ writing = FALSE
    /\ flights = [g \in Gens |-> Nobody]
    /\ visit = [v \in Visitors |-> "none"]
    /\ seenGen = [v \in Visitors |-> 0] /\ since = [v \in Visitors |-> 0]
    /\ readRow = [v \in Visitors |-> 0] /\ got = [v \in Visitors |-> 0]
    /\ floor = [v \in Visitors |-> 0]
    /\ settled = 0 /\ replaced = [n \in 1..MaxVersion |-> 0]

ShareNext ==
    \/ \E v \in Visitors :
         \/ Hits(v) \/ Misses(v) \/ Leads(v) \/ Joins(v) \/ ReadsRow(v) \/ Keeps(v)
         \/ LoadFails(v) \/ AsksAgain(v)
    \/ WritesHere \/ InvalidatesOther \/ Invalidates \/ WritesElsewhere
    \/ MomentPasses

ShareSpec == ShareInit /\ [][ShareNext]_shareVars

-----------------------------------------------------------------------------

ShareTypeOK ==
    /\ moment \in 0..LastMoment /\ version \in 1..MaxVersion /\ settled \in 0..MaxVersion
    /\ deleted \in BOOLEAN /\ writing \in BOOLEAN /\ gen \in Gens
    /\ entry \in [version : 0..MaxVersion, missing : BOOLEAN, at : 0..LastMoment]
    /\ flights \in [Gens -> Visitors \cup {Nobody}]
    /\ visit \in [Visitors -> {"none", "missed", "loads", "joined", "answered"}]
    /\ seenGen \in [Visitors -> Gens] /\ since \in [Visitors -> 0..LastMoment]
    /\ readRow \in [Visitors -> 0..MaxVersion] /\ got \in [Visitors -> 0..MaxVersion]
    /\ floor \in [Visitors -> 0..MaxVersion]
    /\ replaced \in [1..MaxVersion -> 0..LastMoment]

\* Once an archive, a restore or an update of a share has returned, no request
\* that comes after it is answered with an older row, though a load begun
\* before it may end after it; and a row written elsewhere is out of date for
\* less than shareRowAge: what a request is answered with was in the store at
\* most that long before it came.
RowIsCurrent ==
    \A v \in Visitors : got[v] # 0 =>
        /\ got[v] >= floor[v]
        /\ replaced[got[v]] # 0 => replaced[got[v]] > since[v] - RowAge

=============================================================================
