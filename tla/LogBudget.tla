-------------------------------- MODULE LogBudget ------------------------------
(***************************************************************************)
(* The bytes of the cache of decoded open logs (native/logcache.go): what  *)
(* its entries take, what the decodes under way have reserved beside them, *)
(* and the bound on both.  Concurrent queries decode different logs, grow  *)
(* entries, make room by dropping the least recently used, and store.      *)
(*                                                                         *)
(* An entry takes one byte for each line of its log here.                  *)
(***************************************************************************)
EXTENDS SequencesExt, Selections

CONSTANTS
    Paths,          \* the logs' names
    Readers,        \* concurrent queries
    MaxBytes,       \* the cache's bound
    Chunk,          \* reserveChunk
    MaxSize,        \* bound: lines of a log
    MaxRotations    \* bound: logs rotated

ASSUME LogBudgetAssumption ==
    /\ IsFiniteSet(Paths) /\ IsFiniteSet(Readers)
    /\ MaxBytes \in Nat \ {0} /\ Chunk \in Nat \ {0}
    /\ MaxSize \in Nat /\ MaxRotations \in Nat

VARIABLES
    log,        \* log[p]: the file under the name: its identity and size
    held,       \* held[p]: the entry: the file's identity, the bytes charged
    bytes, inflight, big,   \* of the cache
    recent,     \* the paths of the entries, least recently used first
    reader,     \* reader[q]: its step, path, file, reservation and entry
    excess      \* history: by how much the last entry stored passed the bound

budgetVars == <<log, held, bytes, inflight, big, recent, reader, excess>>

NoLogEntry == [file |-> 0, charged |-> 0]
AtRest     == [step |-> "idle", path |-> "none", file |-> 0, size |-> 0,
               at |-> 0, base |-> 0, granted |-> 0]

Busy(p) == \E q \in Readers : reader[q].path = p

\* The bytes of the entries of S, one by one, and those the decodes reserve.
CachedBytes(S) == UNION { {p} \X (1..held[p].charged) : p \in S }
Reserved   == UNION { {q} \X ((reader[q].base + 1)..reader[q].granted) : q \in Readers }

Charged(S) == Cardinality(CachedBytes(S))

Forgets(S) ==
    /\ held' = [p \in Paths |-> IF p \in S THEN NoLogEntry ELSE held[p]]
    /\ bytes' = bytes - Charged(S)
    /\ recent' = Only(recent, Paths \ S)

\* room drops the least recently used entries, but path's and those a decode
\* holds, as long as n more bytes do not fit: the first k of these.
Droppable(path) == Only(recent, { p \in Paths : p # path /\ ~Busy(p) })
Oldest(k, path) == ToSet(SubSeq(Droppable(path), 1, k))

Fit(n, path, total) ==
    { k \in 0..Len(Droppable(path)) : total - Charged(Oldest(k, path)) + n <= MaxBytes }

Drops(n, path, total) ==
    LET ks == Fit(n, path, total) IN
    IF ks = {} THEN Oldest(Len(Droppable(path)), path) ELSE Oldest(Min(ks), path)

Grows(p) ==
    /\ log[p].size < MaxSize
    /\ log' = [log EXCEPT ![p].size = @ + 1]
    /\ UNCHANGED <<held, bytes, inflight, big, recent, reader, excess>>

Rotates(p) ==
    /\ log[p].file < MaxRotations
    /\ log' = [log EXCEPT ![p] = [file |-> @.file + 1, size |-> 1]]
    /\ UNCHANGED <<held, bytes, inflight, big, recent, reader, excess>>

\* A query holds the log's flight, sizes the file, takes the entry up if it is
\* the file's, and drops another's.
Takes(q, p) ==
    /\ reader[q].step = "idle" /\ ~Busy(p)
    /\ <<p, log[p].file>> \notin big
    /\ LET mine == held[p].file = log[p].file IN
       /\ reader' = [reader EXCEPT ![q] =
             [step |-> "decode", path |-> p, file |-> log[p].file, size |-> log[p].size,
              at |-> IF mine THEN held[p].charged ELSE 0,
              base |-> IF mine THEN held[p].charged ELSE 0,
              granted |-> IF mine THEN held[p].charged ELSE 0]]
       /\ Forgets(IF mine THEN {} ELSE {p})
    /\ UNCHANGED <<log, inflight, big, excess>>

\* Mutant of Releases: what the cache counts of the entry too.
MutReleases(q) == inflight' = inflight - reader[q].granted

Releases(q) == inflight' = inflight - (reader[q].granted - reader[q].base)

\* Mutant of HasRoom: the decodes under way are not counted.
MutHasRoom(q, n) == Fit(n, reader[q].path, bytes) # {}

HasRoom(q, n) == Fit(n, reader[q].path, bytes + inflight) # {}

RoomFor(q, n) == Drops(n, reader[q].path, bytes + inflight)

\* A line decoded: within what is granted, or a chunk more of it, or a byte.
Decodes(q) ==
    LET r == reader[q] IN
    /\ r.step = "decode" /\ r.at < r.size /\ r.at < MaxBytes
    /\ \E n \in {0, 1, Chunk} :
         /\ (n = 0) = (r.at < r.granted)
         /\ n > 0 => HasRoom(q, n)
         /\ n = 1 => ~HasRoom(q, Chunk) \/ Chunk = 1
         /\ Forgets(IF n = 0 THEN {} ELSE RoomFor(q, Chunk))
         /\ inflight' = inflight + n
         /\ reader' = [reader EXCEPT ![q].at = @ + 1, ![q].granted = @ + n]
    /\ UNCHANGED <<log, big, excess>>

\* errTooBig, errNoRoom: the entry is dropped, and the log read as it is.
GivesUp(q) ==
    LET r == reader[q]  tooBig == r.at >= MaxBytes IN
    /\ r.step = "decode" /\ r.at < r.size
    /\ tooBig \/ (r.at = r.granted /\ ~HasRoom(q, 1))
    /\ Releases(q)
    /\ Forgets({r.path} \cup IF tooBig THEN {} ELSE RoomFor(q, 1))
    /\ big' = IF tooBig THEN big \cup {<<r.path, r.file>>} ELSE big
    /\ reader' = [reader EXCEPT ![q] = AtRest]
    /\ UNCHANGED <<log, excess>>

\* The decode has ended: its reservation is given back ...
DecodeEnds(q) ==
    LET r == reader[q] IN
    /\ r.step = "decode" /\ r.at = r.size
    /\ Releases(q)
    /\ reader' = [reader EXCEPT ![q].step = IF r.at = r.base THEN "touch" ELSE "prune",
                                ![q].granted = r.base]
    /\ UNCHANGED <<log, held, bytes, big, recent, excess>>

Touches(q) ==
    LET r == reader[q] IN
    /\ r.step = "touch"
    /\ recent' = IF held[r.path].file = r.file THEN Append(Only(recent, Paths \ {r.path}), r.path) ELSE recent
    /\ reader' = [reader EXCEPT ![q] = AtRest]
    /\ UNCHANGED <<log, held, bytes, inflight, big, excess>>

Stale == { p \in Paths : held[p] # NoLogEntry /\ held[p].file # log[p].file }
BigNow == { b \in big : b[2] = log[b[1]].file }

\* ... and before what it made is stored, the entries of logs no longer there
\* are dropped ...
Prunes(q) ==
    LET r == reader[q] IN
    /\ r.step = "prune"
    /\ Forgets(Stale \ {r.path})
    /\ big' = BigNow \cup { b \in big : b[1] = r.path }
    /\ reader' = [reader EXCEPT ![q].step = "store"]
    /\ UNCHANGED <<log, inflight, excess>>

\* ... and others for room: what room there is.
Stores(q) ==
    LET r    == reader[q]
        gone == {r.path} \cup Drops(r.at, r.path, bytes + inflight - held[r.path].charged) IN
    /\ r.step = "store"
    /\ held' = [p \in Paths |-> IF p = r.path THEN [file |-> r.file, charged |-> r.at]
                                ELSE IF p \in gone THEN NoLogEntry ELSE held[p]]
    /\ bytes' = bytes - Charged(gone) + r.at
    /\ excess' = Max({0, bytes' + inflight - MaxBytes})
    /\ recent' = Append(Only(recent, Paths \ gone), r.path)
    /\ big' = { b \in big : b[1] # r.path }
    /\ reader' = [reader EXCEPT ![q] = AtRest]
    /\ UNCHANGED <<log, inflight>>

\* The sweep drops entries unused for long, and those of logs no longer there.
SweepsCache ==
    \E S \in SUBSET { p \in Paths : held[p] # NoLogEntry /\ ~Busy(p) } :
      /\ Stale \cup S # {}
      /\ Forgets(Stale \cup S)
      /\ big' = BigNow
      /\ UNCHANGED <<log, inflight, reader, excess>>

BudgetInit ==
    /\ log = [p \in Paths |-> [file |-> 1, size |-> 1]]
    /\ held = [p \in Paths |-> NoLogEntry]
    /\ bytes = 0 /\ inflight = 0 /\ big = {} /\ recent = <<>> /\ excess = 0
    /\ reader = [q \in Readers |-> AtRest]

BudgetNext ==
    \/ \E p \in Paths : Grows(p) \/ Rotates(p)
    \/ \E q \in Readers :
         \/ \E p \in Paths : Takes(q, p)
         \/ Decodes(q) \/ GivesUp(q) \/ DecodeEnds(q) \/ Touches(q) \/ Prunes(q) \/ Stores(q)
    \/ SweepsCache

BudgetSpec == BudgetInit /\ [][BudgetNext]_budgetVars

-----------------------------------------------------------------------------

BudgetTypeOK ==
    /\ bytes \in Nat /\ inflight \in Nat /\ excess \in Nat
    /\ big \subseteq Paths \X (1..MaxRotations)
    /\ \A p \in Paths : held[p].file \in 0..MaxRotations /\ held[p].charged \in 0..MaxBytes
    /\ ToSet(recent) = { p \in Paths : held[p] # NoLogEntry } /\ Len(recent) = Cardinality(ToSet(recent))
    /\ \A q \in Readers : reader[q].step \in {"idle", "decode", "touch", "prune", "store"}

\* The counters are what the entries and the reservations add up to, whatever
\* is dropped, rotated or given up meanwhile: nothing leaks from the budget.
\* And a decode takes no byte the bound does not have, whatever the others
\* hold; the one that may pass the bound is an entry stored when its room has
\* gone to another decode meanwhile, and no decode adds to what it passes it by.
BudgetHolds ==
    /\ bytes = Charged(Paths)
    /\ inflight = Cardinality(Reserved)
    /\ bytes + inflight <= MaxBytes + excess

=============================================================================
