---------------------------- MODULE Queries_proofs -----------------------------
(***************************************************************************)
(* What a native query reads and answers, for any log, any number of lots, *)
(* requests and askers: the cache of the open log, the derived files, the  *)
(* scans that several queries share, and the queue that hands on what they *)
(* answer.                                                                 *)
(***************************************************************************)
EXTENDS LogBudget, LogCache, DerivedFiles, SharedScan, AnswerQueue, Selections_proofs,
        FiniteSetTheorems

-----------------------------------------------------------------------------
(* The budget of the log cache.                                            *)

Reading == [step : {"idle", "decode", "touch", "prune", "store"}, path : Paths \cup {"none"},
            file : Nat, size : Nat, at : 0..MaxBytes, base : Nat,
            granted : 0..(MaxBytes + Chunk)]

\* A reader has a path unless it rests, and a reservation only as it decodes.
Sound(r) == /\ r.base <= r.granted
            /\ r.step # "idle" => r.path \in Paths
            /\ r.step # "decode" => r.granted = r.base

BudgetTypes ==
    /\ log \in [Paths -> [file : Nat, size : Nat]]
    /\ held \in [Paths -> [file : Nat, charged : 0..MaxBytes]]
    /\ recent \in Seq(Paths)
    /\ reader \in [Readers -> Reading]
    /\ excess \in Nat
    /\ \A q \in Readers : Sound(reader[q])

BudgetInv == BudgetTypes /\ BudgetHolds

\* The counters are the bytes of the entries and of the reservations, and no
\* decode takes them past the bound.
THEOREM CountersAddUp == BudgetSpec => []BudgetHolds
<1>. USE LogBudgetAssumption
<1>0. ASSUME NEW A, NEW B, IsFiniteSet(A), IsFiniteSet(B), A \cap B = {}
      PROVE  /\ Cardinality(A \cup B) = Cardinality(A) + Cardinality(B)
             /\ Cardinality(A) \in Nat /\ Cardinality(B) \in Nat
    <2>1. Cardinality(A \cup B) = Cardinality(A) + Cardinality(B) - Cardinality(A \cap B)
        BY <1>0, FS_Union
    <2>2. Cardinality(A \cap B) = 0
        BY <1>0, FS_EmptySet
    <2>3. Cardinality(A) \in Nat /\ Cardinality(B) \in Nat
        BY <1>0, FS_CardinalityType
    <2>. QED
        BY <2>1, <2>2, <2>3
\* The sums behind the counters.
<1>1. ASSUME BudgetTypes, NEW S \in SUBSET Paths
      PROVE  IsFiniteSet(CachedBytes(S)) /\ Charged(S) \in Nat
    <2>1. CachedBytes(S) \subseteq Paths \X (1..MaxBytes)
        <3>1. \A p \in S : held[p].charged \in 0..MaxBytes
            BY <1>1 DEF BudgetTypes
        <3>2. \A p \in S : {p} \X (1..held[p].charged) \subseteq Paths \X (1..MaxBytes)
            BY <3>1
        <3>. QED
            BY <3>2 DEF CachedBytes
    <2>2. IsFiniteSet(Paths \X (1..MaxBytes))
        <3>1. IsFiniteSet(1..MaxBytes)
            BY FS_Interval
        <3>. QED
            BY <3>1, FS_Product
    <2>. QED
        BY <2>1, <2>2, FS_Subset, FS_CardinalityType DEF Charged
<1>2. ASSUME BudgetTypes, NEW T \in SUBSET Paths, NEW S \in SUBSET T
      PROVE  Charged(T) = Charged(T \ S) + Charged(S)
    <2>1. CachedBytes(T) = CachedBytes(T \ S) \cup CachedBytes(S)
        BY DEF CachedBytes
    <2>2. CachedBytes(T \ S) \cap CachedBytes(S) = {}
        BY DEF CachedBytes
    <2>3. T \ S \in SUBSET Paths /\ S \in SUBSET Paths
        OBVIOUS
    <2>4. IsFiniteSet(CachedBytes(T \ S)) /\ IsFiniteSet(CachedBytes(S))
             /\ Charged(T \ S) \in Nat /\ Charged(S) \in Nat
        BY <1>1, <1>2, <2>3
    <2>. QED
        BY <1>0, <2>1, <2>2, <2>4 DEF Charged
<1>3. ASSUME BudgetTypes, NEW T \in SUBSET Paths, NEW S \in SUBSET T PROVE Charged(S) <= Charged(T)
    <2>1. T \ S \in SUBSET Paths /\ S \in SUBSET Paths
        OBVIOUS
    <2>2. Charged(T \ S) \in Nat /\ Charged(S) \in Nat
        BY <1>1, <1>3, <2>1
    <2>. QED
        BY <1>2, <1>3, <2>2
\* What Forgets does to them.
<1>4. ASSUME BudgetInv, NEW S \in SUBSET Paths, Forgets(S)
      PROVE  /\ held' \in [Paths -> [file : Nat, charged : 0..MaxBytes]] /\ recent' \in Seq(Paths)
             /\ bytes' = Charged(Paths)' /\ bytes' = bytes - Charged(S)
             /\ bytes \in Nat /\ bytes' \in Nat /\ bytes' <= bytes
    <2>1. held' = [p \in Paths |-> IF p \in S THEN NoLogEntry ELSE held[p]]
          /\ bytes' = bytes - Charged(S) /\ recent' = Only(recent, Paths \ S)
        BY <1>4 DEF Forgets
    <2>2. held' \in [Paths -> [file : Nat, charged : 0..MaxBytes]]
        BY <1>4, <2>1 DEF BudgetInv, BudgetTypes, NoLogEntry
    <2>3. recent' \in Seq(Paths)
        BY <1>4, <2>1, OnlyFacts DEF BudgetInv, BudgetTypes
    <2>4. CachedBytes(Paths)' = CachedBytes(Paths \ S)
        <3>1. \A p \in S : 1..held'[p].charged = {}
            BY <2>1 DEF NoLogEntry
        <3>2. \A p \in Paths \ S : held'[p] = held[p]
            BY <2>1
        <3>3. \A p \in S : {p} \X (1..held'[p].charged) = {}
            BY <3>1
        <3>. QED
            BY <3>2, <3>3 DEF CachedBytes
    <2>5. Charged(Paths) = Charged(Paths \ S) + Charged(S) /\ Charged(S) \in Nat
             /\ Charged(Paths \ S) \in Nat
          /\ Charged(Paths) \in Nat
        BY <1>1, <1>2, <1>4 DEF BudgetInv
    <2>6. bytes = Charged(Paths)
        BY <1>4 DEF BudgetInv, BudgetHolds
    <2>7. Charged(Paths)' = Charged(Paths \ S)
        BY <2>4 DEF Charged
    <2>. QED
        BY <2>1, <2>2, <2>3, <2>5, <2>6, <2>7
<1>5. ASSUME BudgetInv PROVE IsFiniteSet(Reserved) /\ Cardinality(Reserved) \in Nat
    <2>1. \A q \in Readers : reader[q].base \in Nat /\ reader[q].granted \in 0..(MaxBytes + Chunk)
        BY <1>5 DEF BudgetInv, BudgetTypes, Reading
    <2>2. Reserved \subseteq Readers \X (1..(MaxBytes + Chunk))
        <3>1. \A q \in Readers : {q} \X ((reader[q].base + 1)..reader[q].granted) \subseteq Readers \X (1..(MaxBytes + Chunk))
            BY <2>1
        <3>. QED
            BY <3>1 DEF Reserved
    <2>3. IsFiniteSet(Readers \X (1..(MaxBytes + Chunk)))
        <3>1. IsFiniteSet(1..(MaxBytes + Chunk))
            BY FS_Interval
        <3>. QED
            BY <3>1, FS_Product
    <2>. QED
        BY <2>2, <2>3, FS_Subset, FS_CardinalityType
\* What a step of a reader does to them.
<1>6. ASSUME BudgetInv, NEW q \in Readers, NEW r \in Reading, Sound(r),
             reader' = [reader EXCEPT ![q] = r]
      PROVE  /\ reader' \in [Readers -> Reading]
             /\ \A o \in Readers : Sound(reader'[o])
             /\ Cardinality(Reserved)' = Cardinality(Reserved) - (reader[q].granted - reader[q].base)
                                                              + (r.granted - r.base)
             /\ Cardinality(Reserved) \in Nat /\ Cardinality(Reserved)' \in Nat
    <2>. DEFINE Mine(o, x) == {o} \X ((x.base + 1)..x.granted)
                rest == UNION { Mine(o, reader[o]) : o \in Readers \ {q} }
    <2>1. reader \in [Readers -> Reading] /\ reader[q].base <= reader[q].granted
          /\ reader[q].base \in Nat /\ reader[q].granted \in Nat /\ r.base \in Nat /\ r.granted \in Nat
          /\ r.base <= r.granted
        BY <1>6 DEF BudgetInv, BudgetTypes, Reading, Sound
    <2>2. reader'[q] = r /\ \A o \in Readers \ {q} : reader'[o] = reader[o]
        BY <1>6, <2>1
    <2>3. Reserved = rest \cup Mine(q, reader[q]) /\ rest \cap Mine(q, reader[q]) = {}
        BY DEF Reserved
    <2>4. Reserved' = rest \cup Mine(q, r) /\ rest \cap Mine(q, r) = {}
        BY <2>2 DEF Reserved
    <2>5. IsFiniteSet(Reserved) /\ Cardinality(Reserved) \in Nat
        BY <1>5, <1>6
    <2>. HIDE DEF rest
    <2>6. ASSUME NEW b \in Nat, NEW g \in Nat, b <= g
          PROVE  /\ IsFiniteSet({q} \X ((b + 1)..g))
                 /\ Cardinality({q} \X ((b + 1)..g)) = g - b
        <3>1. b + 1 \in Int /\ g \in Int
            OBVIOUS
        <3>2. IsFiniteSet((b + 1)..g) /\ Cardinality((b + 1)..g) = g - b
            <4>1. /\ IsFiniteSet((b + 1)..g)
                  /\ Cardinality((b + 1)..g) = IF b + 1 > g THEN 0 ELSE g - (b + 1) + 1
                BY <3>1, FS_Interval
            <4>. QED
                BY <2>6, <4>1
        <3>3. IsFiniteSet({q}) /\ Cardinality({q}) = 1
            BY FS_Singleton
        <3>4. IsFiniteSet({q} \X ((b + 1)..g)) /\ Cardinality({q} \X ((b + 1)..g)) = 1 * (g - b)
            BY <3>2, <3>3, FS_Product
        <3>5. 1 * (g - b) = g - b
            OBVIOUS
        <3>. QED
            BY <3>4, <3>5
    <2>7. /\ IsFiniteSet(Mine(q, reader[q]))
                /\ Cardinality(Mine(q, reader[q])) = reader[q].granted - reader[q].base
          /\ IsFiniteSet(Mine(q, r)) /\ Cardinality(Mine(q, r)) = r.granted - r.base
        BY <1>6, <2>1, <2>6 DEF Sound
    <2>. HIDE DEF Mine
    <2>8. IsFiniteSet(rest)
        BY <2>3, <2>5, FS_Subset
    <2>9. ASSUME NEW B, IsFiniteSet(B), rest \cap B = {}
          PROVE  Cardinality(rest \cup B) = Cardinality(rest) + Cardinality(B)
                    /\ Cardinality(rest) \in Nat
        BY <1>0, <2>8, <2>9
    <2>10. /\ Cardinality(Reserved) = Cardinality(rest) + (reader[q].granted - reader[q].base)
           /\ Cardinality(rest) \in Nat
        BY <2>3, <2>7, <2>9
    <2>11. Cardinality(Reserved)' = Cardinality(rest) + (r.granted - r.base)
        BY <2>4, <2>7, <2>9
    <2>12. reader' \in [Readers -> Reading]
        BY <1>6, <2>1
    <2>13. \A o \in Readers : Sound(reader'[o])
        BY <1>6, <2>2 DEF BudgetInv, BudgetTypes
    <2>. QED
        BY <1>6, <2>1, <2>5, <2>10, <2>11, <2>12, <2>13
\* What dropping for room leaves.
<1>7. ASSUME BudgetInv, NEW path, NEW n \in Nat, NEW c \in Nat, NEW total \in Int
      PROVE  /\ Drops(c, path, total) \subseteq Paths \ {path}
             /\ Fit(n, path, total) # {} /\ (n = c \/ Fit(c, path, total) = {}) =>
                   total - Charged(Drops(c, path, total)) + n <= MaxBytes
    <2>. DEFINE d == Droppable(path)
                L == Len(d)
    <2>1. d \in Seq(Paths) /\ ToSet(d) \subseteq Paths \ {path}
        <3>. DEFINE S == { p \in Paths : p # path /\ ~Busy(p) }
        <3>1. ToSet(Only(recent, S)) = ToSet(recent) \cap S /\ Only(recent, S) \in Seq(Paths)
            BY <1>7, OnlyFacts DEF BudgetInv, BudgetTypes
        <3>2. S \subseteq Paths \ {path}
            OBVIOUS
        <3>. QED
            BY <3>1, <3>2 DEF Droppable
    <2>. HIDE DEF d
    <2>2. ASSUME NEW k \in 0..L
          PROVE  Oldest(k, path) \subseteq Paths \ {path} /\ Oldest(k, path) \subseteq Oldest(L, path)
        <3>1. k \in Nat /\ L \in Nat /\ k <= L
            BY <2>1
        <3>2. ToSet(SubSeq(d, 1, k)) = { d[i] : i \in 1..k }
                 /\ ToSet(SubSeq(d, 1, L)) = { d[i] : i \in 1..L }
            <4>1. ASSUME NEW m \in 0..L PROVE ToSet(SubSeq(d, 1, m)) = { d[i] : i \in 1..m }
                <5>1. DOMAIN SubSeq(d, 1, m) = 1..m /\ \A i \in 1..m : SubSeq(d, 1, m)[i] = d[i]
                    BY <2>1
                <5>. QED
                    BY <5>1 DEF ToSet
            <4>2. k \in 0..L /\ L \in 0..L
                BY <3>1
            <4>. QED
                BY <4>1, <4>2
        <3>3. { d[i] : i \in 1..L } \subseteq ToSet(d)
            BY <2>1 DEF ToSet
        <3>4. { d[i] : i \in 1..k } \subseteq { d[i] : i \in 1..L }
            BY <3>1
        <3>. QED
            BY <2>1, <3>2, <3>3, <3>4 DEF Oldest, d
    <2>3. ASSUME NEW k \in Fit(n, path, total)
          PROVE  k \in 0..L /\ total - Charged(Oldest(k, path)) + n <= MaxBytes
        BY DEF Fit, d
    <2>4. L \in 0..L
        BY <2>1
    <2>5. CASE Fit(c, path, total) = {}
        <3>1. Drops(c, path, total) = Oldest(L, path)
            BY <2>5 DEF Drops, d
        <3>2. ASSUME NEW k \in Fit(n, path, total) PROVE total - Charged(Oldest(L, path)) + n <= MaxBytes
            <4>1. k \in 0..L /\ total - Charged(Oldest(k, path)) + n <= MaxBytes
                BY <2>3
            <4>2. Oldest(k, path) \subseteq Oldest(L, path) /\ Oldest(L, path) \subseteq Paths
                BY <2>2, <2>4, <4>1
            <4>3. Oldest(k, path) \in SUBSET Paths
                BY <4>2
            <4>4. Charged(Oldest(k, path)) <= Charged(Oldest(L, path))
                  /\ Charged(Oldest(k, path)) \in Nat /\ Charged(Oldest(L, path)) \in Nat
                BY <1>1, <1>3, <1>7, <4>2, <4>3 DEF BudgetInv
            <4>. QED
                BY <4>1, <4>4
        <3>. QED
            BY <2>2, <2>4, <3>1, <3>2
    <2>6. CASE Fit(c, path, total) # {}
        <3>1. Fit(c, path, total) \in SUBSET Nat
            BY <2>1 DEF Fit, d
        <3>2. Min(Fit(c, path, total)) \in Fit(c, path, total)
            <4>1. PICK m \in Fit(c, path, total) : \A k \in Fit(c, path, total) : m <= k
                BY <2>6, <3>1, LeastNumber
            <4>. QED
                BY <4>1 DEF Min
        <3>3. Drops(c, path, total) = Oldest(Min(Fit(c, path, total)), path)
            BY <2>6 DEF Drops
        <3>4. Min(Fit(c, path, total)) \in 0..L
              /\ total - Charged(Oldest(Min(Fit(c, path, total)), path)) + c <= MaxBytes
            <4>1. \A k \in Fit(c, path, total) : k \in 0..L
                     /\ total - Charged(Oldest(k, path)) + c <= MaxBytes
                BY DEF Fit, d
            <4>. QED
                BY <3>2, <4>1
        <3>. QED
            BY <2>2, <2>6, <3>3, <3>4
    <2>. QED
        BY <2>5, <2>6
<1>9. AtRest \in Reading /\ Sound(AtRest) /\ AtRest.base = 0 /\ AtRest.granted = 0
    BY DEF AtRest, Reading, Sound
<1>10. BudgetInit => BudgetInv
    <2>. SUFFICES ASSUME BudgetInit PROVE BudgetInv
        OBVIOUS
    <2>1. BudgetTypes
        BY <1>9 DEF BudgetInit, BudgetTypes, NoLogEntry
    <2>2. CachedBytes(Paths) = {}
        BY DEF BudgetInit, CachedBytes, NoLogEntry
    <2>3. Reserved = {}
        <3>1. \A q \in Readers : {q} \X ((reader[q].base + 1)..reader[q].granted) = {}
            BY <1>9 DEF BudgetInit
        <3>. QED
            BY <3>1 DEF Reserved
    <2>4. Cardinality({}) = 0
        BY FS_EmptySet
    <2>. QED
        BY <2>1, <2>2, <2>3, <2>4 DEF BudgetInit, BudgetInv, BudgetHolds, Charged
<1>11. ASSUME BudgetInv, [BudgetNext]_budgetVars PROVE BudgetInv'
    <2>0. /\ BudgetTypes /\ bytes = Charged(Paths) /\ inflight = Cardinality(Reserved)
          /\ bytes + inflight <= MaxBytes + excess
          /\ bytes \in Nat /\ inflight \in Nat /\ excess \in Nat
        BY <1>1, <1>5, <1>11 DEF BudgetInv, BudgetHolds, BudgetTypes
    <2>1. UNCHANGED held => Charged(Paths)' = Charged(Paths)
        BY DEF Charged, CachedBytes
    <2>2. UNCHANGED reader => Cardinality(Reserved)' = Cardinality(Reserved)
        BY DEF Reserved
    <2>3. ASSUME NEW p \in Paths, Grows(p) \/ Rotates(p) PROVE BudgetInv'
        <3>1. UNCHANGED <<held, bytes, inflight, recent, reader, excess>>
            BY <2>3 DEF Grows, Rotates
        <3>2. log' \in [Paths -> [file : Nat, size : Nat]]
            <4>1. log \in [Paths -> [file : Nat, size : Nat]]
                BY <2>0 DEF BudgetTypes
            <4>2. CASE Grows(p)
                <5>1. log' = [log EXCEPT ![p] = [log[p] EXCEPT !.size = @ + 1]]
                    BY <4>1, <4>2 DEF Grows
                <5>. QED
                    BY <4>1, <5>1
            <4>3. CASE Rotates(p)
                BY <4>1, <4>3 DEF Rotates
            <4>. QED
                BY <2>3, <4>2, <4>3
        <3>. QED
            BY <2>0, <2>1, <2>2, <3>1, <3>2 DEF BudgetInv, BudgetTypes, BudgetHolds
    <2>13. ASSUME NEW q \in Readers, NEW r \in Reading, Sound(r), reader' = [reader EXCEPT ![q] = r],
                  held' \in [Paths -> [file : Nat, charged : 0..MaxBytes]], recent' \in Seq(Paths),
                  bytes' = Charged(Paths)', log' = log, excess' \in Nat,
                  inflight' = inflight - (reader[q].granted - reader[q].base) + (r.granted - r.base),
                  bytes' + inflight' <= MaxBytes + excess'
           PROVE  BudgetInv'
        <3>1. BudgetTypes'
            BY <1>6, <1>11, <2>0, <2>13 DEF BudgetTypes
        <3>2. Cardinality(Reserved)' = inflight'
            BY <1>6, <1>11, <2>0, <2>13
        <3>. QED
            BY <2>13, <3>1, <3>2 DEF BudgetInv, BudgetHolds
    <2>14. ASSUME NEW q \in Readers
           PROVE  /\ reader[q] \in Reading /\ Sound(reader[q])
                        /\ reader[q].granted - reader[q].base \in Nat
                  /\ reader[q].granted \in Nat /\ reader[q].base \in Nat /\ reader[q].at \in 0..MaxBytes
        BY <2>0 DEF BudgetTypes, Reading, Sound
    <2>15. ASSUME NEW q \in Readers, NEW r \in Reading, Sound(r), r.granted = r.base,
                  reader' = [reader EXCEPT ![q] = r],
                  held' \in [Paths -> [file : Nat, charged : 0..MaxBytes]], recent' \in Seq(Paths),
                  bytes' = Charged(Paths)', bytes' <= bytes, bytes' \in Nat, log' = log, excess' = excess,
                  inflight' = inflight - (reader[q].granted - reader[q].base)
           PROVE  BudgetInv'
        <3>1. r.granted - r.base = 0
            BY <2>15 DEF Reading
        <3>2. reader[q].granted - reader[q].base \in Nat
            BY <2>14
        <3>3. inflight' = inflight - (reader[q].granted - reader[q].base) + (r.granted - r.base)
            BY <2>0, <2>15, <3>1, <3>2
        <3>4. bytes' + inflight' <= MaxBytes + excess' /\ excess' \in Nat
            BY <2>0, <2>15, <3>2
        <3>. QED
            BY <2>13, <2>15, <3>3, <3>4
    <2>4. ASSUME NEW q \in Readers, NEW p \in Paths, Takes(q, p) PROVE BudgetInv'
        <3>. DEFINE mine == held[p].file = log[p].file
                    c == IF mine THEN held[p].charged ELSE 0
                    r == [step |-> "decode", path |-> p, file |-> log[p].file, size |-> log[p].size,
                          at |-> c, base |-> c, granted |-> c]
                    S == IF mine THEN {} ELSE {p}
        <3>1. reader[q].base = reader[q].granted
            BY <2>4, <2>14 DEF Takes, Sound
        <3>2. c \in 0..MaxBytes /\ log[p].file \in Nat /\ log[p].size \in Nat
            BY <2>0 DEF BudgetTypes
        <3>3. reader' = [reader EXCEPT ![q] = r] /\ Forgets(S) /\ UNCHANGED <<log, inflight, excess>>
            BY <2>4 DEF Takes
        <3>4. S \in SUBSET Paths
            OBVIOUS
        <3>. HIDE DEF c, S
        <3>5. r \in Reading /\ Sound(r) /\ r.granted = r.base /\ r.base \in Nat
            BY <3>2 DEF Reading, Sound
        <3>. HIDE DEF r
        <3>6. /\ held' \in [Paths -> [file : Nat, charged : 0..MaxBytes]] /\ recent' \in Seq(Paths)
              /\ bytes' = Charged(Paths)' /\ bytes' <= bytes /\ bytes' \in Nat
            BY <1>4, <1>11, <3>3, <3>4
        <3>7. inflight' = inflight - (reader[q].granted - reader[q].base)
            BY <2>0, <2>14, <3>1, <3>3
        <3>. QED
            BY <2>15, <3>3, <3>5, <3>6, <3>7
    <2>5. ASSUME NEW q \in Readers, Decodes(q) PROVE BudgetInv'
        <3>1. PICK n \in {0, 1, Chunk} :
                 /\ (n = 0) = (reader[q].at < reader[q].granted)
                 /\ n > 0 => HasRoom(q, n)
                 /\ n = 1 => ~HasRoom(q, Chunk) \/ Chunk = 1
                 /\ Forgets(IF n = 0 THEN {} ELSE RoomFor(q, Chunk))
                 /\ inflight' = inflight + n
                 /\ reader' = [reader EXCEPT ![q].at = @ + 1, ![q].granted = @ + n]
            BY <2>5 DEF Decodes
        <3>. DEFINE r == [reader[q] EXCEPT !.at = @ + 1, !.granted = @ + n]
                    S == IF n = 0 THEN {} ELSE RoomFor(q, Chunk)
        <3>2. reader[q].step = "decode" /\ reader[q].at < MaxBytes /\ UNCHANGED <<log, excess>>
            BY <2>5 DEF Decodes
        <3>3. reader' = [reader EXCEPT ![q] = r]
            BY <2>0, <3>1 DEF BudgetTypes
        <3>4. n \in Nat /\ n <= Chunk /\ (n > 0 => reader[q].granted <= reader[q].at)
            BY <3>1, <2>14
        <3>5. reader[q].granted + n <= MaxBytes + Chunk
            BY <3>2, <3>4, <2>14 DEF Reading
        <3>6. /\ r.granted = reader[q].granted + n /\ r.base = reader[q].base /\ r \in Reading
              /\ r.step = reader[q].step /\ r.path = reader[q].path
            <4>. DEFINE old == reader[q]
            <4>1. old \in Reading /\ r = [old EXCEPT !.at = old.at + 1, !.granted = old.granted + n]
                BY <2>14
            <4>2. old.at + 1 \in 0..MaxBytes /\ old.granted + n \in 0..(MaxBytes + Chunk)
                BY <2>14, <3>2, <3>4, <3>5
            <4>. HIDE DEF old, r
            <4>3. /\ r.granted = old.granted + n /\ r.base = old.base /\ r \in Reading
                  /\ r.step = old.step /\ r.path = old.path
                BY <4>1, <4>2 DEF Reading
            <4>. QED
                BY <4>3 DEF old
        <3>. HIDE DEF r
        <3>7. Sound(r)
            BY <2>14, <3>2, <3>4, <3>6 DEF Sound
        <3>8. S \subseteq Paths /\ (n > 0 => (bytes + inflight) - Charged(S) + n <= MaxBytes)
            <4>1. CASE n = 0
                BY <4>1
            <4>2. CASE n > 0
                <5>1. S = Drops(Chunk, reader[q].path, bytes + inflight)
                      /\ Fit(n, reader[q].path, bytes + inflight) # {}
                      /\ (n = Chunk \/ Fit(Chunk, reader[q].path, bytes + inflight) = {})
                    BY <3>1, <4>2 DEF RoomFor, HasRoom
                <5>. HIDE DEF S
                <5>2. n \in Nat /\ Chunk \in Nat /\ bytes + inflight \in Int
                    BY <2>0, <3>4
                <5>3. (bytes + inflight) - Charged(Drops(Chunk, reader[q].path,
                      bytes + inflight)) + n <= MaxBytes
                    <6>. DEFINE total == bytes + inflight
                    <6>1. n \in Nat /\ Chunk \in Nat /\ total \in Int
                             /\ Fit(n, reader[q].path, total) # {}
                          /\ (n = Chunk \/ Fit(Chunk, reader[q].path, total) = {})
                        BY <5>1, <5>2
                    <6>. HIDE DEF total
                    <6>2. total - Charged(Drops(Chunk, reader[q].path, total)) + n <= MaxBytes
                        BY <1>7, <1>11, <6>1
                    <6>. QED
                        BY <6>2, Zenon DEF total
                <5>4. Drops(Chunk, reader[q].path, bytes + inflight) \subseteq Paths
                    BY <1>7, <1>11, <5>2
                <5>. QED
                    BY <5>1, <5>3, <5>4
            <4>. QED
                BY <3>4, <4>1, <4>2
        <3>9. Forgets(S) /\ inflight' = inflight + n
            BY <3>1
        <3>. HIDE DEF S
        <3>10. /\ held' \in [Paths -> [file : Nat, charged : 0..MaxBytes]] /\ recent' \in Seq(Paths)
               /\ bytes' = Charged(Paths)' /\ bytes' = bytes - Charged(S) /\ bytes' <= bytes
                     /\ bytes' \in Nat
            BY <1>4, <1>11, <3>8, <3>9
        <3>11. bytes' + inflight' <= MaxBytes + excess'
            <4>0. Charged(S) \in Nat
                BY <1>1, <2>0, <3>8
            <4>1. CASE n = 0
                BY <2>0, <3>2, <3>9, <3>10, <4>1
            <4>2. CASE n > 0
                <5>1. bytes' + inflight' <= MaxBytes
                    <6>1. bytes' = bytes - Charged(S) /\ inflight' = inflight + n
                        BY <3>9, <3>10
                    <6>2. (bytes + inflight) - Charged(S) + n <= MaxBytes
                        BY <3>8, <4>2
                    <6>3. bytes \in Nat /\ inflight \in Nat
                        BY <2>0
                    <6>. QED
                        BY <3>4, <4>0, <6>1, <6>2, <6>3
                <5>2. bytes' + inflight' \in Nat
                    BY <2>0, <3>4, <3>9, <3>10
                <5>. QED
                    BY <2>0, <3>2, <5>1, <5>2
            <4>. QED
                BY <3>4, <4>1, <4>2
        <3>12. inflight' = inflight - (reader[q].granted - reader[q].base) + (r.granted - r.base)
            BY <2>0, <2>14, <3>4, <3>6, <3>9
        <3>13. log' = log /\ excess' \in Nat
            BY <2>0, <3>2
        <3>. QED
            BY <2>13, <3>3, <3>6, <3>7, <3>10, <3>11, <3>12, <3>13
    <2>6. ASSUME NEW q \in Readers, GivesUp(q) PROVE BudgetInv'
        <3>. DEFINE tooBig == reader[q].at >= MaxBytes
                    S == {reader[q].path} \cup IF tooBig THEN {} ELSE RoomFor(q, 1)
        <3>1. /\ reader[q].step = "decode" /\ Releases(q) /\ Forgets(S)
              /\ reader' = [reader EXCEPT ![q] = AtRest] /\ UNCHANGED <<log, excess>>
            BY <2>6 DEF GivesUp
        <3>2. S \subseteq Paths
            <4>1. reader[q].path \in Paths
                BY <2>14, <3>1 DEF Sound
            <4>2. RoomFor(q, 1) \subseteq Paths
                <5>1. 1 \in Nat /\ bytes + inflight \in Int
                    BY <2>0
                <5>. QED
                    BY <1>7, <1>11, <5>1 DEF RoomFor
            <4>. QED
                BY <4>1, <4>2
        <3>. HIDE DEF S
        <3>3. /\ held' \in [Paths -> [file : Nat, charged : 0..MaxBytes]] /\ recent' \in Seq(Paths)
              /\ bytes' = Charged(Paths)' /\ bytes' <= bytes /\ bytes' \in Nat
            BY <1>4, <1>11, <3>1, <3>2
        <3>. QED
            BY <1>9, <2>15, <3>1, <3>3 DEF Releases
    <2>7. ASSUME NEW q \in Readers, DecodeEnds(q) PROVE BudgetInv'
        <3>. DEFINE r == [reader[q] EXCEPT !.step = IF reader[q].at = reader[q].base THEN "touch" ELSE "prune",
                                           !.granted = reader[q].base]
        <3>1. /\ reader[q].step = "decode" /\ Releases(q)
                    /\ UNCHANGED <<log, held, bytes, recent, excess>>
              /\ reader' = [reader EXCEPT ![q] = r]
            BY <2>0, <2>7 DEF DecodeEnds, BudgetTypes
        <3>2. r \in Reading /\ Sound(r) /\ r.granted = reader[q].base /\ r.base = reader[q].base
            <4>1. reader[q].base \in 0..(MaxBytes + Chunk)
                BY <2>14 DEF Reading, Sound
            <4>2. r.path = reader[q].path /\ r.granted = reader[q].base /\ r.base = reader[q].base
                BY <2>14 DEF Reading
            <4>3. r \in Reading
                BY <2>14, <4>1 DEF Reading
            <4>. HIDE DEF r
            <4>. QED
                BY <2>14, <3>1, <4>2, <4>3 DEF Sound
        <3>. HIDE DEF r
        <3>3. held' \in [Paths -> [file : Nat, charged : 0..MaxBytes]]
                 /\ recent' \in Seq(Paths) /\ bytes' = Charged(Paths)'
            BY <2>0, <2>1, <3>1 DEF BudgetTypes
        <3>4. inflight' = inflight - (reader[q].granted - reader[q].base) /\ bytes' <= bytes
                 /\ bytes' \in Nat
            BY <2>0, <3>1 DEF Releases
        <3>. QED
            BY <2>15, <3>1, <3>2, <3>3, <3>4
    <2>8. ASSUME NEW q \in Readers, Touches(q) PROVE BudgetInv'
        <3>1. /\ reader[q].step = "touch" /\ reader' = [reader EXCEPT ![q] = AtRest]
              /\ UNCHANGED <<log, held, bytes, inflight, excess>>
              /\ recent' \in {recent, Append(Only(recent, Paths \ {reader[q].path}), reader[q].path)}
            BY <2>8 DEF Touches
        <3>2. reader[q].path \in Paths /\ reader[q].granted = reader[q].base
            BY <2>14, <3>1 DEF Sound
        <3>3. recent \in Seq(Paths) /\ Only(recent, Paths \ {reader[q].path}) \in Seq(Paths)
            BY <2>0, OnlyFacts DEF BudgetTypes
        <3>4. recent' \in Seq(Paths)
            <4>1. \A s \in Seq(Paths) : Append(s, reader[q].path) \in Seq(Paths)
                BY <3>2
            <4>. QED
                BY <3>1, <3>3, <4>1
        <3>6. inflight' = inflight - (reader[q].granted - reader[q].base)
            BY <2>0, <2>14, <3>1, <3>2
        <3>5. held' \in [Paths -> [file : Nat, charged : 0..MaxBytes]] /\ bytes' = Charged(Paths)'
              /\ bytes' <= bytes /\ bytes' \in Nat
            BY <2>0, <2>1, <3>1 DEF BudgetTypes
        <3>. QED
            BY <1>9, <2>15, <3>1, <3>4, <3>5, <3>6
    <2>9. ASSUME NEW q \in Readers, Prunes(q) PROVE BudgetInv'
        <3>. DEFINE r == [reader[q] EXCEPT !.step = "store"]
                    S == Stale \ {reader[q].path}
        <3>1. /\ reader[q].step = "prune" /\ Forgets(S) /\ UNCHANGED <<log, inflight, excess>>
              /\ reader' = [reader EXCEPT ![q] = r]
            BY <2>0, <2>9 DEF Prunes, BudgetTypes
        <3>2. S \subseteq Paths
            BY DEF Stale
        <3>3. /\ r \in Reading /\ r.granted = reader[q].granted /\ r.base = reader[q].base
              /\ r.path = reader[q].path /\ r.step = "store"
            BY <2>14 DEF Reading
        <3>. HIDE DEF r, S
        <3>4. Sound(r)
            BY <2>14, <3>1, <3>3 DEF Sound
        <3>5. /\ held' \in [Paths -> [file : Nat, charged : 0..MaxBytes]] /\ recent' \in Seq(Paths)
              /\ bytes' = Charged(Paths)' /\ bytes' <= bytes /\ bytes' \in Nat
            BY <1>4, <1>11, <3>1, <3>2
        <3>6. r.granted = r.base /\ reader[q].granted = reader[q].base
            BY <2>14, <3>1, <3>3 DEF Sound
        <3>7. inflight' = inflight - (reader[q].granted - reader[q].base)
            BY <2>0, <2>14, <3>1, <3>6
        <3>. QED
            BY <2>15, <3>1, <3>3, <3>4, <3>5, <3>6, <3>7
    <2>10. ASSUME NEW q \in Readers, Stores(q) PROVE BudgetInv'
        <3>. DEFINE p == reader[q].path
                    total == bytes + inflight - held[p].charged
                    outs == {p} \cup Drops(reader[q].at, p, total)
        <3>1. /\ reader[q].step = "store" /\ UNCHANGED <<log, inflight>>
              /\ held' = [o \in Paths |-> IF o = p THEN [file |-> reader[q].file,
                 charged |-> reader[q].at]
                                          ELSE IF o \in outs THEN NoLogEntry ELSE held[o]]
              /\ bytes' = bytes - Charged(outs) + reader[q].at
              /\ excess' = Max({0, bytes' + inflight - MaxBytes})
              /\ recent' = Append(Only(recent, Paths \ outs), p)
              /\ reader' = [reader EXCEPT ![q] = AtRest]
            BY <2>10 DEF Stores
        <3>2. p \in Paths /\ reader[q].granted = reader[q].base
            BY <2>14, <3>1 DEF Sound
        <3>3. outs \in SUBSET Paths /\ p \in outs
            <4>1. reader[q].at \in Nat /\ total \in Int
                BY <2>0, <2>14, <3>2 DEF BudgetTypes
            <4>2. Drops(reader[q].at, p, total) \subseteq Paths
                BY <1>7, <1>11, <4>1
            <4>. QED
                BY <3>2, <4>2
        <3>. HIDE DEF outs, total
        <3>4. held' \in [Paths -> [file : Nat, charged : 0..MaxBytes]] /\ recent' \in Seq(Paths)
            <4>1. held' \in [Paths -> [file : Nat, charged : 0..MaxBytes]]
                BY <2>0, <2>14, <3>1 DEF BudgetTypes, NoLogEntry, Reading
            <4>2. Only(recent, Paths \ outs) \in Seq(Paths)
                BY <2>0, OnlyFacts DEF BudgetTypes
            <4>. QED
                BY <3>1, <3>2, <4>1, <4>2
        <3>5. CachedBytes(Paths)' = CachedBytes(Paths \ outs) \cup ({p} \X (1..reader[q].at))
              /\ CachedBytes(Paths \ outs) \cap ({p} \X (1..reader[q].at)) = {}
            <4>1. held'[p].charged = reader[q].at /\ (\A o \in Paths \ outs : held'[o] = held[o])
                  /\ \A o \in outs \ {p} : {o} \X (1..held'[o].charged) = {}
                <5>1. \A o \in outs \ {p} : o \in Paths /\ held'[o] = NoLogEntry
                    BY <3>1, <3>3
                <5>2. 1..NoLogEntry.charged = {}
                    BY DEF NoLogEntry
                <5>. QED
                    BY <3>1, <3>2, <3>3, <5>1, <5>2
            <4>. QED
                BY <3>2, <3>3, <4>1 DEF CachedBytes
        <3>6. IsFiniteSet({p} \X (1..reader[q].at))
                 /\ Cardinality({p} \X (1..reader[q].at)) = reader[q].at
            <4>0. 1 \in Int /\ reader[q].at \in Int /\ reader[q].at >= 0
                BY <2>14
            <4>1. /\ IsFiniteSet(1..reader[q].at)
                  /\ Cardinality(1..reader[q].at) = IF 1 > reader[q].at THEN 0 ELSE reader[q].at - 1 + 1
                BY <4>0, FS_Interval
            <4>2. Cardinality(1..reader[q].at) = reader[q].at
                BY <4>0, <4>1
            <4>3. IsFiniteSet({p}) /\ Cardinality({p}) = 1
                BY FS_Singleton
            <4>4. Cardinality({p} \X (1..reader[q].at)) = 1 * reader[q].at
                BY <4>1, <4>2, <4>3, FS_Product
            <4>5. IsFiniteSet({p} \X (1..reader[q].at))
                BY <4>1, <4>3, FS_Product
            <4>. QED
                BY <4>0, <4>4, <4>5
        <3>7. Charged(Paths) = Charged(Paths \ outs) + Charged(outs) /\ Charged(outs) \in Nat
              /\ Charged(Paths \ outs) \in Nat /\ IsFiniteSet(CachedBytes(Paths \ outs))
            <4>1. Paths \ outs \in SUBSET Paths
                OBVIOUS
            <4>. QED
                BY <1>1, <1>2, <2>0, <3>3, <4>1
        <3>8. Charged(Paths)' = Charged(Paths \ outs) + reader[q].at
            <4>. DEFINE A == CachedBytes(Paths \ outs)
                        B == {p} \X (1..reader[q].at)
            <4>1. Cardinality(A \cup B) = Cardinality(A) + Cardinality(B)
                BY <1>0, <3>5, <3>6, <3>7
            <4>2. Charged(Paths)' = Cardinality(A \cup B) /\ Cardinality(A) = Charged(Paths \ outs)
                BY <3>5 DEF Charged
            <4>. QED
                BY <3>6, <4>1, <4>2
        <3>9. bytes' = Charged(Paths)' /\ bytes' \in Nat
            <4>1. bytes' = Charged(Paths \ outs) + reader[q].at
                <5>1. bytes = Charged(Paths \ outs) + Charged(outs)
                    BY <2>0, <3>7
                <5>2. bytes' = bytes - Charged(outs) + reader[q].at
                    BY <3>1
                <5>3. reader[q].at \in Nat
                    BY <2>14
                <5>. QED
                    BY <3>7, <5>1, <5>2, <5>3
            <4>. QED
                BY <2>14, <3>7, <3>8, <4>1
        <3>10. excess' \in Nat /\ bytes' + inflight' <= MaxBytes + excess'
            <4>1. \A a \in Int : Max({0, a}) \in Nat /\ a <= Max({0, a})
                BY DEF Max
            <4>. DEFINE over == bytes' + inflight - MaxBytes
            <4>2. over \in Int /\ excess' = Max({0, over}) /\ inflight' = inflight
                BY <2>0, <3>1, <3>9
            <4>3. excess' \in Nat /\ over <= excess'
                <5>. HIDE DEF over
                <5>. QED
                    BY <4>1, <4>2
            <4>. QED
                BY <2>0, <3>9, <4>2, <4>3
        <3>11. inflight' = inflight - (reader[q].granted - reader[q].base) + (AtRest.granted - AtRest.base)
            BY <1>9, <2>0, <2>14, <3>1, <3>2
        <3>. QED
            BY <1>9, <2>13, <3>1, <3>4, <3>9, <3>10, <3>11
    <2>11. CASE SweepsCache
        <3>1. PICK S \in SUBSET Paths : Forgets(Stale \cup S)
                      /\ UNCHANGED <<log, inflight, reader, excess>>
            BY <2>11 DEF SweepsCache
        <3>2. Stale \cup S \in SUBSET Paths
            BY DEF Stale
        <3>3. /\ held' \in [Paths -> [file : Nat, charged : 0..MaxBytes]] /\ recent' \in Seq(Paths)
              /\ bytes' = Charged(Paths)' /\ bytes' <= bytes /\ bytes' \in Nat
            BY <1>4, <1>11, <3>1, <3>2
        <3>. QED
            BY <2>0, <2>2, <3>1, <3>3 DEF BudgetInv, BudgetTypes, BudgetHolds
    <2>12. CASE UNCHANGED budgetVars
        BY <2>0, <2>1, <2>2, <2>12 DEF BudgetInv, BudgetTypes, BudgetHolds, budgetVars
    <2>. QED
        BY <1>11, <2>3, <2>4, <2>5, <2>6, <2>7, <2>8, <2>9, <2>10, <2>11, <2>12 DEF BudgetNext
<1>. QED
    BY <1>10, <1>11, PTL DEF BudgetSpec, BudgetInv

-----------------------------------------------------------------------------
(* The cache of the open log.                                              *)

Bytes == LogLines \X Nat

\* The lines of bytes are those before and those after any end of a line.
LEMMA LinesFacts ==
    ASSUME NEW b \in Seq(Bytes)
    PROVE  /\ \A S \in SUBSET (0..Len(b)) : S # {} => Max(S) \in S /\ \A k \in S : k <= Max(S)
           /\ LastEnd(b) \in LineEnds(b) /\ \A k \in LineEnds(b) : k <= LastEnd(b)
           /\ LinesOf(b) \subseteq Seq(Bytes)
           /\ \A n \in LineEnds(b) :
                LET g == SubSeq(b, n + 1, Len(b)) IN
                /\ LinesOf(b) = LinesOf(SubSeq(b, 1, n)) \cup LinesOf(g)
                /\ LastEnd(b) = n + LastEnd(g)
                /\ Content(b).tail = Content(g).tail
           /\ LinesOf(SubSeq(b, 1, LastEnd(b))) = LinesOf(b)
<1>1. ASSUME NEW n \in Nat, NEW S \in SUBSET (0..n), S # {}
      PROVE  Max(S) \in S /\ \A k \in S : k <= Max(S)
    <2>. DEFINE T == { n - k : k \in S }
    <2>1. PICK m \in T : \A k \in T : m <= k
        <3>1. T \in SUBSET Nat /\ T # {}
            <4>1. \A k \in S : k \in Int /\ n - k \in Nat
                OBVIOUS
            <4>. QED
                BY <1>1, <4>1
        <3>. HIDE DEF T
        <3>. QED
            BY <3>1, LeastNumber
    <2>2. PICK k \in S : m = n - k
        BY <2>1
    <2>3. ASSUME NEW j \in S PROVE j <= k
        <3>1. n - j \in T /\ j \in Int /\ k \in Int
            BY <2>2
        <3>2. m <= n - j
            BY <2>1, <3>1
        <3>. QED
            BY <2>2, <3>1, <3>2
    <2>. QED
        BY <2>2, <2>3 DEF Max
<1>2. ASSUME NEW c \in Seq(Bytes)
      PROVE  /\ LastEnd(c) \in LineEnds(c) /\ \A k \in LineEnds(c) : k <= LastEnd(c)
             /\ \A l : l \in LinesOf(c) <=>
                  \E i, j \in LineEnds(c) :
                     i < j /\ (\A k \in LineEnds(c) : k < j => k <= i) /\ l = SubSeq(c, i + 1, j)
    <2>1. LineEnds(c) \in SUBSET (0..Len(c)) /\ 0 \in LineEnds(c) /\ Len(c) \in Nat
        BY DEF LineEnds, EndsLine
    <2>2. LastEnd(c) \in LineEnds(c) /\ \A k \in LineEnds(c) : k <= LastEnd(c)
        BY <1>1, <2>1 DEF LastEnd
    <2>. DEFINE before(j) == { i \in LineEnds(c) : i < j }
    <2>3. ASSUME NEW j \in LineEnds(c) \ {0}
          PROVE  /\ Max(before(j)) \in LineEnds(c) /\ Max(before(j)) < j
                 /\ \A k \in LineEnds(c) : k < j => k <= Max(before(j))
        <3>1. before(j) \in SUBSET (0..Len(c)) /\ 0 \in before(j)
            BY <2>1
        <3>2. Max(before(j)) \in before(j) /\ \A k \in before(j) : k <= Max(before(j))
            <4>. HIDE DEF before
            <4>. QED
                BY <1>1, <2>1, <3>1
        <3>. QED
            BY <3>2
    <2>4. ASSUME NEW i \in LineEnds(c), NEW j \in LineEnds(c), i < j,
                 \A k \in LineEnds(c) : k < j => k <= i
          PROVE  j # 0 /\ i = Max(before(j))
        <3>1. i \in Nat /\ j \in Nat
            BY <2>1
        <3>2. Max(before(j)) \in Nat /\ Max(before(j)) <= i /\ i <= Max(before(j))
            <4>. HIDE DEF before
            <4>. QED
                BY <2>1, <2>3, <2>4, <3>1
        <3>. QED
            BY <3>1, <3>2, <2>4
    <2>5. LinesOf(c) = { SubSeq(c, Max(before(j)) + 1, j) : j \in LineEnds(c) \ {0} }
        BY DEF LinesOf
    <2>. HIDE DEF before
    <2>6. ASSUME NEW l \in LinesOf(c)
          PROVE  \E i, j \in LineEnds(c) :
                     i < j /\ (\A k \in LineEnds(c) : k < j => k <= i) /\ l = SubSeq(c, i + 1, j)
        <3>1. PICK j \in LineEnds(c) \ {0} : l = SubSeq(c, Max(before(j)) + 1, j)
            BY <2>5
        <3>. QED
            BY <3>1, <2>3
    <2>7. ASSUME NEW l, NEW i \in LineEnds(c), NEW j \in LineEnds(c), i < j,
                 \A k \in LineEnds(c) : k < j => k <= i, l = SubSeq(c, i + 1, j)
          PROVE  l \in LinesOf(c)
        BY <2>4, <2>5, <2>7
    <2>. QED
        BY <2>2, <2>6, <2>7
<1>3. LinesOf(b) \subseteq Seq(Bytes)
    <2>1. ASSUME NEW l \in LinesOf(b) PROVE l \in Seq(Bytes)
        <3>1. PICK i \in LineEnds(b), j \in LineEnds(b) : i < j /\ l = SubSeq(b, i + 1, j)
            BY <1>2
        <3>2. i \in 0..Len(b) /\ j \in 0..Len(b)
            BY DEF LineEnds
        <3>. QED
            BY <3>1, <3>2
    <2>. QED
        BY <2>1
<1>4. ASSUME NEW n \in LineEnds(b)
      PROVE  LET g == SubSeq(b, n + 1, Len(b)) IN
             /\ LinesOf(b) = LinesOf(SubSeq(b, 1, n)) \cup LinesOf(g)
             /\ LastEnd(b) = n + LastEnd(g)
             /\ Content(b).tail = Content(g).tail
    <2>. DEFINE p == SubSeq(b, 1, n)
                g == SubSeq(b, n + 1, Len(b))
                E == LineEnds(b)
    <2>1. n \in 0..Len(b) /\ Len(b) \in Nat /\ (n = 0 \/ IsNewline(b[n]))
        BY DEF LineEnds, EndsLine
    <2>2. p \in Seq(Bytes) /\ Len(p) = n /\ \A i \in 1..n : p[i] = b[i]
        BY <2>1
    <2>3. g \in Seq(Bytes) /\ Len(g) = Len(b) - n /\ \A i \in 1..(Len(b) - n) : g[i] = b[n + i]
        BY <2>1
    <2>4. \A i \in 0..n, j \in 0..n : SubSeq(p, i + 1, j) = SubSeq(b, i + 1, j)
        BY <2>1, <2>2
    <2>5. \A i \in 0..(Len(b) - n), j \in 0..(Len(b) - n) :
             SubSeq(g, i + 1, j) = SubSeq(b, n + i + 1, n + j)
        BY <2>1, <2>3
    <2>. HIDE DEF p, g
    <2>6. ASSUME NEW k \in 0..n PROVE k \in LineEnds(p) <=> k \in E
        BY <2>1, <2>2 DEF LineEnds, EndsLine
    <2>7. ASSUME NEW k \in 0..(Len(b) - n) PROVE k \in LineEnds(g) <=> n + k \in E
        <3>1. n + k \in 0..Len(b) /\ k \in 0..Len(g)
            BY <2>1, <2>3
        <3>2. CASE k = 0
            BY <2>1, <3>1, <3>2 DEF LineEnds, EndsLine
        <3>3. CASE k # 0
            <4>1. k \in 1..(Len(b) - n) /\ n + k # 0 /\ g[k] = b[n + k]
                BY <2>1, <2>3, <3>3
            <4>. QED
                BY <3>1, <3>3, <4>1 DEF LineEnds, EndsLine
        <3>. QED
            BY <3>2, <3>3
    <2>8. LineEnds(p) \subseteq 0..n /\ LineEnds(g) \subseteq 0..(Len(b) - n) /\ E \subseteq 0..Len(b)
        BY <2>2, <2>3 DEF LineEnds
    <2>. HIDE DEF E
    <2>9. ASSUME NEW l \in LinesOf(b) PROVE l \in LinesOf(p) \cup LinesOf(g)
        <3>1. PICK i \in E, j \in E :
                 i < j /\ (\A k \in E : k < j => k <= i) /\ l = SubSeq(b, i + 1, j)
            BY <1>2 DEF E
        <3>2. CASE j <= n
            <4>1. i \in LineEnds(p) /\ j \in LineEnds(p)
                BY <2>1, <2>6, <2>8, <3>1, <3>2
            <4>2. \A k \in LineEnds(p) : k < j => k <= i
                BY <2>6, <2>8, <3>1
            <4>3. l = SubSeq(p, i + 1, j)
                BY <2>1, <2>4, <2>8, <3>1, <4>1
            <4>. QED
                BY <1>2, <2>2, <3>1, <4>1, <4>2, <4>3
        <3>3. CASE n < j
            <4>1. n <= i
                BY <3>1, <3>3, <1>4 DEF E
            <4>. DEFINE i2 == i - n
                        j2 == j - n
            <4>2. i2 \in 0..(Len(b) - n) /\ j2 \in 0..(Len(b) - n) /\ n + i2 = i /\ n + j2 = j /\ i2 < j2
                BY <2>1, <2>8, <3>1, <3>3, <4>1
            <4>3. n + i2 + 1 = i + 1
                BY <4>2
            <4>. HIDE DEF i2, j2
            <4>4. i2 \in LineEnds(g) /\ j2 \in LineEnds(g)
                BY <2>7, <4>2, <3>1
            <4>5. ASSUME NEW k \in LineEnds(g), k < j2 PROVE k <= i2
                <5>1. n + k \in E /\ k \in Nat
                    BY <2>1, <2>7, <2>8
                <5>2. n + k < j
                    BY <2>1, <4>2, <4>5, <5>1
                <5>3. n + k <= i
                    BY <3>1, <5>1, <5>2
                <5>. QED
                    BY <2>1, <4>2, <5>1, <5>3
            <4>6. l = SubSeq(g, i2 + 1, j2)
                BY <2>5, <3>1, <4>2, <4>3
            <4>. QED
                BY <1>2, <2>3, <4>2, <4>4, <4>5, <4>6
        <3>. QED
            BY <2>1, <2>8, <3>2, <3>3
    <2>10. ASSUME NEW l \in LinesOf(p) PROVE l \in LinesOf(b)
        <3>1. PICK i \in LineEnds(p), j \in LineEnds(p) :
                 i < j /\ (\A k \in LineEnds(p) : k < j => k <= i) /\ l = SubSeq(p, i + 1, j)
            BY <1>2, <2>2
        <3>2. i \in E /\ j \in E /\ i \in 0..n /\ j \in 0..n
            BY <2>6, <2>8, <3>1
        <3>3. \A k \in E : k < j => k <= i
            <4>1. ASSUME NEW k \in E, k < j PROVE k <= i
                <5>1. k \in 0..n
                    BY <2>1, <2>8, <3>2, <4>1
                <5>. QED
                    BY <2>6, <3>1, <4>1, <5>1
            <4>. QED
                BY <4>1
        <3>4. l = SubSeq(b, i + 1, j)
            BY <2>4, <3>1, <3>2
        <3>. QED
            BY <1>2, <3>1, <3>2, <3>3, <3>4 DEF E
    <2>11. ASSUME NEW l \in LinesOf(g) PROVE l \in LinesOf(b)
        <3>1. PICK i \in LineEnds(g), j \in LineEnds(g) :
                 i < j /\ (\A k \in LineEnds(g) : k < j => k <= i) /\ l = SubSeq(g, i + 1, j)
            BY <1>2, <2>3
        <3>2. n + i \in E /\ n + j \in E /\ i \in 0..(Len(b) - n) /\ j \in 0..(Len(b) - n)
            BY <2>7, <2>8, <3>1
        <3>3. n + i < n + j
            BY <2>1, <3>1, <3>2
        <3>4. \A k \in E : k < n + j => k <= n + i
            <4>1. ASSUME NEW k \in E, k < n + j, n < k PROVE k <= n + i
                <5>. DEFINE k2 == k - n
                <5>1. k2 \in 0..(Len(b) - n) /\ n + k2 = k /\ k2 < j
                    BY <2>1, <2>8, <3>2, <4>1
                <5>. HIDE DEF k2
                <5>2. k2 <= i
                    BY <2>7, <3>1, <4>1, <5>1
                <5>. QED
                    BY <2>1, <3>2, <5>1, <5>2
            <4>2. \A k \in E : k <= n => k <= n + i
                BY <2>1, <2>8, <3>2
            <4>. QED
                BY <4>1, <4>2, <2>1, <2>8
        <3>5. l = SubSeq(b, n + i + 1, n + j)
            BY <2>5, <3>1, <3>2
        <3>. QED
            BY <1>2, <3>2, <3>3, <3>4, <3>5 DEF E
    <2>12. LastEnd(b) = n + LastEnd(g)
        <3>1. LastEnd(b) \in E /\ \A k \in E : k <= LastEnd(b)
            BY <1>2 DEF E
        <3>2. LastEnd(g) \in LineEnds(g) /\ \A k \in LineEnds(g) : k <= LastEnd(g)
            BY <1>2, <2>3
        <3>3. n + LastEnd(g) <= LastEnd(b) /\ n <= LastEnd(b)
            BY <2>7, <2>8, <3>1, <3>2, <1>4 DEF E
        <3>. DEFINE k == LastEnd(b) - n
        <3>4. k \in 0..(Len(b) - n) /\ n + k = LastEnd(b)
            <4>1. LastEnd(b) \in 0..Len(b) /\ n <= LastEnd(b)
                <5>1. n + LastEnd(g) >= n
                    BY <2>1, <2>8, <3>2
                <5>. QED
                    BY <2>1, <2>8, <3>1, <3>3
            <4>. QED
                BY <2>1, <4>1
        <3>. HIDE DEF k
        <3>5. k <= LastEnd(g)
            BY <2>7, <3>1, <3>2, <3>4
        <3>. QED
            BY <2>1, <2>8, <3>1, <3>2, <3>3, <3>4, <3>5
    <2>13. Content(b).tail = Content(g).tail
        <3>1. LastEnd(g) \in 0..(Len(b) - n)
            BY <1>2, <2>3, <2>8
        <3>2. SubSeq(g, LastEnd(g) + 1, Len(g)) = SubSeq(b, n + LastEnd(g) + 1, Len(b))
            <4>1. Len(g) \in 0..(Len(b) - n) /\ n + Len(g) = Len(b)
                BY <2>1, <2>3
            <4>. QED
                BY <2>5, <3>1, <4>1
        <3>. QED
            BY <2>12, <3>2 DEF Content
    <2>14. LinesOf(b) = LinesOf(p) \cup LinesOf(g)
        BY <2>9, <2>10, <2>11
    <2>. QED
        BY <2>12, <2>13, <2>14 DEF p, g
<1>5. LinesOf(SubSeq(b, 1, LastEnd(b))) = LinesOf(b)
    <2>. DEFINE g == SubSeq(b, LastEnd(b) + 1, Len(b))
    <2>1. LastEnd(b) \in LineEnds(b) /\ LastEnd(b) \in 0..Len(b)
        BY <1>2 DEF LineEnds
    <2>2. g \in Seq(Bytes)
        BY <2>1
    <2>3. LinesOf(b) = LinesOf(SubSeq(b, 1, LastEnd(b))) \cup LinesOf(g) /\ LastEnd(b) = LastEnd(b) + LastEnd(g)
        BY <1>4, <2>1
    <2>. HIDE DEF g
    <2>4. LastEnd(g) = 0 /\ LineEnds(g) = {0}
        <3>1. LastEnd(g) \in LineEnds(g) /\ (\A k \in LineEnds(g) : k <= LastEnd(g))
                 /\ LineEnds(g) \subseteq Nat
            BY <1>2, <2>2 DEF LineEnds
        <3>. QED
            BY <2>1, <2>3, <3>1
    <2>5. LinesOf(g) = {}
        BY <2>4 DEF LinesOf
    <2>. QED
        BY <2>3, <2>5
<1>6. \A S \in SUBSET (0..Len(b)) : S # {} => Max(S) \in S /\ \A k \in S : k <= Max(S)
    <2>1. Len(b) \in Nat
        OBVIOUS
    <2>. QED
        BY <1>1, <2>1
<1>7. LastEnd(b) \in LineEnds(b) /\ \A k \in LineEnds(b) : k <= LastEnd(b)
    BY <1>2
<1>. QED
    BY <1>3, <1>4, <1>5, <1>6, <1>7

Entry    == [file : 0..MaxFiles, size : Nat, lines : SUBSET Seq(Bytes), cut : BOOLEAN]
Question == [step : {"idle", "waits", "sized", "decodes", "answered"}, file : 0..MaxFiles, size : Nat,
             mine : Entry, got : Seq(Bytes), kept : Nat,
             answer : [lines : SUBSET Seq(Bytes), tail : Seq(Bytes)], truth : Seq(Bytes),
             misled : BOOLEAN]

\* A query has a file open, and never kept more than it took.
SoundQuestion(a) ==
    /\ a.step \in {"waits", "sized", "decodes"} => a.file # 0
    /\ a.step \in {"waits", "sized"} => a.got = <<>>
    /\ a.step = "decodes" => a.mine.file = a.file /\ a.kept <= a.mine.size + Len(a.got)

LogCacheTypes ==
    /\ text \in [1..MaxFiles -> Seq(Bytes)] /\ named \in 1..MaxFiles
    /\ whole \in Nat /\ whole <= Len(text[named])
    /\ entryOf \in Entry
    /\ ask \in [Askers -> Question] /\ \A q \in Askers : SoundQuestion(ask[q])

\* An entry never cut and the bytes got past it are, as far as they are kept, the
\* beginning of the file, and the entry ends where a line of it does.
IsPrefixOf(b, e, got, kept) ==
    ~e.cut /\ e.size <= kept =>
        /\ kept <= Len(b)
        /\ EndsLine(b, e.size)
        /\ e.lines = LinesOf(SubSeq(b, 1, e.size))
        /\ \A k \in 1..(kept - e.size) : got[k] = b[e.size + k]

EntryIsPrefix == entryOf.file # 0 => IsPrefixOf(text[entryOf.file], entryOf, <<>>, entryOf.size)

\* What a query took is what it has noted of the log, unless it was misled.
TookTruth(a) ==
    ~a.misled =>
        /\ ~a.mine.cut
        /\ Len(a.truth) = a.mine.size + Len(a.got) /\ EndsLine(a.truth, a.mine.size)
        /\ a.mine.lines = LinesOf(SubSeq(a.truth, 1, a.mine.size))
        /\ a.got = SubSeq(a.truth, a.mine.size + 1, Len(a.truth))

QueryIsPrefix ==
    \A q \in Askers : ask[q].step = "decodes" =>
        IsPrefixOf(text[ask[q].file], ask[q].mine, ask[q].got, ask[q].kept) /\ TookTruth(ask[q])

LogCacheInv == LogCacheTypes /\ EntryIsPrefix /\ QueryIsPrefix /\ AnswerIsLog

\* A query is answered with what its log held at the last of its reads, but for the two
\* exceptions AnswerIsLog names.
THEOREM CacheAnswersLog == LogCacheSpec => []AnswerIsLog
<1>Smaller. \A a, b \in Nat : Min({a, b}) \in Nat /\ Min({a, b}) = (IF a <= b THEN a ELSE b)
    BY DEF Min
<1>Waits. ASSUME NEW r \in Question, NEW n \in 0..MaxFiles
          PROVE  LET w == [r EXCEPT !.step = "waits", !.file = n] IN
                 w \in Question /\ w.step = "waits" /\ w.file = n /\ w.got = r.got
    BY DEF Question
<1>. USE LogCacheAssumption
<1>0. /\ NoRows \in Entry /\ NoRows.file = 0 /\ NoRows.size = 0 /\ NoRows.lines = {} /\ ~NoRows.cut
      /\ Unasked \in Question /\ Unasked.step = "idle" /\ Unasked.got = <<>>
    BY DEF NoRows, Entry, Unasked, Question
<1>Q. \A r \in Question :
         /\ r.step \in {"idle", "waits", "sized", "decodes", "answered"} /\ r.file \in 0..MaxFiles
         /\ r.size \in Nat /\ r.mine \in Entry /\ r.got \in Seq(Bytes) /\ r.kept \in Nat
         /\ r.truth \in Seq(Bytes) /\ r.misled \in BOOLEAN
    BY DEF Question
<1>E. \A e \in Entry : e.file \in 0..MaxFiles /\ e.size \in Nat /\ e.lines \in SUBSET Seq(Bytes) /\ e.cut \in BOOLEAN
    BY DEF Entry
\* What is in a file up to m is in any that agrees with it up to m.
<1>Agree. ASSUME NEW s \in Seq(Bytes), NEW u \in Seq(Bytes), NEW e \in Entry, NEW got, NEW kept \in Nat,
                 NEW left \in Nat, IsPrefixOf(s, e, got, kept), left <= kept,
                 kept <= Len(s) => left <= Len(u) /\ \A i \in 1..left : u[i] = s[i]
          PROVE  IsPrefixOf(u, e, got, left)
    <2>. SUFFICES ASSUME ~e.cut, e.size <= left
                  PROVE  /\ left <= Len(u) /\ EndsLine(u, e.size)
                         /\ e.lines = LinesOf(SubSeq(u, 1, e.size))
                         /\ \A k \in 1..(left - e.size) : got[k] = u[e.size + k]
        BY DEF IsPrefixOf
    <2>1. e.size \in Nat /\ e.size <= kept
        BY <1>Agree DEF Entry
    <2>2. /\ kept <= Len(s) /\ EndsLine(s, e.size)
          /\ e.lines = LinesOf(SubSeq(s, 1, e.size))
          /\ \A k \in 1..(kept - e.size) : got[k] = s[e.size + k]
        BY <1>Agree, <2>1 DEF IsPrefixOf
    <2>3. left <= Len(u) /\ left <= Len(s) /\ \A i \in 1..left : u[i] = s[i]
        BY <1>Agree, <2>2
    <2>. DEFINE k == e.size
    <2>4. k \in Nat /\ k <= left
        BY <2>1
    <2>. HIDE DEF k
    <2>5. SubSeq(u, 1, k) = SubSeq(s, 1, k)
        BY <2>3, <2>4
    <2>6. EndsLine(u, k)
        <3>1. CASE k = 0
            BY <3>1 DEF EndsLine
        <3>2. CASE k # 0
            <4>1. k \in 1..left /\ k <= Len(u)
                BY <2>3, <2>4, <3>2
            <4>. QED
                BY <4>1, <3>2, <2>2, <2>3 DEF EndsLine, k
        <3>. QED
            BY <3>1, <3>2
    <2>7. ASSUME NEW i \in 1..(left - k) PROVE got[i] = u[k + i]
        <3>1. i \in 1..(kept - k) /\ k + i \in 1..left
            BY <2>4, <1>Agree
        <3>. QED
            BY <3>1, <2>2, <2>3 DEF k
    <2>. QED
        BY <2>2, <2>3, <2>5, <2>6, <2>7 DEF k
<1>1. LogCacheInit => LogCacheInv
    <2>. SUFFICES ASSUME LogCacheInit PROVE LogCacheInv
        OBVIOUS
    <2>1. text \in [1..MaxFiles -> Seq(Bytes)] /\ text[1] = <<>> /\ named = 1 /\ whole = 0
             /\ 1 \in 1..MaxFiles /\ entryOf = NoRows /\ \A q \in Askers : ask[q] = Unasked
        BY DEF LogCacheInit
    <2>2. ask \in [Askers -> Question]
        BY <1>0 DEF LogCacheInit
    <2>. QED
        BY <1>0, <2>1, <2>2
           DEF LogCacheInv, LogCacheTypes, SoundQuestion, EntryIsPrefix, QueryIsPrefix, AnswerIsLog
<1>2. ASSUME LogCacheInv, [LogCacheNext]_logCacheVars PROVE LogCacheInv'
    <2>. USE <1>2
    <2>1. LogCacheTypes /\ EntryIsPrefix /\ QueryIsPrefix /\ AnswerIsLog
        BY DEF LogCacheInv
    <2>2. text[named] \in Seq(Bytes) /\ Len(text[named]) \in Nat /\ entryOf \in Entry
          /\ \A q \in Askers : ask[q] \in Question /\ SoundQuestion(ask[q])
        BY <2>1 DEF LogCacheTypes
    <2>3. \A l \in LogLines : BytesOf(l) \in Seq(Bytes)
        <3>1. \A l \in LogLines : Length[l] \in Nat /\ BytesOf(l) \in [1..Length[l] -> Bytes]
            BY DEF BytesOf, Bytes
        <3>. QED
            BY <3>1
    <2>E. entryOf.file # 0 => text[entryOf.file] \in Seq(Bytes) /\ entryOf.size \in Nat
              /\ IsPrefixOf(text[entryOf.file], entryOf, <<>>, entryOf.size)
        BY <2>1 DEF LogCacheTypes, EntryIsPrefix, Entry
    <2>Q. ASSUME NEW q \in Askers, ask[q].step = "decodes"
          PROVE  /\ ask[q].file \in 1..MaxFiles /\ text[ask[q].file] \in Seq(Bytes)
                 /\ ask[q].mine \in Entry /\ ask[q].mine.size \in Nat /\ ask[q].mine.file = ask[q].file
                 /\ ask[q].kept \in Nat /\ ask[q].got \in Seq(Bytes) /\ ask[q].size \in Nat
                 /\ ask[q].kept <= ask[q].mine.size + Len(ask[q].got)
                 /\ IsPrefixOf(text[ask[q].file], ask[q].mine, ask[q].got, ask[q].kept)
                 /\ TookTruth(ask[q])
        <3>1. ask[q] \in Question /\ SoundQuestion(ask[q])
            BY <2>2
        <3>2. IsPrefixOf(text[ask[q].file], ask[q].mine, ask[q].got, ask[q].kept) /\ TookTruth(ask[q])
            BY <2>Q, <2>1 DEF QueryIsPrefix
        <3>3. ask[q].file \in 1..MaxFiles /\ ask[q].mine \in Entry /\ ask[q].got \in Seq(Bytes)
              /\ ask[q].kept \in Nat /\ ask[q].size \in Nat /\ ask[q].mine.file = ask[q].file
              /\ ask[q].kept <= ask[q].mine.size + Len(ask[q].got)
            BY <3>1, <2>Q, <1>Q DEF SoundQuestion
        <3>4. text[ask[q].file] \in Seq(Bytes) /\ ask[q].mine.size \in Nat
            BY <3>3, <2>1, <1>E DEF LogCacheTypes
        <3>. QED
            BY <3>2, <3>3, <3>4
    <2>4. ASSUME NEW logText \in Seq(Bytes), Lengthens(logText), UNCHANGED <<named, entryOf, ask>>,
                 whole' \in Nat, whole' <= Len(text'[named])
          PROVE  LogCacheInv'
        <3>1. text'[named] = text[named] \o logText /\ text' \in [1..MaxFiles -> Seq(Bytes)]
              /\ \A i \in 1..MaxFiles : i # named => text'[i] = text[i]
            BY <2>4, <2>1, <2>2 DEF Lengthens, LogCacheTypes
        <3>2. ASSUME NEW i \in 1..MaxFiles
              PROVE  /\ text[i] \in Seq(Bytes) /\ text'[i] \in Seq(Bytes)
                     /\ Len(text[i]) <= Len(text'[i]) /\ \A k \in 1..Len(text[i]) : text'[i][k] = text[i][k]
            BY <3>1, <2>1, <2>2 DEF LogCacheTypes
        <3>3. ASSUME NEW i \in 1..MaxFiles, NEW e \in Entry, NEW got, NEW kept \in Nat,
                     IsPrefixOf(text[i], e, got, kept)
              PROVE  IsPrefixOf(text'[i], e, got, kept)
            <4>. DEFINE s == text[i]
                        u == text'[i]
            <4>1. s \in Seq(Bytes) /\ u \in Seq(Bytes) /\ Len(s) <= Len(u) /\ \A k \in 1..Len(s) : u[k] = s[k]
                BY <3>2
            <4>2. IsPrefixOf(s, e, got, kept)
                BY <3>3
            <4>. HIDE DEF s, u
            <4>3. kept <= Len(s) => kept <= Len(u) /\ \A k \in 1..kept : u[k] = s[k]
                BY <4>1
            <4>. QED
                <5>1. IsPrefixOf(u, e, got, kept)
                    BY <4>1, <4>2, <4>3, <1>Agree
                <5>. QED
                    BY <5>1 DEF u
        <3>4. LogCacheTypes'
            BY <2>4, <2>1, <3>1 DEF LogCacheTypes
        <3>5. EntryIsPrefix'
            <4>1. SUFFICES ASSUME entryOf.file # 0
                           PROVE  IsPrefixOf(text'[entryOf.file], entryOf, <<>>, entryOf.size)
                BY <2>4 DEF EntryIsPrefix
            <4>2. entryOf.file \in 1..MaxFiles /\ entryOf.size \in Nat
                BY <4>1, <2>2, <1>E
            <4>. QED
                BY <4>1, <4>2, <2>2, <2>E, <3>3
        <3>6. QueryIsPrefix'
            BY <2>4, <2>Q, <3>3 DEF QueryIsPrefix
        <3>. QED
            BY <3>4, <3>5, <3>6, <2>1, <2>4 DEF LogCacheInv, AnswerIsLog
    <2>5. CASE AppendsLine
        <3>1. PICK l \in LogLines : Lengthens(BytesOf(l))
            BY <2>5 DEF AppendsLine, NewLinesOf
        <3>2. Len(text'[named]) \in Nat
            BY <3>1, <2>1, <2>2, <2>3 DEF Lengthens, LogCacheTypes
        <3>. QED
            BY <3>1, <3>2, <2>3, <2>4, <2>5 DEF AppendsLine
    <2>6. CASE FallsShort
        <3>1. PICK l \in LogLines, k \in LogLines, n \in 1..MaxBytesOfLog :
                 n < Length[l] + Length[k] /\ Lengthens(SubSeq(BytesOf(l) \o BytesOf(k), 1, n))
            BY <2>6 DEF FallsShort, NewLinesOf
        <3>2. SubSeq(BytesOf(l) \o BytesOf(k), 1, n) \in Seq(Bytes)
            <4>1. BytesOf(l) \o BytesOf(k) \in Seq(Bytes)
                     /\ Len(BytesOf(l) \o BytesOf(k)) = Length[l] + Length[k]
                <5>1. Len(BytesOf(l)) = Length[l] /\ Len(BytesOf(k)) = Length[k]
                    <6>1. DOMAIN BytesOf(l) = 1..Length[l] /\ DOMAIN BytesOf(k) = 1..Length[k]
                        BY DEF BytesOf
                    <6>. QED
                        BY <6>1, <2>3
                <5>2. BytesOf(l) \in Seq(Bytes) /\ BytesOf(k) \in Seq(Bytes)
                    BY <2>3
                <5>. QED
                    BY <5>1, <5>2
            <4>. QED
                BY <4>1, <3>1
        <3>3. UNCHANGED <<named, whole, entryOf, ask>>
            BY <2>6 DEF FallsShort
        <3>4. Len(text[named]) <= Len(text'[named]) /\ Len(text'[named]) \in Nat
            BY <3>1, <3>2, <2>1, <2>2 DEF Lengthens, LogCacheTypes
        <3>5. whole' \in Nat /\ whole' <= Len(text'[named])
            BY <3>3, <3>4, <2>1, <2>2 DEF LogCacheTypes
        <3>. QED
            BY <3>1, <3>2, <3>3, <3>5, <2>4
    <2>7. ASSUME NEW n \in Nat, n <= Len(text[named]), CutTo(n), UNCHANGED named PROVE LogCacheInv'
        <3>1. text'[named] = SubSeq(text[named], 1, n) /\ Len(text'[named]) = n
              /\ text' \in [1..MaxFiles -> Seq(Bytes)] /\ whole' = n
              /\ \A i \in 1..MaxFiles : i # named => text'[i] = text[i]
            BY <2>7, <2>1, <2>2 DEF CutTo, LogCacheTypes
        <3>2. entryOf'.file = entryOf.file /\ entryOf'.size = entryOf.size /\ entryOf'.lines = entryOf.lines
              /\ (entryOf'.cut <=> entryOf.cut \/ (entryOf.file = named /\ n < entryOf.size))
              /\ entryOf' \in Entry
            <4>. DEFINE c == entryOf.cut \/ (entryOf.file = named /\ n < entryOf.size)
            <4>1. entryOf' = [entryOf EXCEPT !.cut = c]
                BY <2>7 DEF CutTo
            <4>2. c \in BOOLEAN
                OBVIOUS
            <4>. HIDE DEF c
            <4>3. entryOf'.file = entryOf.file /\ entryOf'.size = entryOf.size /\ entryOf'.lines = entryOf.lines
                  /\ entryOf'.cut = c /\ entryOf' \in Entry
                BY <4>1, <4>2, <2>2 DEF Entry
            <4>. QED
                BY <4>3 DEF c
        <3>3. ASSUME NEW q \in Askers
              PROVE  LET a == ask[q]
                         b == ask'[q] IN
                     /\ b \in Question /\ SoundQuestion(b)
                     /\ b.step = a.step /\ b.file = a.file /\ b.mine = a.mine /\ b.got = a.got
                     /\ b.answer = a.answer /\ b.truth = a.truth /\ b.misled = a.misled
                     /\ b.kept = IF a.file = named THEN Min({a.kept, n}) ELSE a.kept
            <4>. DEFINE a == ask[q]
                        m == Min({a.kept, n})
            <4>1. ask'[q] = IF a.file = named THEN [a EXCEPT !.kept = m] ELSE a
                BY <2>7, Zenon DEF CutTo
            <4>2. a \in Question /\ SoundQuestion(a)
                BY <2>2
            <4>3. a.kept \in Nat
                BY <4>2 DEF Question
            <4>4. m \in Nat /\ m <= a.kept
                BY <4>3, <2>7, <1>Smaller
            <4>. DEFINE b == [a EXCEPT !.kept = m]
            <4>. HIDE DEF a, m
            <4>5. b \in Question /\ b.step = a.step /\ b.file = a.file /\ b.mine = a.mine /\ b.got = a.got
                     /\ b.answer = a.answer /\ b.truth = a.truth /\ b.misled = a.misled /\ b.kept = m
                BY <4>2, <4>4 DEF Question
            <4>6. a.mine.size \in Nat /\ Len(a.got) \in Nat
                BY <4>2 DEF Question, Entry
            <4>. HIDE DEF b
            <4>7. SoundQuestion(b)
                BY <4>2, <4>3, <4>4, <4>5, <4>6 DEF SoundQuestion
            <4>. QED
                BY <4>1, <4>2, <4>5, <4>7 DEF a, b, m
        <3>4. ASSUME NEW i \in 1..MaxFiles, NEW e \in Entry, NEW got, NEW kept \in Nat, NEW left \in Nat,
                     IsPrefixOf(text[i], e, got, kept), left <= kept, i = named => left <= n,
                     i # named => left = kept
              PROVE  IsPrefixOf(text'[i], e, got, left)
            <4>1. CASE i # named
                BY <3>1, <3>4, <4>1
            <4>2. CASE i = named
                <5>. DEFINE s == text[named]
                            u == SubSeq(s, 1, n)
                <5>1. s \in Seq(Bytes) /\ n <= Len(s) /\ IsPrefixOf(s, e, got, kept) /\ text'[i] = u
                    BY <2>2, <2>7, <3>1, <3>4, <4>2
                <5>. HIDE DEF s
                <5>2. u \in Seq(Bytes) /\ left <= Len(u) /\ \A k \in 1..left : u[k] = s[k]
                    BY <5>1, <2>7, <3>4, <4>2
                <5>. HIDE DEF u
                <5>3. IsPrefixOf(u, e, got, left)
                    BY <5>1, <5>2, <3>4, <1>Agree
                <5>. QED
                    BY <5>1, <5>3
            <4>. QED
                BY <4>1, <4>2
        <3>5. ask' \in [Askers -> Question]
            <4>1. DOMAIN ask' = Askers /\ ask' = [q \in Askers |-> ask'[q]]
                BY <2>7 DEF CutTo
            <4>. QED
                BY <3>3, <4>1
        <3>6. LogCacheTypes'
            <4>1. named' = named /\ \A q \in Askers : SoundQuestion(ask'[q])
                BY <3>3, <2>7
            <4>. QED
                BY <4>1, <3>1, <3>2, <3>5, <2>7, <2>1 DEF LogCacheTypes
        <3>7. EntryIsPrefix'
            <4>. SUFFICES ASSUME entryOf.file # 0, ~entryOf'.cut
                          PROVE  IsPrefixOf(text'[entryOf.file], entryOf', <<>>, entryOf.size)
                <5>1. EntryIsPrefix' = (entryOf'.file # 0
                         => IsPrefixOf(text'[entryOf'.file], entryOf', <<>>, entryOf'.size))
                    BY DEF EntryIsPrefix
                <5>2. entryOf'.cut => IsPrefixOf(text'[entryOf'.file], entryOf', <<>>, entryOf'.size)
                    BY DEF IsPrefixOf
                <5>. QED
                    BY <3>2, <5>1, <5>2
            <4>1. entryOf.file \in 1..MaxFiles /\ ~entryOf.cut
                  /\ (entryOf.file = named => entryOf.size <= n) /\ entryOf.size \in Nat
                BY <2>2, <2>7, <3>2 DEF Entry
            <4>. DEFINE f == entryOf.file
                        e == entryOf
                        m == entryOf.size
            <4>3. f \in 1..MaxFiles /\ e \in Entry /\ m \in Nat /\ m <= m /\ (f = named => m <= n)
                  /\ IsPrefixOf(text[f], e, <<>>, m)
                BY <2>2, <2>E, <4>1
            <4>4. IsPrefixOf(text'[f], e, <<>>, m)
                <5>. HIDE DEF f, e, m
                <5>. QED
                    BY <3>4, <4>3
            <4>2. IsPrefixOf(text'[entryOf.file], entryOf, <<>>, entryOf.size)
                BY <4>4
            <4>. QED
                BY <3>2, <4>1, <4>2 DEF IsPrefixOf
        <3>8. QueryIsPrefix'
            <4>1. SUFFICES ASSUME NEW q \in Askers, ask'[q].step = "decodes"
                           PROVE  /\ IsPrefixOf(text'[ask'[q].file], ask'[q].mine, ask'[q].got, ask'[q].kept)
                                  /\ TookTruth(ask'[q])
                BY DEF QueryIsPrefix
            <4>2. ask[q].step = "decodes"
                BY <3>3, <4>1
            <4>3. TookTruth(ask'[q])
                BY <2>Q, <3>3, <4>2 DEF TookTruth
            <4>. DEFINE left == ask'[q].kept
            <4>4. left \in Nat /\ left <= ask[q].kept /\ (ask[q].file = named => left <= n)
                  /\ (ask[q].file # named => left = ask[q].kept)
                <5>1. ask[q].kept \in Nat /\ left = IF ask[q].file = named THEN Min({ask[q].kept, n}) ELSE ask[q].kept
                    BY <2>Q, <3>3, <4>2
                <5>2. Min({ask[q].kept, n}) \in Nat /\ Min({ask[q].kept, n}) <= ask[q].kept
                      /\ Min({ask[q].kept, n}) <= n
                    BY <5>1, <2>7, <1>Smaller
                <5>. HIDE DEF left
                <5>. QED
                    BY <5>1, <5>2
            <4>. HIDE DEF left
            <4>5. IsPrefixOf(text'[ask[q].file], ask[q].mine, ask[q].got, left)
                BY <2>Q, <3>4, <4>2, <4>4
            <4>. QED
                BY <3>3, <4>3, <4>5 DEF left
        <3>9. AnswerIsLog'
            BY <3>3, <2>1 DEF AnswerIsLog
        <3>. QED
            BY <3>6, <3>7, <3>8, <3>9 DEF LogCacheInv
    <2>8. CASE CutsBack
        BY <2>1, <2>7, <2>8 DEF CutsBack, LogCacheTypes
    <2>9. CASE CutsTornLine
        <3>. DEFINE ends == { n \in whole..Len(text[named]) : EndsLine(text[named], n) }
        <3>1. ends \cup {0} \in SUBSET (0..Len(text[named])) /\ ends \cup {0} # {}
            BY <2>1, <2>2 DEF LogCacheTypes
        <3>2. CutTo(Max(ends \cup {0})) /\ UNCHANGED named
            BY <2>9 DEF CutsTornLine
        <3>. HIDE DEF ends
        <3>3. Max(ends \cup {0}) \in 0..Len(text[named])
            <4>1. Max(ends \cup {0}) \in ends \cup {0}
                BY <3>1, <2>2, LinesFacts
            <4>. QED
                BY <3>1, <4>1
        <3>. QED
            BY <3>2, <3>3, <2>2, <2>7
    <2>10. CASE Renames
        <3>1. named' \in 1..MaxFiles /\ UNCHANGED <<text, entryOf, ask>> /\ whole' = 0
            BY <2>10, <2>1 DEF Renames, LogCacheTypes
        <3>2. Len(text[named']) \in Nat
            BY <3>1, <2>1 DEF LogCacheTypes
        <3>. QED
            BY <3>1, <3>2, <2>1 DEF LogCacheInv, LogCacheTypes, EntryIsPrefix, QueryIsPrefix, AnswerIsLog
    \* A step of one query.
    <2>11. ASSUME NEW q \in Askers, NEW a \in Question, SoundQuestion(a),
                  a.step = "decodes" => IsPrefixOf(text[a.file], a.mine, a.got, a.kept) /\ TookTruth(a),
                  a.step = "answered" /\ ~a.misled => a.answer = Content(a.truth),
                  ask' = [ask EXCEPT ![q] = a], UNCHANGED <<text, named, whole>>,
                  entryOf' \in Entry, EntryIsPrefix'
           PROVE  LogCacheInv'
        <3>1. ask' \in [Askers -> Question] /\ \A p \in Askers : ask'[p] = IF p = q THEN a ELSE ask[p]
            BY <2>11, <2>1 DEF LogCacheTypes
        <3>2. LogCacheTypes'
            BY <3>1, <2>11, <2>1, <2>2 DEF LogCacheTypes
        <3>3. QueryIsPrefix'
            BY <3>1, <2>11, <2>1 DEF QueryIsPrefix
        <3>4. AnswerIsLog'
            BY <3>1, <2>11, <2>1 DEF AnswerIsLog
        <3>. QED
            BY <3>2, <3>3, <3>4, <2>11 DEF LogCacheInv
    <2>12. (UNCHANGED <<text, entryOf>> \/ (UNCHANGED text /\ entryOf' = NoRows))
              => entryOf' \in Entry /\ EntryIsPrefix'
        BY <1>0, <2>1, <2>2 DEF EntryIsPrefix
    <2>13. ASSUME NEW q \in Askers, Opens(q) \/ SizesLog(q) \/ DecodeFails(q) \/ AskerGoes(q)
           PROVE  LogCacheInv'
        <3>1. CASE Opens(q)
            <4>. DEFINE a == [Unasked EXCEPT !.step = "waits", !.file = named]
            <4>1. named \in 1..MaxFiles
                BY <2>1 DEF LogCacheTypes
            <4>2. a \in Question /\ a.step = "waits" /\ a.file # 0 /\ a.got = <<>>
                <5>1. Unasked \in Question /\ named \in 0..MaxFiles
                    BY <1>0, <4>1
                <5>2. named # 0
                    BY <4>1
                <5>. QED
                    BY <5>1, <5>2, <1>0, <1>Waits
            <4>3. ask' = [ask EXCEPT ![q] = a] /\ UNCHANGED <<text, named, whole, entryOf>>
                BY <3>1 DEF Opens, logFileVars
            <4>. HIDE DEF a
            <4>. QED
                BY <4>2, <4>3, <2>11, <2>12 DEF SoundQuestion
        <3>2. CASE SizesLog(q)
            <4>. DEFINE n == Len(text[ask[q].file])
                        a == [ask[q] EXCEPT !.step = "sized", !.size = n]
            <4>1. ask[q] \in Question /\ ask[q].file \in 1..MaxFiles /\ ask[q].got = <<>>
                BY <3>2, <2>2, <1>Q DEF SizesLog, SoundQuestion
            <4>2. n \in Nat
                BY <4>1, <2>1 DEF LogCacheTypes
            <4>3. ask' = [ask EXCEPT ![q] = a] /\ UNCHANGED <<text, named, whole, entryOf>>
                <5>1. ask' = [ask EXCEPT ![q].step = "sized", ![q].size = n] /\ UNCHANGED <<text, named, whole, entryOf>>
                    BY <3>2 DEF SizesLog, logFileVars
                <5>. HIDE DEF n
                <5>. QED
                    BY <5>1, <2>1, <4>1 DEF LogCacheTypes, Question
            <4>. HIDE DEF n
            <4>4. a \in Question /\ a.step = "sized" /\ a.file # 0 /\ a.got = <<>>
                <5>1. a \in Question /\ a.step = "sized" /\ a.file = ask[q].file /\ a.got = ask[q].got
                    BY <4>1, <4>2 DEF Question
                <5>. QED
                    BY <5>1, <4>1
            <4>. HIDE DEF a
            <4>. QED
                BY <4>3, <4>4, <2>11, <2>12 DEF SoundQuestion
        <3>3. CASE DecodeFails(q)
            <4>1. ask' = [ask EXCEPT ![q] = Unasked] /\ UNCHANGED <<text, named, whole>> /\ entryOf' = NoRows
                BY <3>3 DEF DecodeFails, logFileVars
            <4>. QED
                BY <4>1, <1>0, <2>11, <2>12 DEF SoundQuestion
        <3>4. CASE AskerGoes(q)
            <4>1. ask' = [ask EXCEPT ![q] = Unasked] /\ UNCHANGED <<text, named, whole, entryOf>>
                BY <3>4 DEF AskerGoes, logFileVars
            <4>. QED
                BY <4>1, <1>0, <2>11, <2>12 DEF SoundQuestion
        <3>. QED
            BY <2>13, <3>1, <3>2, <3>3, <3>4
    <2>14. ASSUME NEW q \in Askers, ChecksEntry(q) PROVE LogCacheInv'
        <3>. DEFINE f    == ask[q].file
                    now  == text[f]
                    mine == IF Usable(q) THEN entryOf ELSE [NoRows EXCEPT !.file = f]
                    k    == mine.size
                    upto == SubSeq(now, 1, k)
                    mis  == mine.cut /\ EndsLine(now, k)
                    a    == [ask[q] EXCEPT !.step = "decodes", !.mine = mine, !.kept = k,
                               !.truth = upto, !.misled = mis]
        <3>0. ask[q].step = "sized" /\ f \in 1..MaxFiles /\ ask[q] \in Question
            BY <2>14, <2>2 DEF ChecksEntry, Question, SoundQuestion
        <3>1. ask' = [ask EXCEPT ![q] = [@ EXCEPT !.step = "decodes", !.mine = mine, !.kept = k,
                        !.truth = upto, !.misled = mis]]
              /\ UNCHANGED <<text, named, whole>> /\ entryOf' = IF Usable(q) THEN entryOf ELSE NoRows
            BY <2>14, Zenon DEF ChecksEntry, logFileVars
        <3>2. now \in Seq(Bytes) /\ Len(now) \in Nat
            BY <3>0, <2>1 DEF LogCacheTypes
        <3>3. mine \in Entry /\ mine.file = f /\ k \in Nat
            <4>1. CASE Usable(q)
                BY <4>1, <2>2 DEF Usable, Entry
            <4>2. CASE ~Usable(q)
                BY <1>0, <4>2, <3>0 DEF Entry
            <4>. QED
                BY <4>1, <4>2
        <3>4. EndsLine(now, k) /\ k <= Len(now)
            <4>1. CASE Usable(q)
                BY <4>1, <3>2, <3>3 DEF Usable, EndsLine
            <4>2. CASE ~Usable(q)
                BY <1>0, <3>2, <4>2 DEF EndsLine, Entry
            <4>. QED
                BY <4>1, <4>2
        <3>5. IsPrefixOf(now, mine, <<>>, k)
            <4>1. CASE Usable(q)
                BY <4>1, <3>0, <2>E DEF Usable
            <4>2. CASE ~Usable(q)
                <5>1. mine.lines = {} /\ k = 0
                    BY <1>0, <4>2 DEF Entry
                <5>2. LinesOf(SubSeq(now, 1, k)) = {}
                    <6>. DEFINE b == SubSeq(now, 1, k)
                    <6>1. Len(b) = 0
                        BY <3>2, <5>1
                    <6>. HIDE DEF b
                    <6>2. LineEnds(b) = {0}
                        BY <6>1 DEF LineEnds, EndsLine
                    <6>3. LinesOf(b) = {}
                        BY <6>2 DEF LinesOf
                    <6>. QED
                        BY <6>3 DEF b
                <5>. HIDE DEF now, mine
                <5>. QED
                    BY <5>1, <5>2, <3>2, <3>4 DEF IsPrefixOf
            <4>. QED
                BY <4>1, <4>2
        <3>6. mis = mine.cut
            BY <3>3, <3>4 DEF Entry
        <3>. HIDE DEF now, mine, mis
        <3>7. upto \in Seq(Bytes) /\ Len(upto) = k /\ EndsLine(upto, k) /\ SubSeq(upto, 1, k) = upto
            <4>. DEFINE j == k
            <4>0. j \in Nat /\ j <= Len(now)
                BY <3>3, <3>4
            <4>. HIDE DEF j
            <4>. DEFINE u == SubSeq(now, 1, j)
            <4>1. u \in Seq(Bytes) /\ Len(u) = j /\ SubSeq(u, 1, j) = u /\ \A i \in 1..j : u[i] = now[i]
                BY <3>2, <4>0
            <4>. HIDE DEF u
            <4>2. EndsLine(u, j)
                <5>1. CASE j = 0
                    BY <5>1 DEF EndsLine
                <5>2. CASE j # 0
                    <6>1. j \in 1..j /\ EndsLine(now, j)
                        BY <5>2, <4>0, <3>4 DEF j
                    <6>. QED
                        BY <5>2, <6>1, <4>1, <4>0 DEF EndsLine
                <5>. QED
                    BY <5>1, <5>2
            <4>. QED
                BY <4>1, <4>2 DEF u, j
        <3>8. ask' = [ask EXCEPT ![q] = a]
            BY <3>1, <2>1 DEF LogCacheTypes
        <3>9. a \in Question /\ a.step = "decodes" /\ a.file = f /\ a.mine = mine /\ a.got = ask[q].got
              /\ a.kept = k /\ a.truth = upto /\ a.misled = mis
            <4>1. mis \in BOOLEAN
                BY <3>3, <3>6 DEF Entry
            <4>2. k \in Nat /\ mine \in Entry /\ upto \in Seq(Bytes)
                BY <3>3, <3>7
            <4>. HIDE DEF k, upto
            <4>. QED
                BY <3>0, <4>1, <4>2 DEF Question
        <3>10. ask[q].got = <<>>
            BY <3>0, <2>1, <2>2 DEF LogCacheTypes, SoundQuestion
        <3>. HIDE DEF a
        <3>11. TookTruth(a)
            <4>. SUFFICES ASSUME ~mis
                          PROVE  ~mine.cut /\ Len(upto) = k + Len(<<>>) /\ EndsLine(upto, k)
                                 /\ mine.lines = LinesOf(SubSeq(upto, 1, k)) /\ <<>> = SubSeq(upto, k + 1, Len(upto))
                <5>. HIDE DEF upto
                <5>. QED
                    BY <3>9, <3>10 DEF TookTruth
            <4>1. mine.lines = LinesOf(upto)
                BY <3>3, <3>5, <3>6 DEF IsPrefixOf
            <4>2. <<>> = SubSeq(upto, k + 1, Len(upto)) /\ Len(<<>>) = 0
                BY <3>3, <3>7
            <4>. HIDE DEF k, upto
            <4>3. k = k + Len(<<>>)
                BY <4>2, <3>3
            <4>. QED
                BY <3>6, <3>7, <4>1, <4>2, <4>3
        <3>12. SoundQuestion(a)
            BY <3>0, <3>3, <3>9, <3>10 DEF SoundQuestion
        <3>13. IsPrefixOf(text[a.file], a.mine, a.got, a.kept)
            BY <3>5, <3>9, <3>10 DEF now
        <3>14. entryOf' \in Entry /\ EntryIsPrefix'
            BY <3>1, <2>12
        <3>. QED
            BY <3>1, <3>8, <3>9, <3>11, <3>12, <3>13, <3>14, <2>11
    <2>15. ASSUME NEW q \in Askers, ReadsOn(q) PROVE LogCacheInv'
        <3>. DEFINE o    == ask[q]
                    now  == text[o.file]
                    pos   == o.mine.size + Len(o.got)
        <3>1. PICK n \in (pos + 1)..InReach(q) :
                 ask' = [ask EXCEPT ![q] =
                    [o EXCEPT !.got = @ \o SubSeq(now, pos + 1, n), !.kept = IF @ < pos THEN @ ELSE n,
                              !.truth = SubSeq(now, 1, n), !.misled = @ \/ o.kept < pos]]
            BY <2>15, Zenon DEF ReadsOn, TakenBy
        <3>2. o.step = "decodes" /\ UNCHANGED <<text, named, whole, entryOf>>
            BY <2>15 DEF ReadsOn, logFileVars
        <3>3. o \in Question /\ SoundQuestion(o) /\ now \in Seq(Bytes) /\ Len(now) \in Nat
              /\ o.mine \in Entry /\ o.mine.size \in Nat /\ o.got \in Seq(Bytes) /\ o.kept \in Nat
              /\ o.kept <= pos /\ IsPrefixOf(now, o.mine, o.got, o.kept) /\ TookTruth(o) /\ o.file # 0
              /\ o.mine.file = o.file /\ pos \in Nat /\ Len(o.got) \in Nat
            <4>1. o \in Question /\ SoundQuestion(o)
                BY <2>2
            <4>2. o.file \in 1..MaxFiles /\ now \in Seq(Bytes) /\ o.mine \in Entry /\ o.mine.size \in Nat
                  /\ o.mine.file = o.file /\ o.kept \in Nat /\ o.got \in Seq(Bytes) /\ o.kept <= pos
                  /\ IsPrefixOf(now, o.mine, o.got, o.kept) /\ TookTruth(o)
                BY <3>2, <2>Q
            <4>. HIDE DEF o, now
            <4>. QED
                BY <4>1, <4>2
        <3>4. n \in Nat /\ pos < n /\ n <= Len(now)
            <4>1. InReach(q) \in Nat /\ InReach(q) <= Len(now)
                <5>1. o.size \in Nat /\ InReach(q) = Min({o.size, Len(now)})
                    BY <3>3, <1>Q DEF InReach
                <5>. DEFINE z == o.size
                            len == Len(now)
                <5>2. z \in Nat /\ len \in Nat /\ InReach(q) = Min({z, len})
                    BY <5>1, <3>3
                <5>. HIDE DEF z, len
                <5>3. Min({z, len}) \in Nat /\ Min({z, len}) <= len
                    BY <5>2, <1>Smaller
                <5>. QED
                    BY <5>2, <5>3 DEF len
            <4>. QED
                BY <3>1, <3>3, <4>1
        <3>. DEFINE got2  == o.got \o SubSeq(now, pos + 1, n)
                    kept2 == IF o.kept < pos THEN o.kept ELSE n
                    upto  == SubSeq(now, 1, n)
                    mis   == o.misled \/ o.kept < pos
                    a     == [o EXCEPT !.got = got2, !.kept = kept2, !.truth = upto, !.misled = mis]
        <3>5. ask' = [ask EXCEPT ![q] = a]
            <4>1. [o EXCEPT !.got = @ \o SubSeq(now, pos + 1, n), !.kept = IF @ < pos THEN @ ELSE n,
                            !.truth = upto, !.misled = @ \/ o.kept < pos] = a
                BY <3>3 DEF Question
            <4>. HIDE DEF a
            <4>. QED
                BY <3>1, <4>1
        <3>. DEFINE k == o.mine.size
                    g == o.got
        <3>. HIDE DEF now, o
        <3>6. got2 \in Seq(Bytes) /\ k + Len(got2) = n /\ upto \in Seq(Bytes) /\ Len(upto) = n
              /\ (\A i \in 1..Len(g) : got2[i] = g[i])
              /\ (\A i \in 1..(n - k) : Len(g) < i => got2[i] = now[k + i])
              /\ (\A i \in 1..n : upto[i] = now[i])
            <4>. DEFINE p == pos + 1
                        t == SubSeq(now, p, n)
            <4>1. t \in Seq(Bytes) /\ Len(t) = n - pos /\ \A i \in 1..(n - pos) : t[i] = now[pos + i]
                BY <3>3, <3>4
            <4>. HIDE DEF t
            <4>2. got2 = g \o t /\ g \in Seq(Bytes) /\ pos = k + Len(g) /\ k \in Nat /\ Len(g) \in Nat
                BY <3>3 DEF t
            <4>. HIDE DEF got2, pos, g, k
            <4>9. pos \in Nat /\ n \in Nat /\ n - pos \in Nat
                BY <4>2, <3>4
            <4>3. got2 \in Seq(Bytes) /\ Len(got2) = Len(g) + (n - pos)
                  /\ (\A i \in 1..Len(g) : got2[i] = g[i])
                  /\ (\A i \in 1..(n - pos) : got2[Len(g) + i] = t[i])
                <5>1. Len(t) = n - pos /\ t \in Seq(Bytes)
                    BY <4>1
                <5>. DEFINE m == n - pos
                <5>2. m \in Nat /\ Len(t) = m
                    BY <4>9, <5>1
                <5>3. got2 \in Seq(Bytes) /\ Len(got2) = Len(g) + Len(t)
                      /\ (\A i \in 1..Len(g) : got2[i] = g[i])
                      /\ (\A i \in 1..Len(t) : got2[Len(g) + i] = t[i])
                    BY <4>2, <5>1
                <5>. QED
                    BY <5>1, <5>3
            <4>4. ASSUME NEW i \in 1..(n - k), Len(g) < i PROVE got2[i] = now[k + i]
                <5>. DEFINE j == i - Len(g)
                <5>1. j \in 1..(n - pos) /\ Len(g) + j = i /\ pos + j = k + i
                    BY <4>2, <4>4, <3>4
                <5>. HIDE DEF j
                <5>. QED
                    BY <4>1, <4>3, <5>1
            <4>5. k + Len(got2) = n
                BY <4>2, <4>3, <3>4
            <4>6. upto \in Seq(Bytes) /\ Len(upto) = n /\ \A i \in 1..n : upto[i] = now[i]
                BY <3>3, <3>4
            <4>. HIDE DEF upto
            <4>. QED
                BY <4>3, <4>4, <4>5, <4>6
        <3>7. kept2 \in Nat /\ kept2 <= n
            BY <3>3, <3>4
        <3>8. a \in Question /\ a.step = "decodes" /\ a.file = o.file /\ a.mine = o.mine /\ a.got = got2
              /\ a.kept = kept2 /\ a.truth = upto /\ a.misled = mis
            <4>1. mis \in BOOLEAN
                BY <3>3 DEF Question
            <4>. HIDE DEF mis, got2, kept2, upto
            <4>. QED
                BY <3>2, <3>3, <3>6, <3>7, <4>1 DEF Question, o
        <3>. HIDE DEF a, got2, upto
        <3>9. ASSUME ~o.mine.cut, k <= o.kept
              PROVE  /\ EndsLine(now, k) /\ o.mine.lines = LinesOf(SubSeq(now, 1, k))
                     /\ \A i \in 1..(o.kept - k) : g[i] = now[k + i]
            BY <3>3, <3>9 DEF IsPrefixOf
        <3>10. IsPrefixOf(now, o.mine, got2, kept2)
            <4>1. SUFFICES ASSUME ~o.mine.cut, k <= kept2
                           PROVE  /\ kept2 <= Len(now) /\ EndsLine(now, k)
                                  /\ o.mine.lines = LinesOf(SubSeq(now, 1, k))
                                  /\ \A i \in 1..(kept2 - k) : got2[i] = now[k + i]
                BY DEF IsPrefixOf
            <4>2. k \in Nat /\ Len(g) \in Nat /\ pos = k + Len(g) /\ k <= o.kept /\ o.kept \in Nat /\ o.kept <= pos
                BY <3>3, <4>1
            <4>3. EndsLine(now, k) /\ o.mine.lines = LinesOf(SubSeq(now, 1, k))
                  /\ \A i \in 1..(o.kept - k) : g[i] = now[k + i]
                BY <3>9, <4>1, <4>2
            <4>. HIDE DEF k, g, pos
            <4>4. ASSUME NEW i \in 1..(kept2 - k) PROVE got2[i] = now[k + i]
                <5>1. CASE i <= Len(g)
                    <6>1. i \in 1..(o.kept - k) /\ i \in 1..Len(g)
                        BY <4>2, <5>1, <3>4
                    <6>. QED
                        BY <6>1, <4>3, <3>6
                <5>2. CASE Len(g) < i
                    <6>1. i \in 1..(n - k)
                        BY <4>2, <3>7, <3>4
                    <6>. QED
                        BY <6>1, <5>2, <3>6
                <5>. QED
                    BY <4>2, <5>1, <5>2, <3>7
            <4>5. kept2 <= Len(now)
                BY <3>3, <3>4, <3>7
            <4>. QED
                BY <4>3, <4>4, <4>5
        <3>11. TookTruth(a)
            <4>1. SUFFICES ASSUME ~o.misled, ~(o.kept < pos)
                           PROVE  /\ ~o.mine.cut /\ Len(upto) = k + Len(got2) /\ EndsLine(upto, k)
                                  /\ o.mine.lines = LinesOf(SubSeq(upto, 1, k))
                                  /\ got2 = SubSeq(upto, k + 1, Len(upto))
                BY <3>8 DEF TookTruth
            <4>2. ~o.mine.cut /\ k \in Nat /\ Len(g) \in Nat /\ pos = k + Len(g) /\ k <= o.kept /\ o.kept = pos
                BY <3>3, <4>1 DEF TookTruth
            <4>3. EndsLine(now, k) /\ o.mine.lines = LinesOf(SubSeq(now, 1, k))
                  /\ \A i \in 1..(o.kept - k) : g[i] = now[k + i]
                BY <3>9, <4>2
            <4>. HIDE DEF k, g, pos
            <4>4. k < n \/ k = n
                BY <4>2, <3>4
            <4>5. SubSeq(upto, 1, k) = SubSeq(now, 1, k)
                BY <4>2, <4>4, <3>3, <3>4, <3>6
            <4>6. EndsLine(upto, k)
                <5>1. CASE k = 0
                    BY <5>1 DEF EndsLine
                <5>2. CASE k # 0
                    <6>1. k \in 1..n
                        BY <4>2, <4>4, <5>2, <3>4
                    <6>. QED
                        BY <5>2, <6>1, <4>3, <3>6 DEF EndsLine
                <5>. QED
                    BY <5>1, <5>2
            <4>7. ASSUME NEW i \in 1..(n - k) PROVE got2[i] = upto[k + i]
                <5>1. k + i \in 1..n /\ upto[k + i] = now[k + i]
                    BY <4>2, <3>4, <3>6
                <5>2. CASE i <= Len(g)
                    <6>1. i \in 1..(o.kept - k) /\ i \in 1..Len(g)
                        BY <4>2, <5>2
                    <6>. QED
                        BY <5>1, <6>1, <4>3, <3>6
                <5>3. CASE Len(g) < i
                    BY <5>1, <5>3, <3>6
                <5>. QED
                    BY <4>2, <5>2, <5>3
            <4>8. got2 = SubSeq(upto, k + 1, Len(upto))
                <5>. DEFINE j == k + 1
                            u == SubSeq(upto, j, n)
                <5>1. u \in Seq(Bytes) /\ Len(u) = n - k /\ \A i \in 1..(n - k) : u[i] = upto[k + i]
                    BY <3>4, <3>6, <4>2, <4>4
                <5>. HIDE DEF u
                <5>2. Len(got2) = n - k /\ got2 \in Seq(Bytes)
                    BY <3>4, <3>6, <4>2
                <5>3. got2 = u
                    BY <4>7, <5>1, <5>2
                <5>. QED
                    BY <5>3, <3>6 DEF u
            <4>. QED
                BY <4>2, <4>3, <4>5, <4>6, <4>8, <3>6
        <3>12. SoundQuestion(a)
            BY <3>3, <3>6, <3>7, <3>8 DEF SoundQuestion
        <3>13. IsPrefixOf(text[a.file], a.mine, a.got, a.kept)
            BY <3>8, <3>10 DEF now
        <3>14. entryOf' \in Entry /\ EntryIsPrefix'
            BY <3>2, <2>12
        <3>. QED
            BY <3>2, <3>5, <3>8, <3>11, <3>12, <3>13, <3>14, <2>11
    <2>16. ASSUME NEW q \in Askers, Answers(q) PROVE LogCacheInv'
        <3>. DEFINE o   == ask[q]
                    now == text[o.file]
                    k   == o.mine.size
                    g   == o.got
                    d   == LastEnd(g)
                    end == k + d
                    all == o.mine.lines \cup LinesOf(g)
                    cut2 == o.mine.cut \/ o.kept < end
                    new == [o.mine EXCEPT !.size = end, !.lines = all, !.cut = cut2]
                    ans == [lines |-> all, tail |-> Content(g).tail]
                    a   == [Unasked EXCEPT !.step = "answered", !.truth = o.truth, !.misled = o.misled,
                              !.answer = ans]
        <3>1. o.step = "decodes" /\ UNCHANGED <<text, named, whole>>
              /\ entryOf' = (IF end > k \/ k = 0 THEN [o.mine EXCEPT !.size = end, !.lines = @ \cup LinesOf(g),
                                 !.cut = @ \/ o.kept < end] ELSE entryOf)
            BY <2>16, Zenon DEF Answers, logFileVars
        <3>2. o \in Question /\ now \in Seq(Bytes) /\ Len(now) \in Nat
              /\ o.mine \in Entry /\ k \in Nat /\ g \in Seq(Bytes) /\ o.kept \in Nat
              /\ IsPrefixOf(now, o.mine, g, o.kept) /\ TookTruth(o) /\ o.file \in 1..MaxFiles
              /\ o.mine.file = o.file
            BY <3>1, <2>2, <2>Q
        <3>3. d \in 0..Len(g) /\ EndsLine(g, d) /\ end \in Nat /\ LinesOf(g) \subseteq Seq(Bytes)
              /\ LinesOf(SubSeq(g, 1, d)) = LinesOf(g)
            <4>1. d \in LineEnds(g) /\ LinesOf(g) \subseteq Seq(Bytes) /\ LinesOf(SubSeq(g, 1, d)) = LinesOf(g)
                BY <3>2, LinesFacts
            <4>. QED
                BY <3>2, <4>1 DEF LineEnds
        <3>4. all \in SUBSET Seq(Bytes) /\ cut2 \in BOOLEAN /\ Content(g).tail \in Seq(Bytes)
            <4>1. SubSeq(g, d + 1, Len(g)) \in Seq(Bytes)
                <5>. HIDE DEF d, g
                <5>. QED
                    BY <3>2, <3>3
            <4>. QED
                BY <3>2, <3>3, <4>1 DEF Entry, Content
        <3>5. new \in Entry /\ new.file = o.file /\ new.size = end /\ new.lines = all /\ new.cut = cut2
              /\ entryOf' = (IF end > k \/ k = 0 THEN new ELSE entryOf)
            <4>1. entryOf' = (IF end > k \/ k = 0 THEN new ELSE entryOf)
                BY <3>1
            <4>. HIDE DEF end, all, cut2, o
            <4>. QED
                BY <3>2, <3>3, <3>4, <4>1 DEF Entry
        <3>6. ask' = [ask EXCEPT ![q] = a]
            <4>1. ask' = [ask EXCEPT ![q] =
                     [Unasked EXCEPT !.step = "answered", !.truth = o.truth, !.misled = o.misled,
                        !.answer = [lines |-> new.lines, tail |-> Content(g).tail]]]
                BY <2>16, Zenon DEF Answers
            <4>. QED
                BY <4>1, <3>5
        <3>. HIDE DEF new
        <3>7. a \in Question /\ a.step = "answered" /\ a.truth = o.truth /\ a.misled = o.misled /\ a.answer = ans
            <4>1. o.truth \in Seq(Bytes) /\ o.misled \in BOOLEAN
                BY <3>2 DEF Question
            <4>2. ans \in [lines : SUBSET Seq(Bytes), tail : Seq(Bytes)]
                BY <3>4
            <4>. HIDE DEF ans, o
            <4>. QED
                BY <1>0, <4>1, <4>2 DEF Question
        <3>. HIDE DEF a
        <3>8. ~o.misled => ans = Content(o.truth)
            <4>. SUFFICES ASSUME ~o.misled PROVE ans = Content(o.truth)
                OBVIOUS
            <4>. DEFINE t == o.truth
            <4>1. /\ Len(t) = k + Len(g) /\ EndsLine(t, k) /\ t \in Seq(Bytes)
                  /\ o.mine.lines = LinesOf(SubSeq(t, 1, k)) /\ g = SubSeq(t, k + 1, Len(t))
                BY <3>2 DEF TookTruth, Question
            <4>2. k \in LineEnds(t)
                <5>1. k \in 0..Len(t)
                    BY <3>2, <4>1
                <5>. HIDE DEF t, k
                <5>. QED
                    BY <4>1, <5>1 DEF LineEnds
            <4>3. LinesOf(t) = LinesOf(SubSeq(t, 1, k)) \cup LinesOf(SubSeq(t, k + 1, Len(t)))
                  /\ Content(t).tail = Content(SubSeq(t, k + 1, Len(t))).tail
                <5>. HIDE DEF t, k
                <5>. QED
                    BY <4>1, <4>2, LinesFacts
            <4>4. LinesOf(t) = all /\ Content(t).tail = Content(g).tail
                BY <4>1, <4>3
            <4>5. Content(t) = [lines |-> LinesOf(t), tail |-> Content(t).tail]
                BY DEF Content
            <4>. QED
                BY <4>4, <4>5
        <3>9. ASSUME ~cut2 PROVE IsPrefixOf(now, new, <<>>, end)
            <4>. HIDE DEF now
            <4>1. ~o.mine.cut /\ k <= o.kept /\ end <= o.kept
                BY <3>9, <3>2, <3>3
            <4>2. o.kept <= Len(now) /\ EndsLine(now, k) /\ o.mine.lines = LinesOf(SubSeq(now, 1, k))
                  /\ \A i \in 1..(o.kept - k) : g[i] = now[k + i]
                BY <4>1, <3>2 DEF IsPrefixOf
            <4>. DEFINE w  == SubSeq(now, 1, end)
                        g2 == SubSeq(g, 1, d)
            <4>. HIDE DEF o, k, g, d, end
            <4>3. end = k + d /\ k \in Nat /\ d \in 0..Len(g) /\ end \in Nat /\ end <= Len(now)
                  /\ g \in Seq(Bytes) /\ now \in Seq(Bytes) /\ o.kept \in Nat
                BY <3>2, <3>3, <4>1, <4>2 DEF end
            <4>4. w \in Seq(Bytes) /\ Len(w) = end /\ (\A i \in 1..end : w[i] = now[i])
                  /\ SubSeq(w, 1, k) = SubSeq(now, 1, k)
                BY <4>3
            <4>5. g2 \in Seq(Bytes) /\ Len(g2) = d /\ \A i \in 1..d : g2[i] = g[i]
                BY <4>3
            <4>. HIDE DEF w, g2
            <4>6. ASSUME NEW i \in 1..d PROVE g[i] = now[k + i] /\ k + i \in 1..end
                BY <4>1, <4>2, <4>3
            <4>7. g2 = SubSeq(w, k + 1, Len(w))
                <5>. DEFINE j == k + 1
                            u == SubSeq(w, j, end)
                <5>1. u \in Seq(Bytes) /\ Len(u) = d /\ \A i \in 1..d : u[i] = w[k + i]
                    BY <4>3, <4>4
                <5>. HIDE DEF u
                <5>2. \A i \in 1..d : g2[i] = u[i]
                    BY <4>4, <4>5, <4>6, <5>1
                <5>3. g2 = u
                    BY <4>5, <5>1, <5>2
                <5>. QED
                    BY <5>3, <4>4 DEF u
            <4>8. k \in LineEnds(w)
                <5>1. CASE k = 0
                    BY <5>1, <4>3, <4>4 DEF LineEnds, EndsLine
                <5>2. CASE k # 0
                    <6>1. k \in 1..end
                        BY <5>2, <4>3
                    <6>. QED
                        BY <5>2, <6>1, <4>2, <4>3, <4>4 DEF LineEnds, EndsLine
                <5>. QED
                    BY <5>1, <5>2
            <4>9. LinesOf(w) = LinesOf(SubSeq(w, 1, k)) \cup LinesOf(SubSeq(w, k + 1, Len(w)))
                BY <4>4, <4>8, LinesFacts
            <4>10. LinesOf(g2) = LinesOf(g)
                BY <3>3 DEF g2, d, g
            <4>11. all = LinesOf(w)
                BY <4>2, <4>4, <4>7, <4>9, <4>10 DEF k, g
            <4>12. EndsLine(now, end)
                <5>1. CASE d = 0
                    BY <5>1, <4>2, <4>3
                <5>2. CASE d # 0
                    <6>1. d \in 1..d /\ end # 0
                        BY <5>2, <4>3
                    <6>2. EndsLine(g, d)
                        BY <3>3 DEF d, g
                    <6>. QED
                        BY <5>2, <6>1, <6>2, <4>3, <4>6 DEF EndsLine
                <5>. QED
                    BY <5>1, <5>2
            <4>13. \A i \in 1..(end - end) : <<>>[i] = now[end + i]
                BY <4>3
            <4>. QED
                BY <3>5, <4>3, <4>11, <4>12, <4>13 DEF IsPrefixOf, w, end, k, d, g
        <3>10. EntryIsPrefix' /\ entryOf' \in Entry
            <4>1. CASE end > k \/ k = 0
                <5>1. entryOf' = new /\ text' = text
                    BY <4>1, <3>1, <3>5
                <5>2. IsPrefixOf(now, new, <<>>, end)
                    BY <3>5, <3>9 DEF IsPrefixOf
                <5>. QED
                    BY <5>1, <5>2, <3>5 DEF EntryIsPrefix
            <4>2. CASE ~(end > k \/ k = 0)
                BY <4>2, <3>1, <3>5, <2>12
            <4>. QED
                BY <4>1, <4>2
        <3>11. SoundQuestion(a)
            BY <3>7 DEF SoundQuestion
        <3>. HIDE DEF ans
        <3>. QED
            BY <3>1, <3>6, <3>7, <3>8, <3>10, <3>11, <2>11
    <2>17. CASE EntryGoes \/ UNCHANGED logCacheVars
        <3>1. UNCHANGED <<text, named, whole, ask>> /\ (entryOf' = entryOf \/ entryOf' = NoRows)
            BY <2>17 DEF EntryGoes, logCacheVars, logFileVars
        <3>2. entryOf' \in Entry /\ EntryIsPrefix'
            BY <3>1, <2>12
        <3>. QED
            BY <3>1, <3>2, <2>1 DEF LogCacheInv, LogCacheTypes, QueryIsPrefix, AnswerIsLog
    <2>. QED
        BY <2>5, <2>6, <2>8, <2>9, <2>10, <2>13, <2>14, <2>15, <2>16, <2>17 DEF LogCacheNext
<1>3. LogCacheInv => AnswerIsLog
    BY DEF LogCacheInv
<1>. QED
    BY <1>1, <1>2, <1>3, PTL DEF LogCacheSpec

-----------------------------------------------------------------------------
(* The derived files.                                                      *)

\* The lots that may be in a file of key k, and the keys there are.
LotsAt(k) == { l \in Lots : Day(l) = k \/ Month(Day(l)[1]) = k }
Keys      == { Day(l) : l \in Lots } \cup { Month(m) : m \in Months }

\* A file holds lots of its own day or month, and dates from a pass begun.
FilesOfTheirOwn ==
    /\ passes \in Nat /\ date \in Nat /\ DOMAIN folded = Folded
    /\ \A f \in DOMAIN eventFiles : f.of \in Keys
    /\ logged \subseteq Lots
    /\ \A f \in DOMAIN eventFiles :
          eventFiles[f].holds \subseteq LotsAt(f.of) /\ eventFiles[f].at \in Nat
             /\ eventFiles[f].at <= passes
    /\ \A k \in DOMAIN sessions :
          sessions[k].holds \subseteq LotsAt(k) /\ sessions[k].at \in Nat /\ sessions[k].at <= passes
    /\ \A x \in Folded : folded[x].at \in Int /\ folded[x].at <= passes
    /\ \A x \in Folded : folded[x].at = -1 => folded[x].holds = {}

\* Until the pass derives, what it writes is newer than all derived files.
NewerThanDerived ==
    work \in {"dumps", "months"} =>
        /\ \A k \in DOMAIN sessions : sessions[k].at < passes
        /\ \A x \in Folded : folded[x].at < passes
DueIsOlder ==
    work \in {"sessions", "folds"} => \A x \in dueFolds \cap Folded : folded[x].at < passes

\* What is due is shown, and no file changes before it is written.
DueIsShown == work = "sessions" => due \subseteq KeysOf(Shown)

\* A session file has the lots of every file it is no older than, and, while
\* it is current and its month is kept, no others.
SessionsCover ==
    \A k \in DOMAIN sessions : \A f \in FilesNamed(k) :
        eventFiles[f].at <= sessions[k].at => eventFiles[f].holds \subseteq sessions[k].holds
SessionsExact ==
    \A k \in DOMAIN sessions :
        k \in KeysOf(Shown) /\ SessionIsCurrent(k) /\ ~Outlived(k[1])
           => sessions[k].holds \subseteq Held(ShownOf(k))

\* The same of the folded files, but for what was deleted.
FoldsCover ==
    \A x \in Folded : \A f \in Shown :
        eventFiles[f].at <= folded[x].at => eventFiles[f].holds \subseteq folded[x].holds
FoldsKeepGone ==
    \A x \in Folded : folded[x].holds \subseteq Held(Shown) \cup gone \cup lapsed

\* A pass that deleted a month writes both again, or notes what it leaves.
FoldsRenewed ==
    work \in {"sessions", "folds"} =>
        /\ dueFolds = {} /\ (Shown # {} \/ work = "folds") =>
              \A x \in Folded : folded[x].holds \subseteq Held(Shown) \cup lapsed
        /\ dueFolds # {} => \A x \in Folded \ dueFolds :
              folded[x].at \in {-1, passes} => folded[x].holds \subseteq Held(Shown)

DerivedInv ==
    /\ FilesOfTheirOwn /\ NewerThanDerived /\ DueIsOlder /\ DueIsShown /\ SessionsCover /\ SessionsExact
    /\ FoldsCover /\ FoldsKeepGone /\ FoldsRenewed

\* Whenever a reader lists the files, a derived file it takes for current stands for
\* the events files it lists and for nothing else.
THEOREM DerivedFilesAgree == DerivedSpec => []DerivedAgree
<1>1. /\ \A l \in Lots : Day(l)[1] \in Months /\ \A m : Day(l) # Month(m)
      /\ \A m : Month(m)[1] = m
      /\ Months \subseteq Nat
    <2>1. ASSUME NEW l \in Lots, NEW m PROVE Day(l) # Month(m)
        <3>1. DayOfLot[l] \in (Nat \ {0}) \X (Nat \ {0})
            BY DerivedAssumption
        <3>2. PICK a \in Nat, b \in Nat : DayOfLot[l] = <<a, b>>
            BY <3>1
        <3>3. Len(<<a, b>>) = 2 /\ Len(<<m>>) = 1
            OBVIOUS
        <3>. QED
            BY <3>2, <3>3 DEF Day, Month
    <2>. QED
        BY <2>1, DerivedAssumption DEF Day, Month, Months
<1>2. \A k \in Keys : k[1] \in Months
    BY <1>1 DEF Keys
<1>3. DerivedInit => DerivedInv
    <2>. SUFFICES ASSUME DerivedInit PROVE DerivedInv
        OBVIOUS
    <2>1. DOMAIN eventFiles = {} /\ DOMAIN sessions = {} /\ \A x \in Folded : folded[x] = NoFile
        BY DEF DerivedInit
    <2>2. Shown = {} /\ \A x \in Folded : folded[x].at = -1 /\ folded[x].holds = {}
        BY <2>1 DEF Shown, NoFile
    <2>3. FilesOfTheirOwn
        BY <2>1, <2>2 DEF DerivedInit, FilesOfTheirOwn
    <2>. QED
        BY <2>1, <2>2, <2>3
           DEF DerivedInit, DerivedInv, NewerThanDerived, DueIsShown, SessionsCover,
           SessionsExact, FoldsCover, FoldsKeepGone, FoldsRenewed, DueIsOlder
<1>4. ASSUME DerivedInv, [DerivedNext]_derivedVars PROVE DerivedInv'
    <2>. USE <1>4 DEF DerivedInv
    <2>1. ASSUME eventFiles' = eventFiles
          PROVE  /\ Shown' = Shown /\ Held(Shown)' = Held(Shown)
                 /\ \A k : FilesNamed(k)' = FilesNamed(k) /\ ShownOf(k)' = ShownOf(k)
                 /\ \A k : Held(ShownOf(k))' = Held(ShownOf(k))
        BY <2>1 DEF Shown, Held, ShownOf, FilesNamed, IsMerged
    \* A step that changes no file.
    <2>2. ASSUME UNCHANGED <<eventFiles, tableVars>>, date' \in Nat, date <= date',
                 passes' \in Nat, passes <= passes', logged' \subseteq Lots
          PROVE  FilesOfTheirOwn' /\ SessionsCover' /\ SessionsExact' /\ FoldsCover'
        <3>. USE <2>2 DEF tableVars
        <3>1. FilesOfTheirOwn'
            BY DEF FilesOfTheirOwn
        <3>2. SessionsCover'
            BY <2>1 DEF SessionsCover
        <3>3. \A k \in KeysOf(Shown) : Outlived(k[1]) => Outlived(k[1])'
            <4>1. \A k \in KeysOf(Shown) : k[1] \in Nat
                BY <1>1, <1>2 DEF KeysOf, Shown, FilesOfTheirOwn
            <4>. QED
                BY <4>1, DerivedAssumption DEF Outlived, FilesOfTheirOwn
        <3>4. \A k : SessionIsCurrent(k)' <=> SessionIsCurrent(k)
            BY <2>1 DEF SessionIsCurrent, Current
        <3>5. KeysOf(Shown)' = KeysOf(Shown)
            BY <2>1 DEF KeysOf
        <3>6. SessionsExact'
            BY <2>1, <3>3, <3>4, <3>5 DEF SessionsExact
        <3>7. FoldsCover'
            BY <2>1 DEF FoldsCover
        <3>. QED
            BY <3>1, <3>2, <3>6, <3>7
    \* A step of the dumps or months, which changes files and nothing derived.
    <2>3. ASSUME work \in {"dumps", "months"}, UNCHANGED <<tableVars, passes, date, lapsed>>,
                 work' \in {"dumps", "months"}, logged' \subseteq Lots,
                 \A f \in DOMAIN eventFiles' :
                    \/ f \in DOMAIN eventFiles /\ eventFiles'[f] = eventFiles[f]
                    \/ /\ f.of \in Keys /\ eventFiles'[f].at = passes
                       /\ eventFiles'[f].holds \subseteq LotsAt(f.of),
                 \A f \in Shown' : f \in Shown \/ eventFiles'[f].at = passes,
                 \A k \in KeysOf(Shown)' : Outlived(k[1]) \/ ShownOf(k) \subseteq DOMAIN eventFiles'
                                             \/ \E f \in ShownOf(k)' : eventFiles'[f].at = passes,
                 Held(Shown) \subseteq Held(Shown)' \cup gone', gone \subseteq gone'
          PROVE  DerivedInv'
        <3>. USE <2>3 DEF tableVars
        <3>1. FilesOfTheirOwn'
            BY DEF FilesOfTheirOwn
        <3>2. NewerThanDerived'
            BY DEF NewerThanDerived
        <3>3. \A f \in DOMAIN eventFiles' : eventFiles'[f].at # passes =>
                 f \in DOMAIN eventFiles /\ eventFiles'[f] = eventFiles[f]
            OBVIOUS
        <3>4. SessionsCover'
            <4>1. \A k \in DOMAIN sessions : \A f \in FilesNamed(k)' : eventFiles'[f].at <= sessions[k].at =>
                     f \in FilesNamed(k) /\ eventFiles'[f] = eventFiles[f]
                BY <3>3 DEF FilesNamed, NewerThanDerived, FilesOfTheirOwn
            <4>. QED
                BY <4>1 DEF SessionsCover
        <3>5. SessionsExact'
            <4>. SUFFICES ASSUME NEW k \in DOMAIN sessions, k \in KeysOf(Shown)', SessionIsCurrent(k)',
                                 ~Outlived(k[1])'
                          PROVE  sessions[k].holds \subseteq Held(ShownOf(k))'
                BY DEF SessionsExact
            <4>1. \A f \in ShownOf(k)' : eventFiles'[f].at <= sessions[k].at /\ eventFiles'[f].at # passes
                BY DEF SessionIsCurrent, Current, NewerThanDerived, FilesOfTheirOwn, ShownOf,
                       Shown
            <4>2. ~Outlived(k[1]) /\ ShownOf(k) \subseteq DOMAIN eventFiles'
                BY <4>1 DEF Outlived
            <4>3. \A f \in ShownOf(k)' : f \in ShownOf(k) /\ eventFiles'[f] = eventFiles[f]
                BY <4>1, <3>3 DEF ShownOf, Shown
            <4>4. PICK f \in ShownOf(k)' : TRUE
                BY DEF KeysOf, ShownOf
            <4>5. f \in Shown /\ f \in Shown' /\ f.of = k
                BY <4>3, <4>4 DEF ShownOf
            <4>6. k = Month(k[1]) \/ ~IsMerged(k[1])'
                BY <4>5 DEF Shown
            <4>7. \A g \in ShownOf(k) : g \in ShownOf(k)'
                BY <4>2, <4>6 DEF ShownOf, Shown
            <4>8. \A g \in ShownOf(k) : eventFiles'[g] = eventFiles[g]
                BY <4>7, <4>3
            <4>9. Held(ShownOf(k)) \subseteq Held(ShownOf(k))'
                BY <4>7, <4>8 DEF Held
            <4>10. k \in KeysOf(Shown) /\ SessionIsCurrent(k)
                BY <4>5, <4>1, <4>7, <4>8 DEF KeysOf, SessionIsCurrent, Current
            <4>. QED
                BY <4>2, <4>9, <4>10 DEF SessionsExact
        <3>6. FoldsCover'
            <4>1. \A x \in Folded, f \in Shown' : eventFiles'[f].at <= folded[x].at =>
                     f \in Shown /\ eventFiles'[f] = eventFiles[f]
                BY <3>3 DEF Shown, NewerThanDerived, FilesOfTheirOwn
            <4>. QED
                BY <4>1 DEF FoldsCover
        <3>7. FoldsKeepGone'
            BY DEF FoldsKeepGone
        <3>. QED
            BY <3>1, <3>2, <3>4, <3>5, <3>6, <3>7 DEF DueIsShown, FoldsRenewed, DueIsOlder
    <2>4. CASE UNCHANGED derivedVars
        <3>1. FilesOfTheirOwn' /\ SessionsCover' /\ SessionsExact' /\ FoldsCover'
            BY <2>2, <2>4 DEF derivedVars, tableVars, workVars, FilesOfTheirOwn
        <3>. QED
            BY <3>1, <2>1, <2>4
               DEF derivedVars, tableVars, workVars, NewerThanDerived, DueIsShown, KeysOf,
                   FoldsKeepGone, FoldsRenewed, DueIsOlder
    <2>5. CASE MonthTurns
        <3>1. FilesOfTheirOwn' /\ SessionsCover' /\ SessionsExact' /\ FoldsCover'
            BY <2>2, <2>5 DEF MonthTurns, tableVars, workVars, FilesOfTheirOwn
        <3>. QED
            BY <3>1, <2>1, <2>5
               DEF MonthTurns, tableVars, workVars, NewerThanDerived, DueIsShown, KeysOf,
                   FoldsKeepGone, FoldsRenewed, DueIsOlder
    <2>6. ASSUME NEW l \in Lots, LotArrives(l) PROVE DerivedInv'
        <3>1. FilesOfTheirOwn' /\ SessionsCover' /\ SessionsExact' /\ FoldsCover'
            BY <2>2, <2>6 DEF LotArrives, tableVars, workVars, FilesOfTheirOwn
        <3>. QED
            BY <3>1, <2>1, <2>6
               DEF LotArrives, tableVars, workVars, NewerThanDerived, DueIsShown, KeysOf,
                   FoldsKeepGone, FoldsRenewed, DueIsOlder
    <2>7. CASE PassBegins
        <3>1. FilesOfTheirOwn' /\ SessionsCover' /\ SessionsExact' /\ FoldsCover'
            BY <2>2, <2>7 DEF PassBegins, tableVars, UnchangedByPass, FilesOfTheirOwn
        <3>2. NewerThanDerived'
            BY <2>7 DEF PassBegins, tableVars, NewerThanDerived, FilesOfTheirOwn
        <3>. QED
            BY <3>1, <3>2, <2>1, <2>7
               DEF PassBegins, tableVars, UnchangedByPass, DueIsShown, FoldsKeepGone, FoldsRenewed, DueIsOlder
    <2>8. CASE DumpsDone
        <3>1. FilesOfTheirOwn' /\ SessionsCover' /\ SessionsExact' /\ FoldsCover'
            BY <2>2, <2>8 DEF DumpsDone, tableVars, UnchangedByPass, FilesOfTheirOwn
        <3>. QED
            BY <3>1, <2>1, <2>8
               DEF DumpsDone, tableVars, UnchangedByPass, NewerThanDerived, DueIsShown,
                   FoldsKeepGone, FoldsRenewed, DueIsOlder
    <2>9. ASSUME NEW m \in Months, LeavesMonth(m) PROVE DerivedInv'
        <3>1. FilesOfTheirOwn' /\ SessionsCover' /\ SessionsExact' /\ FoldsCover'
            BY <2>2, <2>9 DEF LeavesMonth, tableVars, UnchangedByPass, FilesOfTheirOwn
        <3>. QED
            BY <3>1, <2>1, <2>9
               DEF LeavesMonth, NextMonth, tableVars, UnchangedByPass, NewerThanDerived,
                   DueIsShown, FoldsKeepGone, FoldsRenewed, DueIsOlder
    <2>10. CASE ListsDerived
        <3>1. FilesOfTheirOwn' /\ SessionsCover' /\ SessionsExact' /\ FoldsCover'
            BY <2>2, <2>10 DEF ListsDerived, tableVars, UnchangedByPass, FilesOfTheirOwn
        <3>2. DueIsShown'
            BY <2>10, <2>1 DEF ListsDerived, DueIsShown, ToDerive, KeysOf
        <3>3. FoldsKeepGone' /\ NewerThanDerived' /\ DueIsOlder'
            BY <2>10, <2>1
               DEF ListsDerived, tableVars, UnchangedByPass, FoldsKeepGone, NewerThanDerived, DueIsOlder
        <3>4. FoldsRenewed'
            BY <2>10, <2>1
               DEF ListsDerived, tableVars, UnchangedByPass, FoldsKeepGone, FoldsDue, FoldsRenewed
        <3>. QED
            BY <3>1, <3>2, <3>3, <3>4
    <2>11. CASE DeriveGivesUp \/ PassCrashes
        <3>1. FilesOfTheirOwn' /\ SessionsCover' /\ SessionsExact' /\ FoldsCover'
            BY <2>2, <2>11
               DEF DeriveGivesUp, PassCrashes, tableVars, UnchangedByPass, FilesOfTheirOwn
        <3>. QED
            BY <3>1, <2>1, <2>11
               DEF DeriveGivesUp, PassCrashes, Ends, tableVars, UnchangedByPass, NewerThanDerived,
                   DueIsShown, DueIsOlder, FoldsKeepGone, FoldsRenewed
    <2>12. CASE PassEnds
        <3>1. FilesOfTheirOwn' /\ SessionsCover' /\ SessionsExact' /\ FoldsCover'
            BY <2>2, <2>12 DEF PassEnds, tableVars, UnchangedByPass, FilesOfTheirOwn
        <3>. QED
            BY <3>1, <2>1, <2>12
               DEF PassEnds, Ends, tableVars, UnchangedByPass, NewerThanDerived, DueIsShown,
               FoldsKeepGone, FoldsRenewed, DueIsOlder
    <2>13. ASSUME NEW l \in Lots, DumpsLot(l) PROVE DerivedInv'
        <3>1. PICK n : LET f == [of |-> Day(l), segment |-> n] IN
                  /\ f \notin DOMAIN eventFiles
                  /\ eventFiles' = [g \in DOMAIN eventFiles \cup {f} |->
                                      IF g = f THEN [holds |-> {l}, at |-> passes] ELSE eventFiles[g]]
            BY <2>13 DEF DumpsLot
        <3>. DEFINE f == [of |-> Day(l), segment |-> n]
        <3>2. f.of = Day(l) /\ Day(l) \in Keys /\ l \in LotsAt(Day(l))
            BY DEF Keys, LotsAt
        <3>. HIDE DEF f
        <3>3. /\ f \notin DOMAIN eventFiles /\ DOMAIN eventFiles' = DOMAIN eventFiles \cup {f}
              /\ eventFiles'[f].holds = {l} /\ eventFiles'[f].at = passes
              /\ \A g \in DOMAIN eventFiles : eventFiles'[g] = eventFiles[g]
            BY <3>1 DEF f
        <3>4. \A m : IsMerged(m)' <=> IsMerged(m)
            BY <3>2, <3>3, <1>1 DEF IsMerged, FilesNamed
        <3>5. Shown \subseteq Shown' /\ Shown' \subseteq Shown \cup {f}
            BY <3>3, <3>4 DEF Shown
        <3>6. Held(Shown) \subseteq Held(Shown)'
            BY <3>5, <3>3 DEF Held, Shown
        <3>7. \A k : ShownOf(k) \subseteq DOMAIN eventFiles'
            BY <3>3 DEF ShownOf, Shown
        <3>8. \A g \in Shown' : g \in Shown \/ eventFiles'[g].at = passes
            BY <3>3, <3>5
        <3>9. \A g \in DOMAIN eventFiles' :
                 \/ g \in DOMAIN eventFiles /\ eventFiles'[g] = eventFiles[g]
                 \/ g.of \in Keys /\ eventFiles'[g].at = passes
                       /\ eventFiles'[g].holds \subseteq LotsAt(g.of)
            BY <3>2, <3>3
        <3>10. UNCHANGED <<tableVars, passes, date, lapsed>> /\ work' = work /\ work = "dumps"
                  /\ logged' \subseteq Lots /\ gone' = gone
            BY <2>13 DEF DumpsLot, workVars, UnchangedByPass, FilesOfTheirOwn
        <3>. QED
            BY <2>3, <3>6, <3>7, <3>8, <3>9, <3>10
    <2>14. ASSUME NEW m \in Months, DeletesMonth(m) PROVE DerivedInv'
        <3>1. /\ DOMAIN eventFiles' \subseteq DOMAIN eventFiles
              /\ \A f \in DOMAIN eventFiles' : eventFiles'[f] = eventFiles[f]
              /\ \A f \in DOMAIN eventFiles \ DOMAIN eventFiles' : f \in FilesOf(m)
              /\ FilesNamed(Month(m)) \subseteq DOMAIN eventFiles'
                    \/ DOMAIN eventFiles' \cap FilesOf(m) = {}
            BY <2>14 DEF DeletesMonth, Keep, FilesOf, DayFilesOf, FilesNamed
        <3>2. \A f \in FilesNamed(Month(m)) : f \in FilesOf(m)
            BY <1>1 DEF FilesNamed, FilesOf, IsOf
        <3>3. \A k \in Months : k # m => FilesNamed(Month(k)) \subseteq DOMAIN eventFiles'
            BY <3>1, <1>1 DEF FilesNamed, FilesOf, IsOf
        <3>4. \A f \in DOMAIN eventFiles' : IsMerged(f.of[1]) => IsMerged(f.of[1])'
            <4>. SUFFICES ASSUME NEW f \in DOMAIN eventFiles', IsMerged(f.of[1]) PROVE IsMerged(f.of[1])'
                OBVIOUS
            <4>1. f.of[1] \in Months
                BY <3>1, <1>2 DEF FilesOfTheirOwn
            <4>2. FilesNamed(Month(f.of[1])) \subseteq DOMAIN eventFiles'
                BY <3>1, <3>3, <4>1 DEF FilesOf, IsOf
            <4>. QED
                BY <4>2 DEF IsMerged, FilesNamed
        <3>5. Shown' \subseteq Shown
            BY <3>1, <3>4 DEF Shown
        <3>6. \A f \in Shown : f \in Shown' \/ f \in FilesOf(m)
            <4>. SUFFICES ASSUME NEW f \in Shown, f \notin FilesOf(m) PROVE f \in Shown'
                OBVIOUS
            <4>1. f \in DOMAIN eventFiles'
                BY <3>1 DEF Shown
            <4>2. IsMerged(f.of[1])' => IsMerged(f.of[1])
                BY <3>1 DEF IsMerged, FilesNamed
            <4>. QED
                BY <4>1, <4>2 DEF Shown
        <3>7. \A f \in FilesOf(m) : eventFiles[f].holds \subseteq LotsOf(m)
            BY <1>1 DEF FilesOf, FilesOfTheirOwn, LotsAt, LotsOf, IsOf
        <3>8. Held(Shown) \subseteq Held(Shown)' \cup gone'
            BY <2>14, <3>1, <3>5, <3>6, <3>7 DEF Held, Shown, DeletesMonth
        <3>9. \A k \in KeysOf(Shown)' : Outlived(k[1]) \/ ShownOf(k) \subseteq DOMAIN eventFiles'
            BY <2>14, <3>1 DEF DeletesMonth, ShownOf, Shown, FilesOf, IsOf
        <3>10. logged' \subseteq Lots
            BY <2>14 DEF DeletesMonth, FilesOfTheirOwn
        <3>. QED
            BY <2>3, <2>14, <3>1, <3>5, <3>8, <3>9, <3>10
               DEF DeletesMonth, NextMonth, tableVars, UnchangedByPass
    <2>15. ASSUME NEW m \in Months, MergesMonth(m) PROVE DerivedInv'
        <3>. DEFINE f == [of |-> Month(m), segment |-> 0]
        <3>1. PICK rest \in SUBSET DayFilesOf(m) :
                 eventFiles' = [g \in (DOMAIN eventFiles \ DayFilesOf(m)) \cup rest \cup {f} |->
                              IF g = f THEN [holds |-> Held(FilesOf(m)),
                              at |-> passes] ELSE eventFiles[g]]
            BY <2>15 DEF MergesMonth
        <3>2. f.of = Month(m) /\ Month(m) \in Keys
            BY DEF Keys
        <3>. HIDE DEF f
        <3>3. /\ DOMAIN eventFiles' = (DOMAIN eventFiles \ DayFilesOf(m)) \cup rest \cup {f}
              /\ eventFiles'[f].holds = Held(FilesOf(m)) /\ eventFiles'[f].at = passes
              /\ \A g \in DOMAIN eventFiles' : g # f => g \in DOMAIN eventFiles
                    /\ eventFiles'[g] = eventFiles[g]
            BY <3>1 DEF DayFilesOf, FilesOf
        <3>4. Held(FilesOf(m)) \subseteq LotsAt(Month(m))
            BY <1>1 DEF Held, FilesOf, FilesOfTheirOwn, LotsAt, IsOf
        <3>5. IsMerged(m)' /\ \A k : IsMerged(k) => IsMerged(k)'
            BY <3>2, <3>3, <1>1 DEF IsMerged, FilesNamed, DayFilesOf, FilesOf, IsOf
        <3>6. \A k : k # m /\ IsMerged(k)' => IsMerged(k)
            BY <3>2, <3>3, <1>1 DEF IsMerged, FilesNamed
        <3>7. \A g \in Shown' : g \in Shown \/ eventFiles'[g].at = passes
            BY <3>3, <3>5 DEF Shown
        <3>8. f \in Shown' /\ f \in ShownOf(Month(m))'
            BY <3>2, <3>3, <1>1 DEF Shown, ShownOf
        <3>9. \A g \in Shown : (g \in Shown' /\ (g = f \/ eventFiles'[g] = eventFiles[g]))
                 \/ g \in FilesOf(m)
            BY <3>3, <3>6 DEF Shown, FilesOf, DayFilesOf, IsOf
        <3>10. Held(Shown) \subseteq Held(Shown)' \cup gone'
            BY <3>3, <3>8, <3>9, <3>2, <1>1 DEF Held, Shown, FilesOf, IsOf
        <3>11. \A k \in KeysOf(Shown)' : ShownOf(k) \subseteq DOMAIN eventFiles' \/ k = Month(m)
            <4>1. ASSUME NEW k, k \in KeysOf(Shown)', k # Month(m), NEW g, g \in ShownOf(k),
                         g \notin DOMAIN eventFiles' PROVE FALSE
                <5>1. g.of = k /\ g \in FilesOf(m) /\ k[1] = m
                    BY <4>1, <3>3 DEF ShownOf, Shown, DayFilesOf, FilesOf, IsOf
                <5>2. PICK h \in Shown' : h.of = k
                    BY <4>1 DEF KeysOf
                <5>. QED
                    BY <4>1, <5>1, <5>2, <3>5 DEF Shown
            <4>. QED
                BY <4>1
        <3>12. \A k \in KeysOf(Shown)' : ShownOf(k) \subseteq DOMAIN eventFiles'
                  \/ \E g \in ShownOf(k)' : eventFiles'[g].at = passes
            BY <3>3, <3>8, <3>11
        <3>13. \A g \in DOMAIN eventFiles' :
                 \/ g \in DOMAIN eventFiles /\ eventFiles'[g] = eventFiles[g]
                 \/ g.of \in Keys /\ eventFiles'[g].at = passes
                       /\ eventFiles'[g].holds \subseteq LotsAt(g.of)
            BY <3>2, <3>3, <3>4
        <3>14. UNCHANGED <<tableVars, passes, date, lapsed>> /\ work' = work
                  /\ work = "months" /\ logged' \subseteq Lots /\ gone' = gone
            BY <2>15 DEF MergesMonth, NextMonth, UnchangedByPass, FilesOfTheirOwn
        <3>. QED
            BY <2>3, <3>7, <3>10, <3>12, <3>13, <3>14
    <2>16. ASSUME NEW k \in due, WritesSession(k) PROVE DerivedInv'
        <3>. USE <2>16, <2>1 DEF WritesSession, UnchangedByPass
        <3>1. k \in KeysOf(Shown) /\ k \in Keys
            BY DEF DueIsShown, KeysOf, Shown, FilesOfTheirOwn
        <3>2. \A f \in FilesNamed(k) : f \in ShownOf(k)
            BY <3>1 DEF KeysOf, Shown, ShownOf, FilesNamed
        <3>3. Held(ShownOf(k)) \subseteq LotsAt(k)
            BY DEF Held, ShownOf, Shown, FilesOfTheirOwn
        <3>4. DOMAIN sessions' \subseteq DOMAIN sessions \cup {k} /\ \A j \in DOMAIN sessions' :
                 \/ j \in DOMAIN sessions /\ sessions'[j] = sessions[j]
                 \/ j = k /\ sessions'[j].holds = Held(ShownOf(k)) /\ sessions'[j].at = passes
            OBVIOUS
        <3>5. FilesOfTheirOwn'
            BY <3>3, <3>4 DEF FilesOfTheirOwn
        <3>6. SessionsCover'
            BY <3>2, <3>4 DEF SessionsCover, Held
        <3>7. SessionsExact'
            <4>1. \A j : Outlived(j[1])' <=> Outlived(j[1])
                BY DEF Outlived
            <4>2. KeysOf(Shown)' = KeysOf(Shown)
                BY DEF KeysOf
            <4>3. \A j \in DOMAIN sessions' : sessions'[j] = sessions[j] /\ j \in DOMAIN sessions =>
                     (SessionIsCurrent(j)' <=> SessionIsCurrent(j))
                BY DEF SessionIsCurrent, Current
            <4>. QED
                BY <3>4, <4>1, <4>2, <4>3 DEF SessionsExact
        <3>8. FoldsCover' /\ FoldsKeepGone' /\ FoldsRenewed' /\ DueIsOlder'
            BY DEF FoldsCover, FoldsKeepGone, FoldsRenewed, DueIsOlder
        <3>9. NewerThanDerived' /\ DueIsShown'
            BY DEF NewerThanDerived, DueIsShown, KeysOf
        <3>. QED
            BY <3>5, <3>6, <3>7, <3>8, <3>9
    <2>17. CASE RemovesOrphans
        <3>. USE <2>1
        <3>U. /\ work = "sessions" /\ work' = "folds" /\ due' = {}
              /\ UNCHANGED <<date, eventFiles, logged, passes, dueFolds, gone>>
            BY <2>17 DEF RemovesOrphans, UnchangedByPass
        <3>. USE <3>U
        <3>0. PICK S \in SUBSET Orphaned, X \in SUBSET OrphanedFolds :
                 /\ sessions' = [k \in (DOMAIN sessions \ Orphaned) \cup S |-> sessions[k]]
                 /\ folded' = [x \in Folded |-> IF x \in OrphanedFolds \ X THEN NoFile ELSE folded[x]]
                 /\ lapsed' = IF X = {} THEN lapsed ELSE lapsed \cup gone
            BY <2>17, Zenon DEF RemovesOrphans
        <3>1. DOMAIN sessions' \subseteq DOMAIN sessions
                 /\ \A j \in DOMAIN sessions' : sessions'[j] = sessions[j]
            BY <3>0 DEF Orphaned
        <3>2. /\ NoFile.at = -1 /\ NoFile.holds = {} /\ DOMAIN folded' = Folded
              /\ \A x \in Folded : folded'[x] = NoFile \/ folded'[x] = folded[x]
              /\ Shown # {} => lapsed' = lapsed /\ \A x \in Folded : folded'[x] = folded[x]
              /\ lapsed \subseteq lapsed' /\ lapsed' \subseteq lapsed \cup gone
              /\ Shown = {} => lapsed' = lapsed \cup gone \/ \A x \in Folded : folded'[x] = NoFile
            BY <3>0 DEF NoFile, OrphanedFolds
        <3>3. FilesOfTheirOwn'
            BY <3>1, <3>2 DEF FilesOfTheirOwn
        <3>4. SessionsCover'
            BY <3>1 DEF SessionsCover
        <3>5. SessionsExact'
            <4>1. \A j : Outlived(j[1])' <=> Outlived(j[1])
                BY DEF Outlived
            <4>2. KeysOf(Shown)' = KeysOf(Shown)
                BY DEF KeysOf
            <4>3. \A j \in DOMAIN sessions' : SessionIsCurrent(j)' <=> SessionIsCurrent(j)
                BY <3>1 DEF SessionIsCurrent, Current
            <4>. QED
                BY <3>1, <4>1, <4>2, <4>3 DEF SessionsExact
        <3>6. FoldsCover' /\ FoldsKeepGone'
            <4>1. \A f \in Shown : eventFiles[f].at \in Nat
                BY DEF Shown, FilesOfTheirOwn
            <4>. QED
                BY <3>2, <4>1 DEF FoldsCover, FoldsKeepGone
        <3>7. FoldsRenewed' /\ DueIsOlder'
            <4>1. DueIsOlder'
                <5>1. passes \in Nat /\ \A x \in dueFolds \cap Folded : folded[x].at < passes
                    BY DEF DueIsOlder, FilesOfTheirOwn
                <5>2. \A x \in dueFolds \cap Folded : folded'[x].at < passes
                    BY <3>2, <5>1
                <5>. QED
                    BY <5>2 DEF DueIsOlder
            <4>4. Shown' = Shown /\ Held(Shown)' = Held(Shown)
                BY <2>1, <3>U
            <4>2. CASE Shown = {}
                <5>1. \A x \in Folded : folded'[x].holds \subseteq Held(Shown) \cup lapsed'
                    BY <3>2, <4>2 DEF FoldsKeepGone
                <5>2. \A x \in Folded \ dueFolds : dueFolds # {} /\ folded[x].at \in {-1, passes}
                         => folded[x].holds \subseteq Held(Shown)
                    BY DEF FoldsRenewed
                <5>3. \A x \in Folded \ dueFolds : dueFolds # {} /\ folded'[x].at \in {-1, passes}
                         => folded'[x].holds \subseteq Held(Shown)
                    BY <3>2, <5>2
                <5>. QED
                    BY <4>1, <4>4, <5>1, <5>3 DEF FoldsRenewed
            <4>3. CASE Shown # {}
                <5>1. lapsed' = lapsed /\ \A x \in Folded : folded'[x] = folded[x]
                    BY <3>2, <4>3
                <5>. QED
                    BY <4>1, <4>3, <4>4, <5>1 DEF FoldsRenewed
            <4>. QED
                BY <4>1, <4>2, <4>3
        <3>. QED
            BY <3>3, <3>4, <3>5, <3>6, <3>7 DEF NewerThanDerived, DueIsShown
    <2>18. ASSUME NEW x \in Folded, WritesFold(x) PROVE DerivedInv'
        <3>. USE <2>18, <2>1 DEF WritesFold, UnchangedByPass
        <3>. DEFINE new == [holds |-> Held(Shown), at |-> passes]
        <3>0. \/ folded' = [folded EXCEPT ![x] = new] \/ folded' = [folded EXCEPT ![x] = NoFile]
              \/ folded' = folded
            OBVIOUS
        <3>1. /\ NoFile.at = -1 /\ NoFile.holds = {} /\ DOMAIN folded' = Folded
              /\ \A y \in Folded \ {x} : folded'[y] = folded[y]
              /\ \/ folded'[x] = NoFile \/ folded'[x] = folded[x]
                 \/ folded'[x].holds = Held(Shown) /\ folded'[x].at = passes
            <4>1. NoFile.at = -1 /\ NoFile.holds = {} /\ DOMAIN folded = Folded
                BY DEF NoFile, FilesOfTheirOwn
            <4>2. CASE folded' = folded
                BY <4>1, <4>2
            <4>3. CASE folded' = [folded EXCEPT ![x] = NoFile]
                BY <4>1, <4>3
            <4>4. CASE folded' = [folded EXCEPT ![x] = new]
                BY <4>1, <4>4
            <4>. QED
                BY <3>0, <4>2, <4>3, <4>4
        <3>2. FilesOfTheirOwn'
            BY <3>1 DEF FilesOfTheirOwn
        <3>3. SessionsCover'
            BY DEF SessionsCover
        <3>4. SessionsExact'
            <4>1. \A j : Outlived(j[1])' <=> Outlived(j[1])
                BY DEF Outlived
            <4>2. KeysOf(Shown)' = KeysOf(Shown)
                BY DEF KeysOf
            <4>3. \A j \in DOMAIN sessions' : SessionIsCurrent(j)' <=> SessionIsCurrent(j)
                BY DEF SessionIsCurrent, Current
            <4>. QED
                BY <4>1, <4>2, <4>3 DEF SessionsExact
        <3>5. FoldsCover'
            BY <3>1 DEF FoldsCover, Held, FilesOfTheirOwn, Shown
        \* A file done with is this pass's, or none, or was left as it was.
        <3>6. \A y \in Folded \ dueFolds' : Renewed(folded'[y]) => folded'[y].holds \subseteq Held(Shown)
            <4>1. folded[x].at < passes /\ (folded[x].at = -1 => folded[x].holds = {})
                BY DEF DueIsOlder, FilesOfTheirOwn
            <4>2. Renewed(folded'[x]) => folded'[x].holds \subseteq Held(Shown)
                BY <3>1, <4>1 DEF Renewed, FilesOfTheirOwn
            <4>. QED
                BY <3>1, <4>2 DEF FoldsRenewed, Renewed
        <3>7. FoldsKeepGone' /\ FoldsRenewed'
            <4>1. CASE dueFolds' = {} /\ \A y \in Folded : Renewed(folded'[y])
                <5>1. lapsed' = {}
                    BY <4>1
                <5>2. \A y \in Folded : folded'[y].holds \subseteq Held(Shown)
                    BY <4>1, <3>6
                <5>. QED
                    BY <4>1, <5>1, <5>2 DEF FoldsKeepGone, FoldsRenewed
            <4>2. CASE dueFolds' = {} /\ ~\A y \in Folded : Renewed(folded'[y])
                <5>1. lapsed' = lapsed \cup gone
                    BY <4>2
                <5>2. \A y \in Folded : folded'[y].holds \subseteq Held(Shown) \cup gone \cup lapsed
                    BY <3>1 DEF FoldsKeepGone
                <5>. QED
                    BY <4>2, <5>1, <5>2 DEF FoldsKeepGone, FoldsRenewed
            <4>3. CASE dueFolds' # {}
                <5>1. lapsed' = lapsed
                    BY <4>3
                <5>2. \A y \in Folded : folded'[y].holds \subseteq Held(Shown) \cup gone \cup lapsed
                    BY <3>1 DEF FoldsKeepGone
                <5>3. \A y \in Folded \ dueFolds' : folded'[y].at \in {-1, passes} => folded'[y].holds \subseteq Held(Shown)
                    BY <3>6 DEF Renewed
                <5>. QED
                    BY <4>3, <5>1, <5>2, <5>3 DEF FoldsKeepGone, FoldsRenewed
            <4>. QED
                BY <4>1, <4>2, <4>3
        <3>8. DueIsOlder'
            <4>1. work' = "folds" /\ dueFolds' = dueFolds \ {x} /\ passes' = passes /\ work = "folds"
                BY DEF workVars
            <4>2. \A y \in dueFolds \cap Folded : folded[y].at < passes
                BY <4>1 DEF DueIsOlder
            <4>3. \A y \in (dueFolds \cap Folded) \ {x} : folded'[y] = folded[y]
                BY <3>1
            <4>. QED
                BY <4>1, <4>2, <4>3 DEF DueIsOlder
        <3>. QED
            BY <3>2, <3>3, <3>4, <3>5, <3>7, <3>8 DEF NewerThanDerived, DueIsShown
    <2>. QED
        BY <2>4, <2>5, <2>6, <2>7, <2>8, <2>9, <2>10, <2>11, <2>12, <2>13, <2>14, <2>15, <2>16,
           <2>17, <2>18
           DEF DerivedNext
<1>5. DerivedInv => DerivedAgree
    <2>. SUFFICES ASSUME DerivedInv PROVE DerivedAgree
        OBVIOUS
    <2>. USE DEF DerivedInv
    <2>1. \A l \in Lots : \A k : l \in LotsAt(k) => k = Day(l) \/ k = Month(Day(l)[1])
        BY DEF LotsAt
    <2>2. \A k \in Listed : Held(ShownOf(k)) \subseteq sessions[k].holds
        BY DEF Listed, SessionIsCurrent, Current, Held, ShownOf, Shown, FilesNamed, SessionsCover
    <2>3. \A k \in Listed : Outlived(k[1]) \/ sessions[k].holds = Held(ShownOf(k))
        <3>1. \A k \in Listed : k \in DOMAIN sessions /\ k \in KeysOf(Shown) /\ SessionIsCurrent(k)
            BY DEF Listed, SessionIsCurrent
        <3>2. \A k \in Listed : Outlived(k[1]) \/ sessions[k].holds \subseteq Held(ShownOf(k))
            BY <3>1 DEF SessionsExact
        <3>. QED
            BY <2>2, <3>2
    <2>4. Shown # {} => \A x \in Folded : Current(folded[x], Shown) =>
             /\ Held(Shown) \subseteq folded[x].holds
             /\ folded[x].holds \subseteq Held(Shown) \cup gone \cup lapsed
        BY DEF Current, Held, FoldsCover, FoldsKeepGone
    <2>5. ASSUME NEW l \in Held(Shown) \cup logged
          PROVE  Cardinality(SessionsWith(l)) + (IF InGap(l) THEN 1 ELSE 0) = 1
        <3>. DEFINE d == Day(l)
                    n == Month(Day(l)[1])
        <3>1. l \in Lots
            BY DEF Held, Shown, FilesOfTheirOwn, LotsAt
        <3>2. d # n /\ n[1] = d[1] /\ d[1] \in Months
            BY <3>1, <1>1
        <3>. HIDE DEF d, n
        <3>3. \A k \in SessionsWith(l) : k \in Listed /\ (k = d \/ k = n)
            BY <3>1, <2>1 DEF SessionsWith, Listed, SessionIsCurrent, FilesOfTheirOwn, d, n
        <3>4. IsMerged(d[1]) => d \notin KeysOf(Shown)
            BY <3>2 DEF KeysOf, Shown, d, n
        <3>5. ~IsMerged(d[1]) => n \notin KeysOf(Shown)
            BY DEF KeysOf, Shown, IsMerged, FilesNamed, d, n
        <3>6. n \notin LogDays
            BY <1>1 DEF LogDays, n, FilesOfTheirOwn
        <3>7. InGap(l) <=> d \in Gaps \/ n \in Gaps
            BY DEF InGap, d, n
        <3>8. CASE l \in logged
            <4>1. d \in LogDays /\ HasLog(d) /\ HasLog(n)
                BY <3>8, <3>2 DEF LogDays, HasLog, d, n
            <4>2. SessionsWith(l) = {}
                BY <3>3, <4>1 DEF Listed
            <4>3. InGap(l)
                <5>1. CASE IsMerged(d[1])
                    <6>1. PICK f \in DOMAIN eventFiles : f.of = n
                        BY <5>1 DEF IsMerged, FilesNamed, d, n
                    <6>2. f \in Shown
                        BY <6>1, <3>2 DEF Shown, d, n
                    <6>. QED
                        BY <6>1, <6>2, <4>1, <3>7 DEF KeysOf, Gaps, Listed
                <5>2. CASE ~IsMerged(d[1])
                    BY <5>2, <4>1, <3>7 DEF Gaps
                <5>. QED
                    BY <5>1, <5>2
            <4>. QED
                BY <4>2, <4>3, FS_EmptySet
        <3>9. CASE l \notin logged
            <4>1. PICK f \in Shown : l \in eventFiles[f].holds
                BY <3>9 DEF Held
            <4>. DEFINE k == f.of
            <4>2. (k = d \/ k = n) /\ k \in KeysOf(Shown)
                BY <4>1, <3>1, <2>1 DEF FilesOfTheirOwn, Shown, KeysOf, d, n
            <4>3. l \in Held(ShownOf(k))
                BY <4>1 DEF Held, ShownOf
            <4>. HIDE DEF k
            <4>4. \A j : (j = d \/ j = n) /\ j \in KeysOf(Shown) => j = k
                BY <4>2, <3>4, <3>5
            <4>5. CASE k \in Listed
                <5>1. SessionsWith(l) = {k}
                    BY <4>3, <4>4, <4>5, <3>3, <2>2 DEF SessionsWith, Listed
                <5>2. ~InGap(l)
                    <6>1. \A j : (j = d \/ j = n) /\ j \in Gaps => j \in LogDays /\ ~IsMerged(j[1])
                        BY <4>4, <4>5 DEF Gaps
                    <6>2. d \in LogDays /\ ~IsMerged(d[1]) => k = d /\ HasLog(d)
                        BY <4>2, <3>5 DEF HasLog
                    <6>. QED
                        BY <6>1, <6>2, <3>6, <3>7, <4>5 DEF Listed
                <5>3. Cardinality({k}) = 1
                    BY FS_Singleton
                <5>. QED
                    BY <5>1, <5>2, <5>3
            <4>6. CASE k \notin Listed
                <5>1. SessionsWith(l) = {}
                    BY <4>4, <4>6, <3>3 DEF SessionsWith, Listed
                <5>2. InGap(l)
                    BY <4>2, <4>6, <3>7 DEF Gaps
                <5>. QED
                    BY <5>1, <5>2, FS_EmptySet
            <4>. QED
                BY <4>5, <4>6
        <3>. QED
            BY <3>8, <3>9
    <2>. QED
        BY <2>3, <2>4, <2>5 DEF DerivedAgree
<1>. QED
    BY <1>3, <1>4, <1>5, PTL DEF DerivedSpec

-----------------------------------------------------------------------------
(* A call of several queries.                                              *)

What  == {"refused", "gone", "failed", "result", "own", "internal", "absent", "broken"}
Stage == {"none", "asks", "queued", "begins", "scans", "waits", "finishes", "ends",
          "freed", "panicked", "joins", "runs", "ended"}

Answered  == { a.req : a \in ToSet(answers) }
Active(s) == { i \in Of(s) : state[i] \in {"live", "finishing"} }
IsWhole(i) == \A n \in ScanItems : fed[i][n] = 1

ManyTypes ==
    /\ asked \in ManyCalls /\ lead \in [Reqs -> Reqs]
    /\ at \in [Tasks -> Stage]
    /\ state \in [Reqs -> {"live", "done", "evicted", "finishing"}]
    /\ live \in [Scans -> Nat]
    /\ todo \in [Scans -> SUBSET (Reqs \X ScanItems)]
    /\ fed \in [Reqs -> [ScanItems -> Nat]]
    /\ outcome \in [Scans -> {"none", "stopped", "absent", "broken"}]
    /\ answers \in Seq([req : Reqs, what : What])

\* A result is of a request no later attempt feeds.
AnswersInv ==
    /\ \A j, k \in DOMAIN answers : answers[j].req = answers[k].req => j = k
    /\ \A a \in ToSet(answers) :
          /\ a.what = "gone" => a.req \in ctxDone
          /\ a.what = "result" => state[a.req] = "done" /\ IsWhole(a.req)

\* A scan is stopped only with nobody left in it, and ends well only with nobody
\* unready; what it has yet to feed is what nobody has been fed; and those who are
\* out of it are answered, or answered alone once it has ended.
ScanInv(s) ==
    /\ at[Scan(s)] # "none"
    /\ Cardinality(Active(s)) <= live[s]
    /\ outcome[s] = "stopped" => Active(s) = {}
    /\ at[Scan(s)] \in {"ends", "freed"} /\ outcome[s] = "none" => Live(s) = {}
    /\ at[Scan(s)] = "scans" =>
          \A i \in Live(s) : \A n \in ScanItems : fed[i][n] = IF <<i, n>> \in todo[s] THEN 0 ELSE 1
    /\ at[Scan(s)] = "finishes" => \A i \in Live(s) : IsWhole(i)
    /\ \A i \in Of(s) : state[i] = "finishing" => IsWhole(i)
    /\ \A i \in Of(s) : state[i] = "done" => i \in Answered
    /\ at[Scan(s)] = "joins" => \A i \in Of(s) : state[i] = "done" \/ at[Solo(i)] # "none"
    /\ at[Scan(s)] = "ended" => Of(s) \subseteq Answered

AloneInv(i) ==
    /\ at[Solo(i)] = "ended" => i \in Answered
    /\ asked[i].key = "alone" => at[Solo(i)] # "none"
    /\ asked[i].key = "invalid" => i \in Answered

ManyInv ==
    /\ ManyTypes /\ AnswersInv
    /\ \A s \in Scans : ScanInv(s)
    /\ \A i \in Reqs : AloneInv(i)

\* A request is answered once and with its own answer, by the time the call returns, in
\* whatever order its context, a failure, the scan's memory and a panic come upon it.
THEOREM EveryAnswerIsRight == ManySpec => []AnswersAreRight
<1>Names. \A i, j : /\ Scan(i) # Solo(j) /\ (Scan(i) = Scan(j) => i = j) /\ (Solo(i) = Solo(j) => i = j)
                    /\ Scan(i)[1] = "scan" /\ Scan(i)[2] = i /\ Solo(i)[1] = "solo" /\ Solo(i)[2] = i
    BY DEF Scan, Solo
<1>Tasks. /\ \A s \in Scans : Scan(s) \in Tasks /\ s \in Reqs
          /\ \A i \in Reqs : Solo(i) \in Tasks
          /\ \A s : Of(s) \subseteq Reqs /\ Active(s) \subseteq Of(s) /\ Live(s) \subseteq Active(s)
          /\ \A s, t : s # t => Of(s) \cap Of(t) = {}
    BY DEF Tasks, Scans, Of, Active, Live
<1>Finite. ASSUME asked \in ManyCalls
           PROVE  Reqs \subseteq Nat /\ \A S \in SUBSET Reqs : IsFiniteSet(S) /\ Cardinality(S) \in Nat
    <2>1. asked \in Seq([key : STRING, aggs : Nat, heavy : Nat])
        BY <1>Finite, SharedScanAssumption
    <2>2. Reqs = 1..Len(asked) /\ Len(asked) \in Nat
        BY <2>1 DEF Reqs
    <2>3. IsFiniteSet(Reqs)
        BY <2>2, FS_Interval
    <2>4. ASSUME NEW S \in SUBSET Reqs PROVE IsFiniteSet(S) /\ Cardinality(S) \in Nat
        <3>1. IsFiniteSet(S)
            BY <2>3, FS_Subset
        <3>. QED
            BY <3>1, FS_CardinalityType
    <2>5. Reqs \subseteq Nat
        BY <2>2
    <2>. QED
        BY <2>4, <2>5
<1>Seqs. ASSUME NEW S, IsFiniteSet(S)
         PROVE  /\ SetToSeq(S) \in Seq(S) /\ ToSet(SetToSeq(S)) = S
                /\ Len(SetToSeq(S)) \in Nat /\ DOMAIN SetToSeq(S) = 1..Len(SetToSeq(S))
                /\ \A j, k \in DOMAIN SetToSeq(S) : SetToSeq(S)[j] = SetToSeq(S)[k] => j = k
    <2>. DEFINE n == Cardinality(S)  f == SetToSeq(S)
    <2>1. n \in Nat /\ ExistsBijection(1..n, S)
        BY <1>Seqs, FS_CardinalityType
    <2>2. \E g \in [1..n -> S] : IsInjective(g)
        BY <2>1 DEF ExistsBijection, Bijection, Injection
    <2>3. f \in [1..n -> S] /\ IsInjective(f)
        BY <2>2 DEF SetToSeq
    <2>4. f \in Injection(1..n, S)
        BY <2>3 DEF Injection
    <2>5. IsFiniteSet(1..n) /\ Cardinality(1..n) = n
        BY <2>1, FS_Interval
    <2>6. f \in Surjection(1..n, S)
        BY <1>Seqs, <2>4, <2>5, FS_Injection
    <2>. HIDE DEF n, f
    <2>7. \A x \in S : \E k \in 1..n : f[k] = x
        BY <2>6 DEF Surjection
    <2>8. f \in Seq(S) /\ DOMAIN f = 1..n /\ Len(f) = n
        BY <2>1, <2>3
    <2>9. ToSet(f) = S
        BY <2>7, <2>8, <2>3 DEF ToSet
    <2>10. \A j, k \in DOMAIN f : f[j] = f[k] => j = k
        BY <2>3 DEF IsInjective
    <2>. QED
        BY <2>1, <2>8, <2>9, <2>10 DEF f
\* What Puts adds.
<1>. DEFINE Once(s) == \A j, k \in DOMAIN s : s[j].req = s[k].req => j = k
            New(S, what) == { [req |-> i, what |-> what] : i \in S \ Answered }
            Grown(S, what) == /\ answers' \in Seq([req : Reqs, what : What]) /\ Once(answers')
                              /\ ToSet(answers') = ToSet(answers) \cup New(S, what)
<1>Puts. ASSUME ManyTypes, Once(answers), UNCHANGED asked,
                NEW S \in SUBSET Reqs, NEW what, what \in What \/ S = {}, Puts(S, what)
         PROVE  Grown(S, what)
    <2>. USE <1>Puts
    <2>1. \A i : AnsweredAlready(i) <=> i \in Answered
        <3>1. answers \in Seq([req : Reqs, what : What])
            BY DEF ManyTypes
        <3>2. ToSet(answers) = { answers[k] : k \in DOMAIN answers }
            BY <3>1 DEF ToSet
        <3>. QED
            BY <3>2 DEF Answered, AnsweredAlready
    <2>2. answers' = answers \o SetToSeq(New(S, what))
        <3>1. { j \in S : ~AnsweredAlready(j) } = S \ Answered
            BY <2>1
        <3>. QED
            BY <3>1 DEF Puts
    <2>3. IsFiniteSet(New(S, what))
        <3>. DEFINE N == New(S, what)  g == [a \in N |-> a.req]
        <3>1. \A a \in N : a.req \in S /\ a = [req |-> a.req, what |-> what]
            OBVIOUS
        <3>2. g \in [N -> S] /\ \A a, b \in DOMAIN g : g[a] = g[b] => a = b
            BY <3>1
        <3>3. g \in Injection(N, S)
            <4>. HIDE DEF g, N
            <4>. QED
                BY <3>2 DEF Injection, IsInjective
        <3>4. IsFiniteSet(S)
            BY <1>Finite DEF ManyTypes
        <3>. HIDE DEF g, N
        <3>5. IsFiniteSet(N)
            BY <3>3, <3>4, FS_Injection
        <3>. QED
            BY <3>5 DEF N
    <2>. DEFINE N == New(S, what)  q == SetToSeq(N)
    <2>4. \A a \in N : a \in [req : Reqs, what : What] /\ a.req \in S \ Answered
             /\ a = [req |-> a.req, what |-> what]
        OBVIOUS
    <2>. HIDE DEF N
    <2>5. /\ q \in Seq(N) /\ ToSet(q) = N /\ Len(q) \in Nat /\ DOMAIN q = 1..Len(q)
          /\ \A j, k \in DOMAIN q : q[j] = q[k] => j = k
        BY <2>3, <1>Seqs DEF N
    <2>. HIDE DEF q
    <2>6. answers' = answers \o q
        BY <2>2 DEF q, N
    <2>7. q \in Seq([req : Reqs, what : What])
        <3>1. N \subseteq [req : Reqs, what : What]
            BY <2>4
        <3>2. ASSUME NEW A, NEW B, A \subseteq B PROVE Seq(A) \subseteq Seq(B)
            BY <3>2
        <3>. QED
            BY <3>1, <3>2, <2>5
    <2>8. answers \in Seq([req : Reqs, what : What]) /\ DOMAIN answers = 1..Len(answers)
             /\ Len(answers) \in Nat
        BY DEF ManyTypes
    <2>9. /\ answers' \in Seq([req : Reqs, what : What]) /\ DOMAIN answers' = 1..(Len(answers) + Len(q))
          /\ \A k \in 1..Len(answers) : answers'[k] = answers[k]
          /\ \A k \in 1..Len(q) : answers'[Len(answers) + k] = q[k]
        BY <2>6, <2>7, <2>8
    <2>10. \A k \in 1..(Len(answers) + Len(q)) : k \notin 1..Len(answers) =>
              k - Len(answers) \in 1..Len(q) /\ answers'[k] = q[k - Len(answers)]
        <3>. SUFFICES ASSUME NEW k \in 1..(Len(answers) + Len(q)), k \notin 1..Len(answers)
                      PROVE  k - Len(answers) \in 1..Len(q) /\ answers'[k] = q[k - Len(answers)]
            OBVIOUS
        <3>1. k - Len(answers) \in 1..Len(q) /\ k = Len(answers) + (k - Len(answers))
            BY <2>5, <2>8
        <3>. QED
            BY <3>1, <2>9
    <2>11. /\ \A k \in 1..Len(answers) : answers[k] \in ToSet(answers) /\ answers[k].req \in Answered
           /\ \A k \in 1..Len(q) : q[k] \in N
        BY <2>5, <2>8 DEF ToSet, Answered
    <2>12. Once(answers')
        <3>. SUFFICES ASSUME NEW j \in DOMAIN answers', NEW k \in DOMAIN answers',
                             answers'[j].req = answers'[k].req
                      PROVE  j = k
            OBVIOUS
        <3>1. CASE j \in 1..Len(answers) /\ k \in 1..Len(answers)
            BY <3>1, <2>8, <2>9
        <3>2. CASE j \in 1..Len(answers) /\ k \notin 1..Len(answers)
            <4>1. answers'[j].req \in Answered
                BY <3>2, <2>9, <2>11
            <4>2. k - Len(answers) \in 1..Len(q) /\ answers'[k] = q[k - Len(answers)]
                BY <3>2, <2>9, <2>10
            <4>3. answers'[k].req \notin Answered
                BY <4>2, <2>4, <2>11
            <4>. QED
                BY <4>1, <4>3
        <3>3. CASE j \notin 1..Len(answers) /\ k \in 1..Len(answers)
            <4>1. answers'[k].req \in Answered
                BY <3>3, <2>9, <2>11
            <4>2. j - Len(answers) \in 1..Len(q) /\ answers'[j] = q[j - Len(answers)]
                BY <3>3, <2>9, <2>10
            <4>3. answers'[j].req \notin Answered
                BY <4>2, <2>4, <2>11
            <4>. QED
                BY <4>1, <4>3
        <3>4. CASE j \notin 1..Len(answers) /\ k \notin 1..Len(answers)
            <4>. DEFINE x == j - Len(answers)  y == k - Len(answers)
            <4>1. x \in 1..Len(q) /\ y \in 1..Len(q) /\ q[x].req = q[y].req
                BY <3>4, <2>9, <2>10
            <4>2. q[x] = q[y]
                BY <4>1, <2>4, <2>11
            <4>3. x = y
                BY <4>1, <4>2, <2>5
            <4>. QED
                BY <4>3, <2>8, <2>9
        <3>. QED
            BY <3>1, <3>2, <3>3, <3>4
    <2>13. ToSet(answers') = ToSet(answers) \cup N
        <3>1. ASSUME NEW a \in ToSet(answers') PROVE a \in ToSet(answers) \cup N
            <4>1. PICK k \in 1..(Len(answers) + Len(q)) : a = answers'[k]
                BY <3>1, <2>9 DEF ToSet
            <4>. QED
                BY <4>1, <2>9, <2>10, <2>11
        <3>2. ASSUME NEW a \in ToSet(answers) PROVE a \in ToSet(answers')
            <4>1. PICK k \in 1..Len(answers) : a = answers[k]
                BY <3>2, <2>8 DEF ToSet
            <4>2. k \in DOMAIN answers' /\ answers'[k] = a
                BY <4>1, <2>5, <2>8, <2>9
            <4>. QED
                BY <4>2 DEF ToSet
        <3>3. ASSUME NEW a \in N PROVE a \in ToSet(answers')
            <4>1. PICK k \in 1..Len(q) : a = q[k]
                BY <3>3, <2>5 DEF ToSet
            <4>2. Len(answers) + k \in DOMAIN answers' /\ answers'[Len(answers) + k] = a
                BY <4>1, <2>5, <2>8, <2>9
            <4>. QED
                BY <4>2 DEF ToSet
        <3>. QED
            BY <3>1, <3>2, <3>3
    <2>. QED
        BY <2>9, <2>12, <2>13 DEF N
<1>NoPuts. ASSUME ManyTypes, Once(answers), UNCHANGED <<asked, answers>>, NEW what PROVE Grown({}, what)
    BY <1>NoPuts DEF ManyTypes
\* One step of a scan, seen from the others and from its own requests.
<1>. DEFINE Frame(s) ==
               /\ UNCHANGED <<asked, lead, ctxDone>> /\ ManyTypes'
               /\ \A t \in Scans : t # s => /\ at'[Scan(t)] = at[Scan(t)] /\ live'[t] = live[t]
                                            /\ outcome'[t] = outcome[t] /\ todo'[t] = todo[t]
               /\ \A i \in Reqs : i \notin Of(s) => state'[i] = state[i] /\ fed'[i] = fed[i]
               /\ \A i \in Of(s) : state[i] = "done" => state'[i] = "done" /\ fed'[i] = fed[i]
               /\ \A i \in Reqs : at'[Solo(i)] = at[Solo(i)] \/ at'[Solo(i)] = "asks"
            Own(S, what) ==
               /\ what = "gone" => S \subseteq ctxDone
               /\ what = "result" => \A i \in S :
                     state'[i] = "done" /\ \A n \in ScanItems : fed'[i][n] = 1
<1>Rigid. ASSUME UNCHANGED <<asked, lead>>
          PROVE  /\ Reqs' = Reqs /\ Scans' = Scans /\ Tasks' = Tasks /\ \A s : Of(s)' = Of(s)
                 /\ \A i : IsShared(i)' = IsShared(i)
    BY <1>Rigid DEF Reqs, Scans, Tasks, Of, IsShared
<1>Grows. ASSUME NEW S, NEW what, Grown(S, what)
          PROVE  /\ Answered' = Answered \cup S
                 /\ \A a \in ToSet(answers') : a \in ToSet(answers) \/ (a.what = what /\ a.req \in S)
    <2>1. \A a \in New(S, what) : a.what = what /\ a.req \in S \ Answered
        OBVIOUS
    <2>2. ASSUME NEW i \in S \ Answered PROVE \E a \in New(S, what) : a.req = i
        <3>1. [req |-> i, what |-> what] \in New(S, what) /\ [req |-> i, what |-> what].req = i
            OBVIOUS
        <3>. HIDE DEF New
        <3>. QED
            BY <3>1
    <2>. HIDE DEF New
    <2>3. Answered' = { a.req : a \in ToSet(answers) } \cup { a.req : a \in New(S, what) }
        BY <1>Grows DEF Answered
    <2>4. { a.req : a \in New(S, what) } = S \ Answered
        BY <2>1, <2>2
    <2>5. Answered' = Answered \cup S
        BY <2>3, <2>4 DEF Answered
    <2>6. \A a \in ToSet(answers') : a \in ToSet(answers) \/ (a.what = what /\ a.req \in S)
        BY <1>Grows, <2>1
    <2>. QED
        BY <2>5, <2>6
<1>. HIDE DEF New
\* Answers stay right when some are added.
<1>Answers. ASSUME AnswersInv, NEW S, NEW what, Grown(S, what),
                   \A a \in ToSet(answers) : state[a.req] = "done" =>
                        state'[a.req] = "done" /\ \A n \in ScanItems : fed'[a.req][n] = fed[a.req][n],
                   ctxDone \subseteq ctxDone', Own(S, what)
            PROVE  AnswersInv'
    <2>1. ASSUME NEW a \in ToSet(answers')
          PROVE  /\ a.what = "gone" => a.req \in ctxDone'
                 /\ a.what = "result" => state'[a.req] = "done" /\ \A n \in ScanItems : fed'[a.req][n] = 1
        <3>1. CASE a \in ToSet(answers)
            <4>1. a.what = "gone" => a.req \in ctxDone
                BY <1>Answers, <3>1 DEF AnswersInv
            <4>2. a.what = "result" => state[a.req] = "done" /\ \A n \in ScanItems : fed[a.req][n] = 1
                BY <1>Answers, <3>1 DEF AnswersInv, IsWhole
            <4>. QED
                BY <1>Answers, <3>1, <4>1, <4>2
        <3>2. CASE a.what = what /\ a.req \in S
            BY <1>Answers, <3>2
        <3>3. a \in ToSet(answers) \/ (a.what = what /\ a.req \in S)
            BY <1>Answers, <1>Grows
        <3>. QED
            BY <3>1, <3>2, <3>3
    <2>2. \A j, k \in DOMAIN answers' : answers'[j].req = answers'[k].req => j = k
        BY <1>Answers
    <2>. QED
        BY <2>1, <2>2 DEF AnswersInv, IsWhole
<1>ScanStep. ASSUME ManyInv, NEW s \in Scans, Frame(s), ScanInv(s)', NEW S \in SUBSET Of(s),
                    NEW what, Grown(S, what), Own(S, what)
             PROVE  ManyInv'
    <2>. USE <1>ScanStep
    <2>1. /\ ManyTypes' /\ Reqs' = Reqs /\ Scans' = Scans /\ \A t : Of(t)' = Of(t)
          /\ \A i : IsShared(i)' = IsShared(i)
        BY <1>Rigid
    <2>2. Answered' = Answered \cup S
        BY <1>Grows
    <2>3. AnswersInv'
        <3>1. \A a \in ToSet(answers) : a.req \in Reqs
            <4>1. answers \in Seq([req : Reqs, what : What])
                BY DEF ManyInv, ManyTypes
            <4>. QED
                <5>1. \A k \in DOMAIN answers : answers[k].req \in Reqs
                    <6>1. \A k \in DOMAIN answers : answers[k] \in [req : Reqs, what : What]
                        <7>1. \A X : \A u \in Seq(X) : \A k \in DOMAIN u : u[k] \in X
                            OBVIOUS
                        <7>. QED
                            BY <4>1, <7>1
                    <6>. QED
                        BY <6>1
                <5>. QED
                    BY <5>1 DEF ToSet
        <3>2. \A i \in Reqs : state[i] = "done" => state'[i] = "done" /\ fed'[i] = fed[i]
            OBVIOUS
        <3>. QED
            BY <3>1, <3>2, <1>Answers DEF ManyInv
    <2>4. ASSUME NEW t \in Scans, t # s PROVE ScanInv(t)'
        <3>1. ScanInv(t) /\ Of(t) \subseteq Reqs /\ Of(t) \cap Of(s) = {}
            BY <1>Tasks, <2>4 DEF ManyInv
        <3>2. /\ at'[Scan(t)] = at[Scan(t)] /\ live'[t] = live[t] /\ outcome'[t] = outcome[t]
                    /\ todo'[t] = todo[t]
              /\ \A i \in Of(t) : state'[i] = state[i] /\ fed'[i] = fed[i]
              /\ \A i \in Of(t) : at'[Solo(i)] = "none" => at[Solo(i)] = "none"
            BY <2>4, <3>1
        <3>3. Active(t)' = Active(t) /\ Live(t)' = Live(t) /\ Live(t) \subseteq Of(t)
            BY <2>1, <3>2 DEF Active, Live
        <3>4. /\ at'[Scan(t)] # "none" /\ Cardinality(Active(t)') <= live'[t]
              /\ outcome'[t] = "stopped" => Active(t)' = {}
              /\ at'[Scan(t)] \in {"ends", "freed"} /\ outcome'[t] = "none" => Live(t)' = {}
            BY <3>1, <3>2, <3>3 DEF ScanInv
        <3>5. at'[Scan(t)] = "scans" =>
                 \A i \in Live(t)' : \A n \in ScanItems :
                    fed'[i][n] = IF <<i, n>> \in todo'[t] THEN 0 ELSE 1
            <4>. SUFFICES ASSUME at[Scan(t)] = "scans", NEW i \in Live(t), NEW n \in ScanItems
                          PROVE  fed'[i][n] = IF <<i, n>> \in todo'[t] THEN 0 ELSE 1
                BY <3>2, <3>3
            <4>1. fed[i][n] = IF <<i, n>> \in todo[t] THEN 0 ELSE 1
                BY <3>1 DEF ScanInv
            <4>2. fed'[i] = fed[i] /\ todo'[t] = todo[t]
                BY <3>2, <3>3
            <4>. QED
                BY <4>1, <4>2
        <3>6. /\ at'[Scan(t)] = "finishes" => \A i \in Live(t)' : IsWhole(i)'
              /\ \A i \in Of(t) : state'[i] = "finishing" => IsWhole(i)'
            BY <3>1, <3>2, <3>3 DEF ScanInv, IsWhole
        <3>7. /\ \A i \in Of(t) : state'[i] = "done" => i \in Answered'
              /\ at'[Scan(t)] = "joins" => \A i \in Of(t) : state'[i] = "done" \/ at'[Solo(i)] # "none"
              /\ at'[Scan(t)] = "ended" => Of(t) \subseteq Answered'
            BY <3>1, <3>2, <2>2 DEF ScanInv
        <3>. QED
            BY <2>1, <3>4, <3>5, <3>6, <3>7 DEF ScanInv
    <2>5. ASSUME NEW i \in Reqs PROVE AloneInv(i)'
        <3>1. AloneInv(i)
            BY DEF ManyInv
        <3>. QED
            BY <3>1, <2>2 DEF AloneInv
    <2>. QED
        BY <2>1, <2>3, <2>4, <2>5 DEF ManyInv
<1>Types. ASSUME ManyTypes, UNCHANGED <<asked, lead>>, at' \in [Tasks -> Stage],
                 state' \in [Reqs -> {"live", "done", "evicted", "finishing"}],
                 live' \in [Scans -> Nat], todo' \in [Scans -> SUBSET (Reqs \X ScanItems)],
                 fed' \in [Reqs -> [ScanItems -> Nat]],
                 outcome' \in [Scans -> {"none", "stopped", "absent", "broken"}],
                 answers' \in Seq([req : Reqs, what : What])
          PROVE  ManyTypes'
    BY <1>Types, <1>Rigid DEF ManyTypes
<1>Gone. ASSUME ManyTypes, NEW t \in Tasks, NEW from, NEW to \in Stage, Goes(t, from, to)
         PROVE  /\ at[t] = from /\ at' \in [Tasks -> Stage] /\ at'[t] = to
                /\ \A u \in Tasks : u # t => at'[u] = at[u]
    BY <1>Gone DEF ManyTypes, Goes
<1>ScanGoes. ASSUME ManyTypes, NEW s \in Scans, NEW from, NEW to \in Stage, Goes(Scan(s), from, to)
             PROVE  /\ at[Scan(s)] = from /\ at' \in [Tasks -> Stage] /\ at'[Scan(s)] = to
                    /\ \A t \in Scans : t # s => at'[Scan(t)] = at[Scan(t)]
                    /\ \A i \in Reqs : at'[Solo(i)] = at[Solo(i)]
    BY <1>ScanGoes, <1>Gone, <1>Tasks, <1>Names
\* A request answered alone.
<1>AloneStep. ASSUME ManyInv, NEW i \in Reqs, NEW from, NEW to \in Stage, Goes(Solo(i), from, to),
                     UNCHANGED <<asked, lead, state, live, todo, fed, outcome, ctxDone>>,
                     NEW S \in SUBSET {i}, NEW what, Grown(S, what),
                     what = "gone" => S \subseteq ctxDone, what # "result",
                     to # "none", to = "ended" => S = {i}
              PROVE  ManyInv'
    <2>. USE <1>AloneStep
    <2>1. /\ at[Solo(i)] = from /\ at' \in [Tasks -> Stage] /\ at'[Solo(i)] = to
          /\ \A t \in Scans : at'[Scan(t)] = at[Scan(t)]
          /\ \A j \in Reqs : j # i => at'[Solo(j)] = at[Solo(j)]
        BY <1>Gone, <1>Tasks, <1>Names DEF ManyInv
    <2>2. /\ ManyTypes' /\ Reqs' = Reqs /\ Scans' = Scans /\ \A t : Of(t)' = Of(t)
        <3>1. ManyTypes'
            BY <2>1, <1>Types DEF ManyInv, ManyTypes
        <3>. QED
            BY <3>1, <1>Rigid
    <2>3. Answered' = Answered \cup S
        BY <1>Grows
    <2>4. AnswersInv'
        BY <1>Answers DEF ManyInv
    <2>5. ASSUME NEW t \in Scans PROVE ScanInv(t)'
        <3>1. ScanInv(t) /\ Of(t) \subseteq Reqs
            BY <1>Tasks DEF ManyInv
        <3>2. /\ Active(t)' = Active(t) /\ Live(t)' = Live(t) /\ Of(t)' = Of(t)
              /\ \A j : IsWhole(j)' = IsWhole(j)
            BY <2>2 DEF Active, Live, IsWhole
        <3>3. /\ at'[Scan(t)] = "joins" => \A j \in Of(t) : state[j] = "done" \/ at'[Solo(j)] # "none"
              /\ \A j \in Of(t) : state[j] = "done" => j \in Answered'
              /\ at'[Scan(t)] = "ended" => Of(t) \subseteq Answered'
            BY <3>1, <2>1, <2>3 DEF ScanInv
        <3>. QED
            BY <3>1, <3>2, <3>3, <2>1 DEF ScanInv
    <2>6. ASSUME NEW j \in Reqs PROVE AloneInv(j)'
        <3>1. AloneInv(j)
            BY DEF ManyInv
        <3>. QED
            BY <3>1, <2>1, <2>3 DEF AloneInv
    <2>. QED
        BY <2>2, <2>4, <2>5, <2>6 DEF ManyInv
\* A scan that goes on, and changes nothing of its requests.
<1>Moves. ASSUME ManyInv, NEW s \in Scans, NEW from, NEW to \in Stage \ {"none", "joins"},
                 Goes(Scan(s), from, to),
                 UNCHANGED <<asked, lead, reqVars, todo, fed, ctxDone>>,
                 outcome' \in [Scans -> {"none", "stopped", "absent", "broken"}],
                 \A t \in Scans : t # s => outcome'[t] = outcome[t],
                 outcome'[s] = "stopped" => outcome[s] = "stopped" \/ Stopped(s),
                 to \in {"ends", "freed"} /\ outcome'[s] = "none" => Live(s) = {},
                 to = "scans" => \A i \in Live(s) : \A n \in ScanItems :
                                    fed[i][n] = IF <<i, n>> \in todo[s] THEN 0 ELSE 1,
                 to = "finishes" => \A i \in Live(s) : IsWhole(i),
                 to = "ended" => Of(s) \subseteq Answered
          PROVE  ManyInv'
    <2>. USE <1>Moves
    <2>0. ManyTypes /\ ScanInv(s) /\ UNCHANGED <<state, live, answers>>
        BY DEF ManyInv, reqVars
    <2>1. /\ at' \in [Tasks -> Stage] /\ at'[Scan(s)] = to
          /\ \A t \in Scans : t # s => at'[Scan(t)] = at[Scan(t)]
          /\ \A i \in Reqs : at'[Solo(i)] = at[Solo(i)]
        BY <2>0, <1>ScanGoes
    <2>2. ManyTypes'
        BY <2>0, <2>1, <1>Types DEF ManyTypes
    <2>3. Frame(s)
        BY <2>0, <2>1, <2>2
    <2>4. Grown({}, "own")
        BY <2>0, <1>NoPuts DEF ManyInv, AnswersInv
    <2>5. /\ Of(s)' = Of(s) /\ Active(s)' = Active(s) /\ Live(s)' = Live(s) /\ Answered' = Answered
          /\ \A i : IsWhole(i)' = IsWhole(i)
        BY <2>0, <1>Rigid DEF Active, Live, Answered, IsWhole
    <2>6. Stopped(s) => Active(s) = {}
        <3>1. IsFiniteSet(Active(s)) /\ Cardinality(Active(s)) \in Nat
            BY <2>0, <1>Finite, <1>Tasks DEF ManyTypes
        <3>2. Stopped(s) => Cardinality(Active(s)) = 0
            BY <2>0, <3>1 DEF ScanInv, Stopped
        <3>. QED
            BY <3>1, <3>2, FS_EmptySet
    <2>7. ScanInv(s)'
        BY <2>0, <2>1, <2>5, <2>6 DEF ScanInv
    <2>8. Own({}, "own")
        OBVIOUS
    <2>. HIDE DEF Frame, Own, Grown
    <2>. QED
        BY <2>3, <2>4, <2>7, <2>8, <1>ScanStep
\* A scan some of whose requests leave it.
<1>Leaving. ASSUME ManyInv, NEW s \in Scans, NEW S \in SUBSET Live(s), NEW to \in {"done", "evicted"},
                   Leaves(s, S, to), at[Scan(s)] \notin {"joins", "ended"},
                   UNCHANGED <<asked, lead, at, todo, fed, outcome, ctxDone>>,
                   NEW T \in SUBSET S, NEW what, Grown(T, what), to = "done" => T = S,
                   what = "gone" => T \subseteq ctxDone, what # "result"
            PROVE  ManyInv'
    <2>. USE <1>Leaving
    <2>0. ManyTypes /\ ScanInv(s)
        BY DEF ManyInv
    <2>1. /\ IsFiniteSet(Active(s)) /\ Cardinality(S) \in Nat /\ Cardinality(Active(s)) \in Nat
          /\ S \subseteq Active(s) /\ S \subseteq Of(s) /\ Of(s) \subseteq Reqs
        <3>1. S \subseteq Active(s) /\ Active(s) \subseteq Reqs /\ S \subseteq Of(s)
                 /\ Of(s) \subseteq Reqs
            BY <1>Tasks
        <3>. QED
            BY <2>0, <3>1, <1>Finite DEF ManyTypes
    <2>2. Cardinality(S) <= Cardinality(Active(s))
          /\ Cardinality(Active(s) \ S) = Cardinality(Active(s)) - Cardinality(S)
        <3>1. Cardinality(S) <= Cardinality(Active(s))
            BY <2>1, FS_Subset
        <3>2. /\ IsFiniteSet(S) /\ IsFiniteSet(Active(s) \ S) /\ Cardinality(Active(s) \ S) \in Nat
            BY <2>1, FS_Subset, FS_CardinalityType
        <3>3. Cardinality(S \cup (Active(s) \ S))
                 = Cardinality(S) + Cardinality(Active(s) \ S) - Cardinality(S \cap (Active(s) \ S))
            BY <3>2, FS_Union
        <3>4. S \cup (Active(s) \ S) = Active(s) /\ S \cap (Active(s) \ S) = {}
            BY <2>1
        <3>5. Cardinality(Active(s)) = Cardinality(S) + Cardinality(Active(s) \ S) - 0
            BY <3>3, <3>4, FS_EmptySet
        <3>. QED
            BY <2>1, <3>1, <3>2, <3>5
    <2>3. /\ state' = [i \in Reqs |-> IF i \in S THEN to ELSE state[i]]
          /\ live' = [live EXCEPT ![s] = live[s] - Cardinality(S)]
        BY DEF Leaves
    <2>4. live[s] - Cardinality(S) \in Nat /\ Cardinality(Active(s) \ S) <= live[s] - Cardinality(S)
        <3>1. live[s] \in Nat /\ Cardinality(Active(s)) <= live[s]
            BY <2>0 DEF ManyTypes, ScanInv
        <3>. QED
            BY <3>1, <2>1, <2>2
    <2>5. ManyTypes'
        <3>1. live' \in [Scans -> Nat]
            BY <2>0, <2>3, <2>4 DEF ManyTypes
        <3>2. state' \in [Reqs -> {"live", "done", "evicted", "finishing"}]
            BY <2>0, <2>3 DEF ManyTypes
        <3>. QED
            BY <2>0, <3>1, <3>2, <1>Types DEF ManyTypes
    <2>6. Frame(s)
        <3>1. \A t \in Scans : t # s => live'[t] = live[t]
            BY <2>0, <2>3 DEF ManyTypes
        <3>2. /\ \A i \in Reqs : i \notin Of(s) => state'[i] = state[i]
              /\ \A i \in Of(s) : state[i] = "done" => state'[i] = "done"
            BY <2>1, <2>3 DEF Live
        <3>. QED
            BY <2>5, <3>1, <3>2
    <2>7. /\ Of(s)' = Of(s) /\ Active(s)' = Active(s) \ S /\ Live(s)' = Live(s) \ S
          /\ \A i : IsWhole(i)' = IsWhole(i)
        <3>1. Of(s)' = Of(s)
            BY <1>Rigid
        <3>2. \A i \in Of(s) : state'[i] = IF i \in S THEN to ELSE state[i]
            BY <2>1, <2>3
        <3>3. Active(s)' = Active(s) \ S /\ Live(s)' = Live(s) \ S
            BY <3>1, <3>2 DEF Active, Live
        <3>. QED
            BY <3>1, <3>3 DEF IsWhole
    <2>8. ScanInv(s)'
        <3>1. Answered' = Answered \cup T
            BY <1>Grows
        <3>2. Cardinality(Active(s)') <= live'[s]
            BY <2>0, <2>3, <2>4, <2>7 DEF ManyTypes
        <3>3. \A i \in Of(s) : /\ state'[i] = "done" => i \in Answered'
                               /\ state'[i] = "finishing" => state[i] = "finishing"
            BY <2>0, <2>1, <2>3, <3>1 DEF ScanInv
        <3>. QED
            BY <2>0, <2>7, <3>1, <3>2, <3>3 DEF ScanInv
    <2>9. Own(T, what)
        OBVIOUS
    <2>. HIDE DEF Frame, Own, Grown
    <2>. QED
        BY <2>1, <2>6, <2>8, <2>9, <1>ScanStep
<1>Begins. ASSUME ManyInv, NEW s \in Scans, Begins(s) PROVE ManyInv'
    <2>. USE <1>Begins
    <2>0. /\ ManyTypes /\ ScanInv(s) /\ UNCHANGED <<asked, lead, ctxDone, state, live, answers, outcome>>
          /\ fed' = Unfed(s) /\ todo' = [todo EXCEPT ![s] = Live(s) \X ScanItems]
        BY DEF ManyInv, Begins, UnchangedByScan, reqVars
    <2>. DEFINE to == IF Live(s) = {} THEN "finishes" ELSE "scans"
    <2>1. /\ at' \in [Tasks -> Stage] /\ at'[Scan(s)] = to
          /\ \A t \in Scans : t # s => at'[Scan(t)] = at[Scan(t)]
          /\ \A i \in Reqs : at'[Solo(i)] = at[Solo(i)]
        <3>1. to \in Stage /\ Goes(Scan(s), "begins", to)
            BY DEF Begins, Stage
        <3>. HIDE DEF to
        <3>. QED
            BY <2>0, <3>1, <1>ScanGoes
    <2>2. /\ Of(s) \subseteq Reqs /\ Live(s) \subseteq Of(s) /\ \A i \in Live(s) : state[i] = "live"
        BY <1>Tasks DEF Live
    <2>3. /\ fed' \in [Reqs -> [ScanItems -> Nat]]
          /\ \A i \in Reqs : i \notin Live(s) => fed'[i] = fed[i]
          /\ \A i \in Live(s) : \A n \in ScanItems : fed'[i][n] = 0
        BY <2>0, <2>2 DEF ManyTypes, Unfed
    <2>4. /\ todo' \in [Scans -> SUBSET (Reqs \X ScanItems)]
          /\ todo'[s] = Live(s) \X ScanItems /\ \A t \in Scans : t # s => todo'[t] = todo[t]
        BY <2>0, <2>2 DEF ManyTypes
    <2>5. ManyTypes'
        BY <2>0, <2>1, <2>3, <2>4, <1>Types DEF ManyTypes
    <2>6. Frame(s)
        <3>1. /\ \A i \in Reqs : i \notin Of(s) => fed'[i] = fed[i]
              /\ \A i \in Of(s) : state[i] = "done" => fed'[i] = fed[i]
            BY <2>2, <2>3
        <3>. QED
            BY <2>0, <2>1, <2>4, <2>5, <3>1
    <2>7. Of(s)' = Of(s) /\ Active(s)' = Active(s) /\ Live(s)' = Live(s) /\ Answered' = Answered
        BY <2>0, <1>Rigid DEF Active, Live, Answered
    <2>8. ScanInv(s)'
        <3>1. \A i \in Of(s) : state'[i] = "finishing" => IsWhole(i)'
            BY <2>0, <2>2, <2>3 DEF ScanInv, IsWhole
        <3>2. at'[Scan(s)] = "finishes" => \A i \in Live(s)' : IsWhole(i)'
            BY <2>1, <2>7
        <3>3. \A i \in Live(s)' : \A n \in ScanItems : fed'[i][n] = IF <<i, n>> \in todo'[s] THEN 0 ELSE 1
            BY <2>3, <2>4, <2>7
        <3>. QED
            BY <2>0, <2>1, <2>7, <3>1, <3>2, <3>3 DEF ScanInv
    <2>9. Grown({}, "own") /\ Own({}, "own")
        BY <2>0, <1>NoPuts DEF ManyInv, AnswersInv
    <2>. HIDE DEF Frame, Own, Grown
    <2>. QED
        BY <2>6, <2>8, <2>9, <1>ScanStep
<1>Feeds. ASSUME ManyInv, NEW s \in Scans, NEW i \in Of(s), NEW n \in ScanItems, Feeds(s, i, n)
         PROVE  ManyInv'
    <2>. USE <1>Feeds
    <2>0. /\ ManyTypes /\ ScanInv(s)
                /\ UNCHANGED <<asked, lead, ctxDone, state, live, answers, outcome, at>>
          /\ at[Scan(s)] = "scans" /\ <<i, n>> \in todo[s] /\ state[i] = "live"
          /\ fed' = [fed EXCEPT ![i][n] = @ + 1] /\ todo' = [todo EXCEPT ![s] = @ \ {<<i, n>>}]
        BY DEF ManyInv, Feeds, UnchangedByScan, reqVars, turnVars
    <2>1. i \in Reqs /\ i \in Live(s) /\ Of(s) \subseteq Reqs
        BY <2>0, <1>Tasks DEF Live
    <2>2. /\ fed' \in [Reqs -> [ScanItems -> Nat]]
          /\ \A j \in Reqs : j # i => fed'[j] = fed[j]
          /\ \A k \in ScanItems : fed'[i][k] = IF k = n THEN fed[i][n] + 1 ELSE fed[i][k]
        BY <2>0, <2>1 DEF ManyTypes
    <2>3. /\ todo' \in [Scans -> SUBSET (Reqs \X ScanItems)]
          /\ todo'[s] = todo[s] \ {<<i, n>>} /\ \A t \in Scans : t # s => todo'[t] = todo[t]
        BY <2>0 DEF ManyTypes
    <2>4. ManyTypes'
        BY <2>0, <2>2, <2>3, <1>Types DEF ManyTypes
    <2>5. Frame(s)
        <3>1. /\ \A j \in Reqs : j \notin Of(s) => fed'[j] = fed[j]
              /\ \A j \in Of(s) : state[j] = "done" => fed'[j] = fed[j]
            BY <2>0, <2>1, <2>2
        <3>. QED
            BY <2>0, <2>3, <2>4, <3>1
    <2>6. Of(s)' = Of(s) /\ Active(s)' = Active(s) /\ Live(s)' = Live(s) /\ Answered' = Answered
        BY <2>0, <1>Rigid DEF Active, Live, Answered
    <2>7. ScanInv(s)'
        <3>1. \A j \in Of(s) : state'[j] = "finishing" => IsWhole(j)'
            BY <2>0, <2>1, <2>2 DEF ScanInv, IsWhole
        <3>2. ASSUME NEW j \in Live(s), NEW k \in ScanItems
              PROVE  fed'[j][k] = IF <<j, k>> \in todo'[s] THEN 0 ELSE 1
            <4>1. fed[j][k] = IF <<j, k>> \in todo[s] THEN 0 ELSE 1
                BY <2>0, <3>2 DEF ScanInv
            <4>2. j \in Reqs
                BY <2>1, <1>Tasks
            <4>3. CASE j = i /\ k = n
                <5>1. fed[i][n] = 0 /\ fed'[i][n] = fed[i][n] + 1 /\ <<j, k>> \notin todo'[s]
                    BY <2>0, <2>2, <2>3, <4>1, <4>3
                <5>. QED
                    BY <4>3, <5>1
            <4>4. CASE j # i \/ k # n
                <5>1. fed'[j][k] = fed[j][k] /\ (<<j, k>> \in todo'[s] <=> <<j, k>> \in todo[s])
                    BY <2>2, <2>3, <4>2, <4>4
                <5>. QED
                    BY <4>1, <5>1
            <4>. QED
                BY <4>3, <4>4
        <3>. QED
            BY <2>0, <2>6, <3>1, <3>2 DEF ScanInv
    <2>8. Grown({}, "own") /\ Own({}, "own")
        BY <2>0, <1>NoPuts DEF ManyInv, AnswersInv
    <2>. HIDE DEF Frame, Own, Grown
    <2>. QED
        BY <2>5, <2>7, <2>8, <1>ScanStep
<1>Finishes. ASSUME ManyInv, NEW s \in Scans, Finishes(s) PROVE ManyInv'
    <2>. USE <1>Finishes
    <2>. DEFINE i == Min(Live(s))
    <2>0. /\ ManyTypes /\ ScanInv(s) /\ UNCHANGED <<asked, lead, ctxDone, live, todo, fed, outcome, at>>
          /\ at[Scan(s)] = "finishes" /\ Live(s) # {}
        BY DEF ManyInv, Finishes, UnchangedByScan, feedVars, turnVars
    <2>1. i \in Live(s)
        <3>1. Live(s) \in SUBSET Nat /\ Live(s) # {}
            BY <2>0, <1>Finite, <1>Tasks DEF ManyTypes
        <3>2. \E k \in Live(s) : \A j \in Live(s) : k <= j
            BY <3>1, LeastNumber
        <3>. QED
            BY <3>2 DEF Min
    <2>2. \/ state' = [state EXCEPT ![i] = "finishing"] /\ UNCHANGED answers
          \/ state' = [state EXCEPT ![i] = "done"] /\ Puts({i}, "failed")
        BY DEF Finishes
    <2>. HIDE DEF i
    <2>3. i \in Of(s) /\ i \in Reqs /\ state[i] = "live" /\ Of(s) \subseteq Reqs
             /\ Active(s) \subseteq Reqs
        BY <2>1, <1>Tasks DEF Live
    <2>4. PICK to \in {"finishing", "done"}, S \in SUBSET {i} :
             /\ state' = [state EXCEPT ![i] = to] /\ Grown(S, "failed") /\ (to = "done" => S = {i})
        <3>1. Once(answers)
            BY DEF ManyInv, AnswersInv
        <3>2. CASE state' = [state EXCEPT ![i] = "finishing"] /\ UNCHANGED answers
            <4>1. Grown({}, "failed")
                BY <2>0, <3>1, <3>2, <1>NoPuts
            <4>. HIDE DEF Grown
            <4>. QED
                BY <3>2, <4>1
        <3>3. CASE state' = [state EXCEPT ![i] = "done"] /\ Puts({i}, "failed")
            <4>1. Grown({i}, "failed")
                BY <2>0, <2>3, <3>1, <3>3, <1>Puts DEF What
            <4>. HIDE DEF Grown
            <4>. QED
                BY <3>3, <4>1
        <3>. QED
            BY <2>2, <3>2, <3>3
    <2>5. /\ state' \in [Reqs -> {"live", "done", "evicted", "finishing"}] /\ state'[i] = to
          /\ \A j \in Reqs : j # i => state'[j] = state[j]
        BY <2>0, <2>3, <2>4 DEF ManyTypes
    <2>6. ManyTypes'
        BY <2>0, <2>4, <2>5, <1>Types DEF ManyTypes
    <2>7. Frame(s)
        BY <2>0, <2>3, <2>5, <2>6
    <2>8. /\ Of(s)' = Of(s) /\ Active(s)' \subseteq Active(s) /\ Live(s)' \subseteq Live(s)
          /\ \A j : IsWhole(j)' = IsWhole(j)
        <3>1. Of(s)' = Of(s)
            BY <2>0, <1>Rigid
        <3>2. Active(s)' \subseteq Active(s) /\ Live(s)' \subseteq Live(s)
            BY <3>1, <2>3, <2>5 DEF Active, Live
        <3>. QED
            BY <2>0, <3>1, <3>2 DEF IsWhole
    <2>9. ScanInv(s)'
        <3>1. Answered' = Answered \cup S
            BY <2>4, <1>Grows
        <3>2. Cardinality(Active(s)') <= live'[s]
            <4>1. IsFiniteSet(Active(s)) /\ Cardinality(Active(s)) \in Nat
                BY <2>0, <2>3, <1>Finite DEF ManyTypes
            <4>2. Cardinality(Active(s)') <= Cardinality(Active(s)) /\ Cardinality(Active(s)') \in Nat
                BY <2>8, <4>1, FS_Subset, FS_CardinalityType
            <4>3. live'[s] = live[s] /\ live[s] \in Nat /\ Cardinality(Active(s)) <= live[s]
                BY <2>0 DEF ManyTypes, ScanInv
            <4>. QED
                BY <4>1, <4>2, <4>3
        <3>3. \A j \in Of(s) : state'[j] = "finishing" => IsWhole(j)'
            BY <2>0, <2>1, <2>3, <2>5, <2>8 DEF ScanInv
        <3>4. \A j \in Of(s) : state'[j] = "done" => j \in Answered'
            BY <2>0, <2>3, <2>4, <2>5, <3>1 DEF ScanInv
        <3>. QED
            BY <2>0, <2>8, <3>2, <3>3, <3>4 DEF ScanInv
    <2>10. Own(S, "failed") /\ S \in SUBSET Of(s)
        BY <2>3
    <2>. HIDE DEF Frame, Own, Grown
    <2>. QED
        BY <2>4, <2>7, <2>9, <2>10, <1>ScanStep
<1>Collects. ASSUME ManyInv, NEW s \in Scans, Collects(s) PROVE ManyInv'
    <2>. USE <1>Collects
    <2>. DEFINE out(x) == { i \in Of(s) : state[i] = x }
                S == out("finishing") \cup out("live")
                what == IF outcome[s] # "none" THEN outcome[s]
                        ELSE IF out("live") = {} THEN "result" ELSE "unanswered"
    <2>0. /\ ManyTypes /\ ScanInv(s) /\ UNCHANGED <<asked, lead, ctxDone, live, todo, fed, outcome>>
          /\ at[Scan(s)] = "freed" /\ Puts(S, what)
          /\ state' = [i \in Reqs |-> IF i \in Of(s) \ out("evicted") THEN "done" ELSE state[i]]
          /\ at' = [t \in Tasks |-> IF t = Scan(s) THEN "joins"
                                    ELSE IF t[1] = "solo" /\ t[2] \in out("evicted") THEN "asks"
                                    ELSE at[t]]
        BY DEF ManyInv, Collects, UnchangedByScan, feedVars
    <2>1. /\ Of(s) \subseteq Reqs /\ S \subseteq Of(s) /\ S = Active(s) /\ out("live") = Live(s)
          /\ \A i \in Of(s) : state[i] \in {"live", "done", "evicted", "finishing"}
        BY <2>0, <1>Tasks DEF ManyTypes, Active, Live
    <2>2. /\ what \in What \/ S = {}
          /\ what = "result" => outcome[s] = "none" /\ Live(s) = {}
          /\ what # "gone"
        <3>1. outcome[s] \in {"none", "stopped", "absent", "broken"}
            BY <2>0 DEF ManyTypes
        <3>2. outcome[s] = "stopped" => S = {}
            BY <2>0, <2>1 DEF ScanInv
        <3>3. outcome[s] = "none" => Live(s) = {}
            BY <2>0 DEF ScanInv
        <3>. QED
            BY <2>1, <3>1, <3>2, <3>3 DEF What
    <2>3. \A i \in S : state'[i] = "done"
        BY <2>0, <2>1
    <2>4. what = "result" => \A i \in S : IsWhole(i)
        <3>1. Live(s) = {} => \A i \in S : state[i] = "finishing"
            BY <2>1
        <3>. QED
            BY <2>0, <2>1, <2>2, <3>1 DEF ScanInv
    <2>. HIDE DEF what
    <2>5. Grown(S, what)
        <3>1. Once(answers)
            BY DEF ManyInv, AnswersInv
        <3>2. S \in SUBSET Reqs
            BY <2>1
        <3>. HIDE DEF S
        <3>. QED
            BY <2>0, <2>2, <3>1, <3>2, <1>Puts
    <2>6. /\ at' \in [Tasks -> Stage] /\ at'[Scan(s)] = "joins"
          /\ \A t \in Scans : t # s => at'[Scan(t)] = at[Scan(t)]
          /\ \A i \in Reqs : at'[Solo(i)] = IF i \in out("evicted") THEN "asks" ELSE at[Solo(i)]
        <3>1. at' \in [Tasks -> Stage]
            BY <2>0 DEF ManyTypes, Stage
        <3>. QED
            BY <2>0, <3>1, <1>Tasks, <1>Names
    <2>7. state' \in [Reqs -> {"live", "done", "evicted", "finishing"}]
        BY <2>0 DEF ManyTypes
    <2>8. ManyTypes'
        BY <2>0, <2>5, <2>6, <2>7, <1>Types DEF ManyTypes
    <2>9. Frame(s)
        <3>1. /\ \A i \in Reqs : i \notin Of(s) => state'[i] = state[i]
              /\ \A i \in Of(s) : state[i] = "done" => state'[i] = "done"
            BY <2>0, <2>1
        <3>. QED
            BY <2>0, <2>6, <2>8, <3>1
    <2>10. ScanInv(s)'
        <3>1. Of(s)' = Of(s) /\ Active(s)' = {} /\ Live(s)' = {} /\ \A i : IsWhole(i)' = IsWhole(i)
            <4>1. Of(s)' = Of(s)
                BY <2>0, <1>Rigid
            <4>2. \A i \in Of(s) : state'[i] \in {"done", "evicted"}
                BY <2>0, <2>1
            <4>. QED
                BY <2>0, <4>1, <4>2 DEF Active, Live, IsWhole
        <3>2. Cardinality(Active(s)') <= live'[s]
            BY <2>0, <3>1, FS_EmptySet DEF ManyTypes
        <3>3. \A i \in Of(s) : state'[i] = "done" => i \in Answered'
            <4>1. Answered' = Answered \cup S
                BY <2>5, <1>Grows
            <4>2. \A i \in Of(s) : state'[i] = "done" => state[i] = "done" \/ i \in S
                BY <2>0, <2>1
            <4>. QED
                BY <2>0, <4>1, <4>2 DEF ScanInv
        <3>4. \A i \in Of(s) : state'[i] = "done" \/ at'[Solo(i)] # "none"
            BY <2>0, <2>1, <2>6
        <3>5. \A i \in Of(s) : state'[i] # "finishing"
            BY <2>0, <2>1
        <3>. QED
            BY <2>6, <3>1, <3>2, <3>3, <3>4, <3>5 DEF ScanInv
    <2>11. Own(S, what) /\ S \in SUBSET Of(s)
        BY <2>0, <2>1, <2>2, <2>3, <2>4 DEF IsWhole
    <2>. HIDE DEF Frame, Own, Grown, S
    <2>. QED
        BY <2>5, <2>9, <2>10, <2>11, <1>ScanStep
<1>SweepsPanic. ASSUME ManyInv, NEW s \in Scans, SweepsPanic(s) PROVE ManyInv'
    <2>. USE <1>SweepsPanic
    <2>0. /\ ManyTypes /\ ScanInv(s)
                /\ UNCHANGED <<asked, lead, ctxDone, state, live, todo, fed, outcome>>
          /\ Goes(Scan(s), "panicked", "ended") /\ Puts(Of(s), "internal")
        BY DEF ManyInv, SweepsPanic, UnchangedByScan, feedVars
    <2>1. /\ at' \in [Tasks -> Stage] /\ at'[Scan(s)] = "ended"
          /\ \A t \in Scans : t # s => at'[Scan(t)] = at[Scan(t)]
          /\ \A i \in Reqs : at'[Solo(i)] = at[Solo(i)]
        <3>1. "ended" \in Stage
            BY DEF Stage
        <3>. QED
            BY <2>0, <3>1, <1>ScanGoes
    <2>2. Grown(Of(s), "internal")
        <3>1. Once(answers) /\ Of(s) \in SUBSET Reqs /\ "internal" \in What
            BY <1>Tasks DEF ManyInv, AnswersInv, What
        <3>. QED
            BY <2>0, <3>1, <1>Puts
    <2>3. ManyTypes'
        BY <2>0, <2>1, <2>2, <1>Types DEF ManyTypes
    <2>4. Frame(s)
        BY <2>0, <2>1, <2>3
    <2>5. /\ Of(s)' = Of(s) /\ Active(s)' = Active(s) /\ Live(s)' = Live(s)
          /\ \A i : IsWhole(i)' = IsWhole(i)
        BY <2>0, <1>Rigid DEF Active, Live, IsWhole
    <2>6. ScanInv(s)'
        <3>1. Answered' = Answered \cup Of(s)
            BY <2>2, <1>Grows
        <3>. QED
            BY <2>0, <2>1, <2>5, <3>1 DEF ScanInv
    <2>7. Own(Of(s), "internal")
        OBVIOUS
    <2>. HIDE DEF Frame, Own, Grown
    <2>. QED
        BY <2>2, <2>4, <2>6, <2>7, <1>ScanStep
\* What changes nothing but the contexts that are done, or nothing at all.
<1>Rests. ASSUME ManyInv, ctxDone \subseteq ctxDone',
                 UNCHANGED <<asked, lead, at, state, live, answers, todo, fed, outcome>>
          PROVE  ManyInv'
    <2>. USE <1>Rests
    <2>1. /\ Reqs' = Reqs /\ Scans' = Scans /\ Tasks' = Tasks /\ \A s : Of(s)' = Of(s)
        BY <1>Rigid
    <2>2. ManyTypes'
        BY <2>1 DEF ManyInv, ManyTypes
    <2>3. AnswersInv'
        BY DEF ManyInv, AnswersInv, IsWhole
    <2>4. ASSUME NEW s \in Scans PROVE ScanInv(s)'
        <3>1. ScanInv(s)
            BY DEF ManyInv
        <3>2. Active(s)' = Active(s) /\ Live(s)' = Live(s) /\ Answered' = Answered
                 /\ \A i : IsWhole(i)' = IsWhole(i)
            BY <2>1 DEF Active, Live, Answered, IsWhole
        <3>. QED
            BY <2>1, <3>1, <3>2 DEF ScanInv
    <2>5. ASSUME NEW i \in Reqs PROVE AloneInv(i)'
        <3>1. AloneInv(i)
            BY DEF ManyInv
        <3>. QED
            BY <3>1 DEF AloneInv, Answered
    <2>. QED
        BY <2>1, <2>2, <2>3, <2>4, <2>5 DEF ManyInv
\* The steps of a scan that change nothing of its requests.
<1>Why. ASSUME ManyInv, NEW s \in Scans, NEW why \in {"none", "stopped", "absent", "broken"},
               outcome' = [outcome EXCEPT ![s] = why]
        PROVE  /\ outcome' \in [Scans -> {"none", "stopped", "absent", "broken"}] /\ outcome'[s] = why
               /\ \A t \in Scans : t # s => outcome'[t] = outcome[t]
    BY <1>Why DEF ManyInv, ManyTypes
<1>Asks. ASSUME ManyInv, NEW s \in Scans, Asks(s) PROVE ManyInv'
    <2>. USE <1>Asks
    <2>0. /\ UNCHANGED <<asked, lead, reqVars, todo, fed, ctxDone>>
          /\ outcome \in [Scans -> {"none", "stopped", "absent", "broken"}]
        BY DEF Asks, UnchangedByScan, feedVars, ManyInv, ManyTypes
    <2>1. CASE Stopped(s)
        <3>1. Goes(Scan(s), "asks", "freed") /\ outcome' = [outcome EXCEPT ![s] = "stopped"]
            BY <2>1 DEF Asks
        <3>2. "freed" \in Stage \ {"none", "joins"}
            BY DEF Stage
        <3>3. /\ outcome' \in [Scans -> {"none", "stopped", "absent", "broken"}]
                    /\ outcome'[s] = "stopped"
              /\ \A t \in Scans : t # s => outcome'[t] = outcome[t]
            BY <3>1, <1>Why
        <3>. QED
            BY <2>0, <2>1, <3>1, <3>2, <3>3, <1>Moves
    <2>2. CASE ~Stopped(s)
        <3>1. UNCHANGED outcome /\ (Goes(Scan(s), "asks", "begins") \/ Goes(Scan(s), "asks", "queued"))
            BY <2>2 DEF Asks, Acquires
        <3>2. {"begins", "queued"} \subseteq Stage \ {"none", "joins"}
            BY DEF Stage
        <3>3. CASE Goes(Scan(s), "asks", "begins")
            BY <2>0, <3>1, <3>2, <3>3, <1>Moves
        <3>4. CASE Goes(Scan(s), "asks", "queued")
            BY <2>0, <3>1, <3>2, <3>4, <1>Moves
        <3>. QED
            BY <3>1, <3>3, <3>4
    <2>. QED
        BY <2>1, <2>2
<1>GetsTurns. ASSUME ManyInv, NEW s \in Scans, GetsTurns(s) PROVE ManyInv'
    <2>1. /\ UNCHANGED <<asked, lead, reqVars, todo, fed, ctxDone, outcome>>
          /\ outcome \in [Scans -> {"none", "stopped", "absent", "broken"}]
          /\ Goes(Scan(s), "queued", "begins") /\ "begins" \in Stage \ {"none", "joins"}
        BY <1>GetsTurns DEF GetsTurns, UnchangedByScan, feedVars, ManyInv, ManyTypes, Stage
    <2>. QED
        BY <2>1, <1>GetsTurns, <1>Moves
<1>GivesUpTurns. ASSUME ManyInv, NEW s \in Scans, GivesUpTurns(s) PROVE ManyInv'
    <2>1. /\ UNCHANGED <<asked, lead, reqVars, todo, fed, ctxDone>> /\ Stopped(s)
          /\ outcome' = [outcome EXCEPT ![s] = "stopped"]
          /\ Goes(Scan(s), "queued", "freed") /\ "freed" \in Stage \ {"none", "joins"}
        BY <1>GivesUpTurns DEF GivesUpTurns, UnchangedByScan, feedVars, Stage
    <2>2. /\ outcome' \in [Scans -> {"none", "stopped", "absent", "broken"}] /\ outcome'[s] = "stopped"
          /\ \A t \in Scans : t # s => outcome'[t] = outcome[t]
        BY <2>1, <1>GivesUpTurns, <1>Why
    <2>. QED
        BY <2>1, <2>2, <1>GivesUpTurns, <1>Moves
<1>FileGone. ASSUME ManyInv, NEW s \in Scans, FileGone(s) PROVE ManyInv'
    <2>. USE <1>FileGone
    <2>0. /\ UNCHANGED <<asked, lead, reqVars, todo, fed, ctxDone>>
          /\ outcome \in [Scans -> {"none", "stopped", "absent", "broken"}]
          /\ \/ Goes(Scan(s), "scans", "waits") /\ UNCHANGED outcome
             \/ Goes(Scan(s), "scans", "ends") /\ outcome' = [outcome EXCEPT ![s] = "absent"]
        BY DEF FileGone, TurnEnds, UnchangedByScan, feedVars, ManyInv, ManyTypes
    <2>1. {"waits", "ends"} \subseteq Stage \ {"none", "joins"}
        BY DEF Stage
    <2>2. CASE Goes(Scan(s), "scans", "waits") /\ UNCHANGED outcome
        BY <2>0, <2>1, <2>2, <1>Moves
    <2>3. CASE Goes(Scan(s), "scans", "ends") /\ outcome' = [outcome EXCEPT ![s] = "absent"]
        <3>1. /\ outcome' \in [Scans -> {"none", "stopped", "absent", "broken"}] /\ outcome'[s] = "absent"
              /\ \A t \in Scans : t # s => outcome'[t] = outcome[t]
            BY <2>3, <1>Why
        <3>. QED
            BY <2>0, <2>1, <2>3, <3>1, <1>Moves
    <2>. QED
        BY <2>0, <2>2, <2>3
<1>ReadFails. ASSUME ManyInv, NEW s \in Scans, ReadFails(s) PROVE ManyInv'
    <2>1. /\ UNCHANGED <<asked, lead, reqVars, todo, fed, ctxDone>>
          /\ outcome' = [outcome EXCEPT ![s] = "broken"]
          /\ Goes(Scan(s), "scans", "ends") /\ "ends" \in Stage \ {"none", "joins"}
        BY <1>ReadFails DEF ReadFails, TurnEnds, UnchangedByScan, feedVars, Stage
    <2>2. /\ outcome' \in [Scans -> {"none", "stopped", "absent", "broken"}] /\ outcome'[s] = "broken"
          /\ \A t \in Scans : t # s => outcome'[t] = outcome[t]
        BY <2>1, <1>ReadFails, <1>Why
    <2>. QED
        BY <2>1, <2>2, <1>ReadFails, <1>Moves
<1>ScansAgain. ASSUME ManyInv, NEW s \in Scans, ScansAgain(s) PROVE ManyInv'
    <2>1. /\ UNCHANGED <<asked, lead, reqVars, todo, fed, ctxDone, outcome>>
          /\ outcome \in [Scans -> {"none", "stopped", "absent", "broken"}]
          /\ Goes(Scan(s), "waits", "begins") /\ "begins" \in Stage \ {"none", "joins"}
        BY <1>ScansAgain DEF ScansAgain, UnchangedByScan, feedVars, ManyInv, ManyTypes, Stage
    <2>. QED
        BY <2>1, <1>ScansAgain, <1>Moves
<1>ScanStops. ASSUME ManyInv, NEW s \in Scans, ScanStops(s) PROVE ManyInv'
    <2>. USE <1>ScanStops
    <2>1. PICK from \in {"scans", "waits"} : TurnEnds(s, from, "stopped")
        BY DEF ScanStops
    <2>2. /\ UNCHANGED <<asked, lead, reqVars, todo, fed, ctxDone>> /\ Stopped(s)
          /\ outcome' = [outcome EXCEPT ![s] = "stopped"]
          /\ Goes(Scan(s), from, "ends") /\ "ends" \in Stage \ {"none", "joins"}
        BY <2>1 DEF ScanStops, TurnEnds, UnchangedByScan, feedVars, Stage
    <2>3. /\ outcome' \in [Scans -> {"none", "stopped", "absent", "broken"}] /\ outcome'[s] = "stopped"
          /\ \A t \in Scans : t # s => outcome'[t] = outcome[t]
        BY <2>2, <1>Why
    <2>. QED
        BY <2>2, <2>3, <1>Moves
<1>ScanDone. ASSUME ManyInv, NEW s \in Scans, ScanDone(s) PROVE ManyInv'
    <2>. USE <1>ScanDone
    <2>1. /\ UNCHANGED <<asked, lead, reqVars, todo, fed, ctxDone, outcome>>
          /\ outcome \in [Scans -> {"none", "stopped", "absent", "broken"}]
          /\ Goes(Scan(s), "scans", "finishes") /\ "finishes" \in Stage \ {"none", "joins"}
        BY DEF ScanDone, UnchangedByScan, feedVars, ManyInv, ManyTypes, Stage
    <2>2. ASSUME NEW i \in Live(s) PROVE IsWhole(i)
        <3>1. ScanInv(s) /\ at[Scan(s)] = "scans"
            BY <2>1 DEF ManyInv, Goes
        <3>2. ASSUME NEW n \in ScanItems PROVE fed[i][n] = 1
            <4>1. fed[i][n] = IF <<i, n>> \in todo[s] THEN 0 ELSE 1
                BY <3>1, <2>2 DEF ScanInv
            <4>2. <<i, n>> \notin todo[s]
                <5>1. state[i] = "live" /\ <<i, n>>[1] = i
                    BY <2>2 DEF Live
                <5>2. \A u \in todo[s] : state[u[1]] # "live"
                    BY DEF ScanDone
                <5>. QED
                    BY <5>1, <5>2
            <4>. QED
                BY <4>1, <4>2
        <3>. QED
            BY <3>2 DEF IsWhole
    <2>. QED
        BY <2>1, <2>2, <1>Moves
<1>AttemptDone. ASSUME ManyInv, NEW s \in Scans, AttemptDone(s) PROVE ManyInv'
    <2>1. /\ UNCHANGED <<asked, lead, reqVars, todo, fed, ctxDone, outcome>> /\ Live(s) = {}
          /\ outcome \in [Scans -> {"none", "stopped", "absent", "broken"}]
          /\ Goes(Scan(s), "finishes", "ends") /\ "ends" \in Stage \ {"none", "joins"}
        BY <1>AttemptDone DEF AttemptDone, UnchangedByScan, feedVars, ManyInv, ManyTypes, Stage
    <2>. QED
        BY <2>1, <1>AttemptDone, <1>Moves
<1>FreesTurns. ASSUME ManyInv, NEW s \in Scans, FreesTurns(s) PROVE ManyInv'
    <2>1. /\ UNCHANGED <<asked, lead, reqVars, todo, fed, ctxDone, outcome>>
          /\ outcome \in [Scans -> {"none", "stopped", "absent", "broken"}]
          /\ Goes(Scan(s), "ends", "freed") /\ "freed" \in Stage \ {"none", "joins"}
        BY <1>FreesTurns DEF FreesTurns, UnchangedByScan, feedVars, ManyInv, ManyTypes, Stage
    <2>2. outcome[s] = "none" => Live(s) = {}
        BY <2>1, <1>FreesTurns DEF ManyInv, ScanInv, Goes
    <2>. QED
        BY <2>1, <2>2, <1>FreesTurns, <1>Moves
<1>Returns. ASSUME ManyInv, NEW s \in Scans, Returns(s) PROVE ManyInv'
    <2>. USE <1>Returns
    <2>1. /\ UNCHANGED <<asked, lead, reqVars, todo, fed, ctxDone, outcome>>
          /\ outcome \in [Scans -> {"none", "stopped", "absent", "broken"}]
          /\ Goes(Scan(s), "joins", "ended") /\ "ended" \in Stage \ {"none", "joins"}
        BY DEF Returns, UnchangedByScan, feedVars, ManyInv, ManyTypes, Stage
    <2>2. ASSUME NEW i \in Of(s) PROVE i \in Answered
        <3>1. ScanInv(s) /\ AloneInv(i) /\ at[Scan(s)] = "joins"
            BY <2>1, <1>Tasks DEF ManyInv, Goes
        <3>2. at[Solo(i)] \in {"none", "ended"}
            BY DEF Returns
        <3>. QED
            BY <3>1, <3>2 DEF ScanInv, AloneInv
    <2>. QED
        BY <2>1, <2>2, <1>Moves
<1>Panics. ASSUME ManyInv, NEW s \in Scans, Panics(s) PROVE ManyInv'
    <2>. USE <1>Panics
    <2>1. PICK from \in {"begins", "finishes"} : Goes(Scan(s), from, "panicked")
        BY DEF Panics
    <2>2. /\ UNCHANGED <<asked, lead, reqVars, todo, fed, ctxDone, outcome>>
          /\ outcome \in [Scans -> {"none", "stopped", "absent", "broken"}]
          /\ "panicked" \in Stage \ {"none", "joins"}
        BY DEF Panics, UnchangedByScan, feedVars, ManyInv, ManyTypes, Stage
    <2>. QED
        BY <2>1, <2>2, <1>Moves
\* The steps by which some of its requests leave a scan.
<1>LeavesGone. ASSUME ManyInv, NEW s \in Scans, NEW i \in Of(s), LeavesGone(s, i) PROVE ManyInv'
    <2>. USE <1>LeavesGone
    <2>1. /\ UNCHANGED <<asked, lead, at, todo, fed, outcome, ctxDone>>
          /\ at[Scan(s)] \notin {"joins", "ended"} /\ Leaves(s, {i}, "done") /\ Puts({i}, "gone")
          /\ i \in ctxDone /\ {i} \subseteq Live(s)
        BY DEF LeavesGone, MayLeave, Live, turnVars, feedVars
    <2>2. Grown({i}, "gone")
        <3>1. ManyTypes /\ Once(answers) /\ {i} \in SUBSET Reqs /\ "gone" \in What
            BY <1>Tasks DEF ManyInv, AnswersInv, What
        <3>. QED
            BY <2>1, <3>1, <1>Puts
    <2>. HIDE DEF Grown
    <2>. QED
        BY <2>1, <2>2, <1>Leaving
<1>FailsAlone. ASSUME ManyInv, NEW s \in Scans, NEW i \in Of(s), FailsAlone(s, i) PROVE ManyInv'
    <2>. USE <1>FailsAlone
    <2>1. /\ UNCHANGED <<asked, lead, at, todo, fed, outcome, ctxDone>>
          /\ at[Scan(s)] \notin {"joins", "ended"} /\ Leaves(s, {i}, "done") /\ Puts({i}, "failed")
          /\ {i} \subseteq Live(s)
        BY DEF FailsAlone, UnchangedByScan, turnVars, feedVars
    <2>2. Grown({i}, "failed")
        <3>1. ManyTypes /\ Once(answers) /\ {i} \in SUBSET Reqs /\ "failed" \in What
            BY <1>Tasks DEF ManyInv, AnswersInv, What
        <3>. QED
            BY <2>1, <3>1, <1>Puts
    <2>. HIDE DEF Grown
    <2>. QED
        BY <2>1, <2>2, <1>Leaving
<1>ChecksBudget. ASSUME ManyInv, NEW s \in Scans, ChecksBudget(s) PROVE ManyInv'
    <2>. USE <1>ChecksBudget
    <2>1. /\ UNCHANGED <<asked, lead, at, todo, fed, outcome, ctxDone, answers>>
          /\ at[Scan(s)] \notin {"joins", "ended"}
        BY DEF ChecksBudget, UnchangedByScan, turnVars
    <2>2. CASE PutOut(s) # {}
        <3>1. Leaves(s, PutOut(s), "evicted")
            BY <2>2 DEF ChecksBudget
        <3>2. PutOut(s) \subseteq Live(s)
            <4>1. ASSUME NEW i \in PutOut(s) PROVE i \in Of(s) /\ state[i] = "live"
                <5>1. i \in Of(s) /\ Holding(i) > 0
                    BY <4>1 DEF PutOut
                <5>2. state[i] # "live" => Holding(i) = 0
                    BY DEF Holding
                <5>. QED
                    BY <5>1, <5>2
            <4>. QED
                BY <4>1 DEF Live
        <3>3. Grown({}, "own")
            BY <2>1, <1>NoPuts DEF ManyInv, AnswersInv
        <3>. HIDE DEF Grown
        <3>. QED
            BY <2>1, <3>1, <3>2, <3>3, <1>Leaving
    <2>3. CASE PutOut(s) = {}
        BY <2>1, <2>3, <1>Rests DEF ChecksBudget
    <2>. QED
        BY <2>2, <2>3
\* The steps of a request answered alone.
<1>AnswersIt. ASSUME ManyInv, UNCHANGED asked, NEW i \in Reqs, NEW what \in What, Puts({i}, what)
              PROVE  Grown({i}, what)
    <2>1. ManyTypes /\ Once(answers) /\ {i} \in SUBSET Reqs
        BY <1>AnswersIt DEF ManyInv, AnswersInv
    <2>. QED
        BY <1>AnswersIt, <2>1, <1>Puts
<1>AloneAsks. ASSUME ManyInv, NEW i \in Reqs, AloneAsks(i) PROVE ManyInv'
    <2>. USE <1>AloneAsks
    <2>1. UNCHANGED <<asked, lead, state, live, todo, fed, outcome, ctxDone>>
        BY DEF AloneAsks, UnchangedAlone, feedVars
    <2>2. {"ended", "runs", "queued"} \subseteq Stage /\ "gone" \in What /\ "own" \in What
        BY DEF Stage, What
    <2>3. CASE i \in ctxDone
        <3>1. Goes(Solo(i), "asks", "ended") /\ Puts({i}, "gone")
            BY <2>3 DEF AloneAsks
        <3>2. Grown({i}, "gone")
            BY <2>1, <2>2, <3>1, <1>AnswersIt
        <3>. HIDE DEF Grown
        <3>. QED
            BY <2>1, <2>2, <2>3, <3>1, <3>2, <1>AloneStep
    <2>4. CASE i \notin ctxDone
        <3>1. UNCHANGED answers /\ \E to \in {"runs", "queued"} : Goes(Solo(i), "asks", to)
            BY <2>4 DEF AloneAsks, Acquires
        <3>2. Grown({}, "own")
            BY <2>1, <3>1, <1>NoPuts DEF ManyInv, AnswersInv
        <3>. HIDE DEF Grown
        <3>. QED
            BY <2>1, <2>2, <3>1, <3>2, <1>AloneStep
    <2>. QED
        BY <2>3, <2>4
<1>AloneGets. ASSUME ManyInv, NEW i \in Reqs, AloneGets(i) PROVE ManyInv'
    <2>1. /\ UNCHANGED <<asked, lead, state, live, todo, fed, outcome, ctxDone, answers>>
          /\ Goes(Solo(i), "queued", "runs") /\ "runs" \in Stage
        BY <1>AloneGets DEF AloneGets, UnchangedAlone, feedVars, Stage
    <2>2. Grown({}, "own")
        BY <2>1, <1>AloneGets, <1>NoPuts DEF ManyInv, AnswersInv
    <2>. HIDE DEF Grown
    <2>. QED
        BY <2>1, <2>2, <1>AloneGets, <1>AloneStep
<1>AloneGivesUp. ASSUME ManyInv, NEW i \in Reqs, AloneGivesUp(i) PROVE ManyInv'
    <2>1. /\ UNCHANGED <<asked, lead, state, live, todo, fed, outcome, ctxDone>> /\ i \in ctxDone
          /\ Goes(Solo(i), "queued", "ended") /\ Puts({i}, "gone") /\ "ended" \in Stage /\ "gone" \in What
        BY <1>AloneGivesUp DEF AloneGivesUp, UnchangedAlone, feedVars, Stage, What
    <2>2. Grown({i}, "gone")
        BY <2>1, <1>AloneGivesUp, <1>AnswersIt
    <2>. HIDE DEF Grown
    <2>. QED
        BY <2>1, <2>2, <1>AloneGivesUp, <1>AloneStep
<1>AloneAnswers. ASSUME ManyInv, NEW i \in Reqs, AloneAnswers(i) PROVE ManyInv'
    <2>. USE <1>AloneAnswers
    <2>1. /\ UNCHANGED <<asked, lead, state, live, todo, fed, outcome, ctxDone>>
          /\ Goes(Solo(i), "runs", "ended") /\ "ended" \in Stage
        BY DEF AloneAnswers, UnchangedAlone, feedVars, Stage
    <2>2. PICK what \in {"gone", "own", "failed"} : Puts({i}, what) /\ (what = "gone" => i \in ctxDone)
        BY DEF AloneAnswers
    <2>3. Grown({i}, what)
        BY <2>1, <2>2, <1>AnswersIt DEF What
    <2>. HIDE DEF Grown
    <2>. QED
        BY <2>1, <2>2, <2>3, <1>AloneStep
<1>Init. ASSUME ManyInit PROVE ManyInv
    <2>. USE <1>Init
    <2>. DEFINE R == { j \in Reqs : asked[j].key = "invalid" }
                N == { [req |-> i, what |-> "refused"] : i \in R }
                g == [a \in N |-> a.req]
    <2>1. /\ asked \in ManyCalls /\ lead \in [Reqs -> Reqs]
          /\ at = [t \in Tasks |-> IF t[1] = "scan" \/ asked[t[2]].key = "alone" THEN "asks" ELSE "none"]
          /\ state = [i \in Reqs |-> "live"]
          /\ live = [s \in Scans |-> Cardinality(Of(s))]
          /\ todo = [s \in Scans |-> {}]
          /\ fed = [i \in Reqs |-> [n \in ScanItems |-> 0]]
          /\ outcome = [s \in Scans |-> "none"]
        BY DEF ManyInit
    <2>2. answers = SetToSeq(N)
        BY DEF ManyInit
    <2>3. \A a \in N : a.req \in R /\ a = [req |-> a.req, what |-> "refused"]
        OBVIOUS
    <2>4. \A i \in R : \E a \in N : a.req = i
        <3>1. ASSUME NEW i \in R
              PROVE  [req |-> i, what |-> "refused"] \in N /\ [req |-> i, what |-> "refused"].req = i
            OBVIOUS
        <3>. HIDE DEF N
        <3>. QED
            BY <3>1
    <2>5. g \in [N -> R] /\ \A a, b \in DOMAIN g : g[a] = g[b] => a = b
        BY <2>3
    <2>6. R \subseteq Reqs /\ IsFiniteSet(R)
        BY <2>1, <1>Finite
    <2>. HIDE DEF g, N
    <2>7. IsFiniteSet(N)
        <3>1. g \in Injection(N, R)
            BY <2>5 DEF Injection, IsInjective
        <3>. QED
            BY <2>6, <3>1, FS_Injection
    <2>8. /\ answers \in Seq(N) /\ ToSet(answers) = N
          /\ \A j, k \in DOMAIN answers : answers[j] = answers[k] => j = k
        BY <2>2, <2>7, <1>Seqs
    <2>9. answers \in Seq([req : Reqs, what : What])
        <3>1. N \subseteq [req : Reqs, what : What]
            BY <2>3, <2>6 DEF What
        <3>2. ASSUME NEW A, NEW B, A \subseteq B PROVE Seq(A) \subseteq Seq(B)
            BY <3>2
        <3>. QED
            BY <3>1, <3>2, <2>8
    <2>10. Answered = R
        BY <2>3, <2>4, <2>8 DEF Answered
    <2>11. /\ \A s : Of(s) \subseteq Reqs /\ IsFiniteSet(Of(s)) /\ Cardinality(Of(s)) \in Nat
           /\ \A i \in Reqs : state[i] = "live"
        BY <2>1, <1>Tasks, <1>Finite
    <2>12. ManyTypes
        <3>1. at \in [Tasks -> Stage]
            BY <2>1 DEF Stage
        <3>2. /\ live \in [Scans -> Nat] /\ todo \in [Scans -> SUBSET (Reqs \X ScanItems)]
              /\ fed \in [Reqs -> [ScanItems -> Nat]]
                    /\ outcome \in [Scans -> {"none", "stopped", "absent", "broken"}]
              /\ state \in [Reqs -> {"live", "done", "evicted", "finishing"}]
            BY <2>1, <2>11
        <3>. QED
            BY <2>1, <2>9, <3>1, <3>2 DEF ManyTypes
    <2>13. AnswersInv
        <3>1. \A j, k \in DOMAIN answers : answers[j].req = answers[k].req => j = k
            <4>1. \A k \in DOMAIN answers : answers[k] \in N
                <5>1. \A X : \A u \in Seq(X) : \A k \in DOMAIN u : u[k] \in X
                    OBVIOUS
                <5>. QED
                    BY <5>1, <2>8
            <4>2. \A a, b \in N : a.req = b.req => a = b
                BY <2>3
            <4>. QED
                BY <4>1, <4>2, <2>8
        <3>2. \A a \in ToSet(answers) : a.what = "refused"
            <4>1. ASSUME NEW a \in N PROVE a.what = "refused"
                <5>1. a = [req |-> a.req, what |-> "refused"]
                    BY <2>3
                <5>. QED
                    BY <5>1
            <4>. QED
                BY <2>8, <4>1
        <3>. QED
            BY <3>1, <3>2 DEF AnswersInv
    <2>14. ASSUME NEW s \in Scans PROVE ScanInv(s)
        <3>1. at[Scan(s)] = "asks"
            BY <2>1, <1>Tasks, <1>Names
        <3>2. Active(s) = Of(s) /\ Cardinality(Active(s)) <= live[s] /\ outcome[s] = "none"
            <4>1. Active(s) = Of(s)
                BY <2>11 DEF Active
            <4>2. live[s] = Cardinality(Of(s)) /\ outcome[s] = "none"
                BY <2>1
            <4>3. Cardinality(Of(s)) \in Nat
                BY <2>11
            <4>. QED
                BY <4>1, <4>2, <4>3
        <3>3. \A i \in Of(s) : state[i] = "live"
            BY <2>11
        <3>. QED
            BY <3>1, <3>2, <3>3 DEF ScanInv
    <2>15. ASSUME NEW i \in Reqs PROVE AloneInv(i)
        <3>1. at[Solo(i)] = IF asked[i].key = "alone" THEN "asks" ELSE "none"
            BY <2>1, <1>Tasks, <1>Names
        <3>2. asked[i].key = "invalid" => i \in Answered
            BY <2>10
        <3>. QED
            BY <3>1, <3>2 DEF AloneInv
    <2>. QED
        BY <2>12, <2>13, <2>14, <2>15 DEF ManyInv
<1>Step. ASSUME ManyInv, ManyNext PROVE ManyInv'
    <2>1. ASSUME NEW s \in Scans, ScanGoesOn(s) PROVE ManyInv'
        BY <1>Step, <2>1, <1>Asks, <1>GetsTurns, <1>GivesUpTurns, <1>Begins, <1>LeavesGone,
           <1>Feeds,
           <1>ChecksBudget, <1>ScanDone, <1>ScanStops, <1>ScansAgain, <1>Finishes, <1>AttemptDone,
           <1>FreesTurns, <1>Collects, <1>Returns, <1>SweepsPanic DEF ScanGoesOn
    <2>2. ASSUME NEW i \in Reqs, AloneGoesOn(i) PROVE ManyInv'
        BY <1>Step, <2>2, <1>AloneAsks, <1>AloneGets, <1>AloneGivesUp, <1>AloneAnswers
           DEF AloneGoesOn
    <2>3. ASSUME NEW i \in Reqs, ContextDone(i) PROVE ManyInv'
        BY <1>Step, <2>3, <1>Rests DEF ContextDone, turnVars, reqVars, feedVars
    <2>4. ASSUME NEW s \in Scans, (\E i \in Of(s) : FailsAlone(s, i)) \/ FileGone(s)
                    \/ ReadFails(s) \/ Panics(s)
          PROVE  ManyInv'
        BY <1>Step, <2>4, <1>FailsAlone, <1>FileGone, <1>ReadFails, <1>Panics
    <2>. QED
        BY <1>Step, <2>1, <2>2, <2>3, <2>4 DEF ManyNext, ManyGoesOn
<1>Stutters. ManyInv /\ UNCHANGED manyVars => ManyInv'
    BY <1>Rests DEF manyVars, turnVars, reqVars, feedVars
<1>Right. ASSUME ManyInv PROVE AnswersAreRight
    <2>. USE <1>Right
    <2>1. answers \in Seq([req : Reqs, what : What])
        BY DEF ManyInv, ManyTypes
    <2>2. \A k \in DOMAIN answers : /\ answers[k] \in ToSet(answers) /\ answers[k].req \in Reqs
                                    /\ answers[k].what \in What
        <3>1. \A X : \A u \in Seq(X) : \A k \in DOMAIN u : u[k] \in X
            OBVIOUS
        <3>2. \A k \in DOMAIN answers : answers[k] \in [req : Reqs, what : What]
            BY <2>1, <3>1
        <3>. QED
            BY <3>2 DEF ToSet
    <2>3. { answers[k].req : k \in DOMAIN answers } = Answered
        BY DEF Answered, ToSet
    <2>4. ASSUME AllEnded, NEW i \in Reqs PROVE i \in Answered
        <3>1. AloneInv(i) /\ \A t \in Tasks : at[t] \in {"none", "ended"}
            BY <2>4 DEF ManyInv, AllEnded
        <3>2. CASE asked[i].key = "invalid"
            BY <3>1, <3>2 DEF AloneInv
        <3>3. CASE asked[i].key = "alone"
            BY <3>1, <3>3, <1>Tasks DEF AloneInv
        <3>4. CASE asked[i].key \notin {"invalid", "alone"}
            <4>1. lead[i] \in Reqs /\ i \in Of(lead[i])
                BY <3>4 DEF ManyInv, ManyTypes, Of, IsShared
            <4>2. lead[i] \in Scans
                BY <4>1 DEF Scans
            <4>3. ScanInv(lead[i]) /\ Scan(lead[i]) \in Tasks
                BY <4>2, <1>Tasks DEF ManyInv
            <4>. QED
                BY <3>1, <4>1, <4>3 DEF ScanInv
        <3>. QED
            BY <3>2, <3>3, <3>4
    <2>5. AllEnded => Answered = Reqs
        BY <2>2, <2>3, <2>4
    <2>6. \A k \in DOMAIN answers : LET a == answers[k] IN
             /\ a.what = "gone" => a.req \in ctxDone
             /\ a.what \notin {"stopped", "unanswered"}
             /\ a.what = "result" => \A n \in ScanItems : fed[a.req][n] = 1
        BY <2>2 DEF ManyInv, AnswersInv, IsWhole, What
    <2>7. \A j, k \in DOMAIN answers : answers[j].req = answers[k].req => j = k
        BY DEF ManyInv, AnswersInv
    <2>. QED
        BY <2>3, <2>5, <2>6, <2>7 DEF AnswersAreRight
<1>. QED
    BY <1>Init, <1>Step, <1>Stutters, <1>Right, PTL DEF ManySpec

-----------------------------------------------------------------------------
(* Answers handed on.                                                      *)

QueueTypes ==
    /\ producer \in [Producers -> {"works", "put", "done"}]
    /\ queued \in Seq(Producers) /\ inHands \in Seq(Producers)
    /\ handed \in Seq(Producers) /\ putOrder \in Seq(Producers)

\* The goroutine ends once the queue was closed by its last look, and nothing is put after that.
HandInv ==
    /\ putOrder = handed \o inHands \o queued
    /\ hand # "hands" => inHands = <<>>
    /\ hand = "hands" => inHands # <<>>
    /\ closed => call # "waits" /\ \A p \in Producers : producer[p] = "done"
    /\ lastLook => closed /\ queued = <<>>
    /\ hand = "ended" => lastLook
    /\ call = "returned" => hand = "ended"
    /\ hand = "sleeps" /\ (queued # <<>> \/ closed) =>
          waking \/ call = "closes" \/ \E p \in Producers : producer[p] = "put"

QueueInv == QueueTypes /\ HandInv

\* The queue hands on what is put, in order, and does not sleep through the last of it.
THEOREM AnswersHandedInOrder == QueueSpec => []HandedInOrder
<1>1. QueueInit => QueueInv
    <2>1. <<>> \o <<>> \o <<>> = <<>>
        OBVIOUS
    <2>. QED
        BY <2>1 DEF QueueInit, QueueInv, QueueTypes, HandInv
<1>2. ASSUME QueueInv, [QueueNext]_queueVars PROVE QueueInv'
    <2>. USE <1>2
    <2>1. QueueTypes /\ HandInv
        BY DEF QueueInv
    <2>2. ASSUME NEW p \in Producers, PutsAnswer(p) PROVE QueueInv'
        <3>1. QueueTypes'
            BY <2>1, <2>2 DEF PutsAnswer, QueueTypes
        <3>2. (handed \o inHands) \o Append(queued, p) = Append((handed \o inHands) \o queued, p)
            BY <2>1 DEF QueueTypes
        <3>3. producer'[p] = "put" /\ producer[p] # "done"
            BY <2>1, <2>2 DEF PutsAnswer, QueueTypes
        <3>. QED
            BY <2>1, <2>2, <3>1, <3>2, <3>3 DEF PutsAnswer, QueueInv, HandInv
    <2>3. ASSUME NEW p \in Producers, Wakes(p) PROVE QueueInv'
        <3>1. QueueTypes' /\ \A r \in Producers : producer[r] = "done" => producer'[r] = "done"
            BY <2>1, <2>3 DEF Wakes, QueueTypes
        <3>. QED
            BY <2>1, <2>3, <3>1 DEF Wakes, QueueInv, HandInv
    <2>4. CASE Looks
        <3>1. QueueTypes'
            BY <2>1, <2>4 DEF Looks, QueueTypes
        <3>2. inHands = <<>> /\ inHands' = queued /\ queued' = <<>> /\ hand' = LooksAgain
                 /\ lastLook' = closed
              /\ UNCHANGED <<producer, waking, closed, call, putOrder, handed>>
            BY <2>1, <2>4 DEF Looks, HandInv
        <3>3. handed \o inHands \o queued = handed \o queued \o <<>>
            BY <2>1, <3>2 DEF QueueTypes
        <3>4. HandInv'
            BY <2>1, <2>4, <3>2, <3>3 DEF HandInv, LooksAgain, QueueTypes, Looks
        <3>. QED
            BY <3>1, <3>4 DEF QueueInv
    <2>5. CASE Hands
        <3>1. inHands # <<>> /\ inHands \in Seq(Producers) /\ Head(inHands) \in Producers
                 /\ Tail(inHands) \in Seq(Producers)
            BY <2>1, <2>5 DEF Hands, QueueTypes, HandInv
        <3>2. Append(handed, Head(inHands)) \o Tail(inHands) = handed \o inHands
            BY <3>1, <2>1 DEF QueueTypes
        <3>3. QueueTypes'
            BY <2>1, <2>5, <3>1 DEF Hands, QueueTypes
        <3>. QED
            BY <2>1, <2>5, <3>1, <3>2, <3>3 DEF Hands, QueueInv, HandInv
    <2>6. CASE IsWoken \/ Closes \/ WakesLast \/ CallReturns
        <3>1. QueueTypes' /\ UNCHANGED <<producer, queued, inHands, lastLook, putOrder, handed>>
            BY <2>1, <2>6 DEF IsWoken, Closes, WakesLast, CallReturns, QueueTypes
        <3>2. CASE IsWoken
            BY <2>1, <3>1, <3>2 DEF IsWoken, QueueInv, HandInv
        <3>3. CASE Closes
            BY <2>1, <3>1, <3>3 DEF Closes, QueueInv, HandInv
        <3>4. CASE WakesLast
            BY <2>1, <3>1, <3>4 DEF WakesLast, QueueInv, HandInv
        <3>5. CASE CallReturns
            BY <2>1, <3>1, <3>5 DEF CallReturns, QueueInv, HandInv
        <3>. QED
            BY <2>6, <3>2, <3>3, <3>4, <3>5
    <2>7. CASE UNCHANGED queueVars
        BY <2>1, <2>7 DEF queueVars, QueueInv, QueueTypes, HandInv
    <2>. QED
        BY <2>2, <2>3, <2>4, <2>5, <2>6, <2>7 DEF QueueNext
<1>3. QueueInv => HandedInOrder
    <2>. SUFFICES ASSUME QueueInv PROVE HandedInOrder
        OBVIOUS
    <2>. DEFINE rest == inHands \o queued
    <2>1. putOrder = handed \o rest /\ rest \in Seq(Producers) /\ handed \in Seq(Producers)
        <3>1. inHands \in Seq(Producers) /\ queued \in Seq(Producers) /\ handed \in Seq(Producers)
            BY DEF QueueInv, QueueTypes
        <3>2. (handed \o inHands) \o queued = handed \o rest
            BY <3>1, ConcatAssociative
        <3>. QED
            BY <3>1, <3>2 DEF QueueInv, HandInv
    <2>. HIDE DEF rest
    <2>2. IsPrefix(handed, putOrder)
        BY <2>1 DEF IsPrefix
    <2>3. call = "returned" => handed = putOrder
        BY DEF QueueInv, QueueTypes, HandInv
    <2>. QED
        BY <2>2, <2>3 DEF QueueInv, HandInv, HandedInOrder
<1>. QED
    BY <1>1, <1>2, <1>3, PTL DEF QueueSpec

=============================================================================
