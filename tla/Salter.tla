--------------------------------- MODULE Salter --------------------------------
(***************************************************************************)
(* The visitor salt (internal/identity): two rows of the meta table, the   *)
(* salt and the time of its rotation, and a copy in the memory of each     *)
(* process on them.  A process that ingests and one that serves the        *)
(* console rotate at midnight, each on its own; a restart takes the rows.  *)
(*                                                                         *)
(* A salt is a number, counted in the order they are made; 0 is none.  The *)
(* two statements of a rotation are taken to fall in one unit of the clock.*)
(***************************************************************************)
EXTENDS Integers, Sequences

CONSTANTS
    Servers,        \* the processes on the database
    RotateEvery,    \* units of the clock a salt serves
    Midnights,      \* the units in which the scheduled rotation is due
    LastHour,       \* bound: the clock stops here
    MaxSalts,       \* bound: salts made
    MaxSaltFaults   \* bound: failed writes and restarts

ASSUME SalterAssumption ==
    /\ RotateEvery \in Nat \ {0} /\ LastHour \in Nat /\ Midnights \subseteq 0..LastHour
    /\ MaxSalts \in Nat /\ MaxSaltFaults \in Nat

VARIABLES
    hour,       \* the clock
    saltRow,    \* visitor_salt and visitor_salt_rotated_at
    mem,        \* mem[p]: s.salt and s.rotatedAt
    saltStep,   \* saltStep[p]: where p is under s.mu
    inHand,     \* inHand[p]: the salt it has read or written there
    rotatedOn,  \* rotatedOn[p]: lastSaltDay
    born,       \* history: the time each salt was made
    mixed,      \* history: whether p read the rows before and after a change
    saltFaults  \* bound: the faults so far

saltVars == <<hour, saltRow, mem, saltStep, inHand, rotatedOn, born, mixed, saltFaults>>

NoSalt == [salt |-> 0, at |-> 0]

SaltFault == saltFaults < MaxSaltFaults /\ saltFaults' = saltFaults + 1

SaltMoves(p, from, to) == saltStep[p] = from /\ saltStep' = [saltStep EXCEPT ![p] = to]

Young(s) == s.salt # 0 /\ s.at # 0 /\ hour - s.at < RotateEvery

Holds(p, s) == mem' = [mem EXCEPT ![p] = s]

\* Current, of a process that holds no salt, reads the salt ...
LoadsSalt(p) ==
    /\ mem[p] = NoSalt
    /\ SaltMoves(p, "idle", "found")
    /\ inHand' = [inHand EXCEPT ![p] = saltRow.salt]
    /\ mixed' = [mixed EXCEPT ![p] = FALSE]
    /\ UNCHANGED <<hour, saltRow, mem, rotatedOn, born, saltFaults>>

\* Mutant of LoadsTime: the salt counts from its load.
MutLoadsTime(p) ==
    /\ saltStep[p] = "found"
    /\ IF inHand[p] # 0 THEN Holds(p, [salt |-> inHand[p], at |-> hour]) ELSE UNCHANGED mem
    /\ SaltMoves(p, "found", IF inHand[p] # 0 THEN "idle" ELSE "rotate")
    /\ inHand' = [inHand EXCEPT ![p] = 0]
    /\ UNCHANGED <<hour, saltRow, rotatedOn, born, mixed, saltFaults>>

\* ... then the time, and rotates unless the two make a salt still young.
LoadsTime(p) ==
    LET found == [salt |-> inHand[p], at |-> saltRow.at] IN
    /\ SaltMoves(p, "found", IF Young(found) THEN "idle" ELSE "rotate")
    /\ IF inHand[p] # 0 /\ saltRow.at # 0 THEN Holds(p, found) ELSE UNCHANGED mem
    /\ inHand' = [inHand EXCEPT ![p] = 0]
    /\ UNCHANGED <<hour, saltRow, rotatedOn, born, mixed, saltFaults>>

\* Current, of a process whose salt is old, rotates it.
Outgrown(p) ==
    /\ mem[p] # NoSalt /\ ~Young(mem[p])
    /\ SaltMoves(p, "idle", "rotate")
    /\ UNCHANGED <<hour, saltRow, mem, inHand, rotatedOn, born, mixed, saltFaults>>

\* The scheduled rotation, tried once a day.
Scheduled(p) ==
    /\ hour \in Midnights /\ rotatedOn[p] # hour
    /\ SaltMoves(p, "idle", "rotate")
    /\ rotatedOn' = [rotatedOn EXCEPT ![p] = hour]
    /\ UNCHANGED <<hour, saltRow, mem, inHand, born, mixed, saltFaults>>

\* A rotation stores a new salt ...
WritesSalt(p) ==
    /\ SaltMoves(p, "rotate", "wrote")
    /\ Len(born) < MaxSalts
    /\ born' = Append(born, hour)
    /\ saltRow' = [saltRow EXCEPT !.salt = Len(born')]
    /\ inHand' = [inHand EXCEPT ![p] = Len(born')]
    /\ mixed' = [q \in Servers |-> mixed[q] \/ saltStep[q] = "found"]
    /\ UNCHANGED <<hour, mem, rotatedOn, saltFaults>>

\* ... then its time, and only then goes over to it.
WritesTime(p) ==
    /\ SaltMoves(p, "wrote", "idle")
    /\ saltRow' = [saltRow EXCEPT !.at = hour]
    /\ Holds(p, [salt |-> inHand[p], at |-> hour])
    /\ inHand' = [inHand EXCEPT ![p] = 0]
    /\ mixed' = [q \in Servers |-> IF q = p THEN FALSE ELSE mixed[q] \/ saltStep[q] = "found"]
    /\ UNCHANGED <<hour, rotatedOn, born, saltFaults>>

\* Either write may fail: the process goes on with what it has, if anything.
RotationFails(p) ==
    /\ SaltFault
    /\ saltStep[p] \in {"rotate", "wrote"}
    /\ saltStep' = [saltStep EXCEPT ![p] = "idle"]
    /\ inHand' = [inHand EXCEPT ![p] = 0]
    /\ UNCHANGED <<hour, saltRow, mem, rotatedOn, born, mixed>>

Restarts(p) ==
    /\ SaltFault
    /\ mem' = [mem EXCEPT ![p] = NoSalt]
    /\ saltStep' = [saltStep EXCEPT ![p] = "idle"]
    /\ inHand' = [inHand EXCEPT ![p] = 0]
    /\ rotatedOn' = [rotatedOn EXCEPT ![p] = 0]
    /\ UNCHANGED <<hour, saltRow, born, mixed>>

HourPasses ==
    /\ hour < LastHour /\ hour' = hour + 1
    /\ \A p \in Servers : saltStep[p] \in {"idle", "rotate"}
    /\ UNCHANGED <<saltRow, mem, saltStep, inHand, rotatedOn, born, mixed, saltFaults>>

SaltInit ==
    /\ hour = 1
    /\ saltRow = NoSalt /\ born = << >>
    /\ mem = [p \in Servers |-> NoSalt]
    /\ saltStep = [p \in Servers |-> "idle"]
    /\ inHand = [p \in Servers |-> 0] /\ rotatedOn = [p \in Servers |-> 0]
    /\ mixed = [p \in Servers |-> FALSE]
    /\ saltFaults = 0

SaltNext ==
    \/ \E p \in Servers :
         \/ LoadsSalt(p) \/ LoadsTime(p) \/ Outgrown(p) \/ Scheduled(p)
         \/ WritesSalt(p) \/ WritesTime(p) \/ RotationFails(p) \/ Restarts(p)
    \/ HourPasses

SaltSpec == SaltInit /\ [][SaltNext]_saltVars

-----------------------------------------------------------------------------

SaltRows == [salt : 0..MaxSalts, at : 0..LastHour]

SaltTypeOK ==
    /\ hour \in 0..LastHour /\ saltRow \in SaltRows
    /\ mem \in [Servers -> SaltRows]
    /\ saltStep \in [Servers -> {"idle", "found", "rotate", "wrote"}]
    /\ inHand \in [Servers -> 0..MaxSalts]
    /\ rotatedOn \in [Servers -> 0..LastHour]
    /\ Len(born) <= MaxSalts /\ \A i \in DOMAIN born : born[i] \in 0..LastHour
    /\ mixed \in [Servers -> BOOLEAN] /\ saltFaults \in 0..MaxSaltFaults

\* A salt Current answers with at once was made less than RotateEvery ago, so
\* that it links no visits a day apart: unless the process read it and its
\* time on either side of another process's rotation (or of half of it).
SaltIsYoung ==
    \A p \in Servers :
        Young(mem[p]) /\ ~mixed[p] => hour - born[mem[p].salt] < RotateEvery

=============================================================================
