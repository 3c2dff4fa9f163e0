------------------------------ MODULE EventFiles ------------------------------
(***************************************************************************)
(* The files of one project's directory under data/ (internal/archive):    *)
(* their names, and what a reader that lists the directory takes of them.  *)
(*                                                                         *)
(* A month is named by its last day, so MonthEnd maps a day to its month   *)
(* and a month is ordered against days as lastDay(month) is in the code.   *)
(***************************************************************************)
EXTENDS Integers, FiniteSets

CONSTANTS
    Days,       \* the civil days of the model, as integers
    MonthEnd,   \* MonthEnd[d] is the last day of d's month
    Segs        \* the numbers a segment or a rotated log may take

ASSUME CalendarAssumption ==
    /\ Days \subseteq Int
    /\ MonthEnd \in [Days -> Days]
    /\ \A d \in Days : d <= MonthEnd[d] /\ MonthEnd[MonthEnd[d]] = MonthEnd[d]

ASSUME SegsAssumption == Segs \subseteq Nat /\ 0 \in Segs

-----------------------------------------------------------------------------

Kinds == {"log", "closed", "dumping", "day", "month"}

\* <day>.log, <day>.<seg>.closed, <target>.dumping with <target> the day file
\* (seg 0) or segment <seg>, <day>.parquet or <day>.<seg>.parquet, and
\* <month>.parquet, whose day is the month's last one.
Name == [kind : Kinds, day : Days, seg : Segs]

File(k, d, n) == [kind |-> k, day |-> d, seg |-> n]

LogFile(d)   == File("log", d, 0)
MonthFile(m) == File("month", m, 0)

\* The Parquet file a claimed log is dumped into.
Target(f) == File("day", f.day, f.seg)

MonthOf(f) == MonthEnd[f.day]

\* The kinds that hold lines not dumped yet; a month with one is open.
LogKinds     == {"log", "closed", "dumping"}
ParquetKinds == {"day", "month"}

\* Mutant of MonthIsOpen: a log renamed by Rotate or Claim is overlooked.
MutMonthIsOpen(names, m) == \E f \in names : f.kind = "log" /\ MonthOf(f) = m

\* A month still has a log, a closed log or a claimed one.
MonthIsOpen(names, m) == \E f \in names : f.kind \in LogKinds /\ MonthOf(f) = m

\* Mutant of Listed: a claimed log is listed beside the file it became.
MutListed(names) == { f \in names : f.kind = "day" => MonthFile(MonthOf(f)) \notin names }

\* What ListFiles shows of the names of a directory: a day file is left out
\* beside its month's file, a claimed log beside its target.
Listed(names) ==
    { f \in names :
        /\ f.kind = "day"     => MonthFile(MonthOf(f)) \notin names
        /\ f.kind = "dumping" => Target(f) \notin names }

\* The first free number for a name of one kind and day, from lo, as a set:
\* taken says which numbers are in use.
FirstFree(lo, taken) ==
    { n \in Segs : /\ n >= lo /\ n \notin taken
                    /\ \A k \in Segs : k >= lo /\ k \notin taken => n <= k }

=============================================================================
