---------------------------- MODULE MCArchiveReader ----------------------------
(***************************************************************************)
(* ArchiveReader for TLC: two months of two days, an event on either side  *)
(* of the boundary or both on one day, each appended once.                 *)
(***************************************************************************)
EXTENDS ArchiveReader, TLC

CONSTANTS e1, e2

MCDays == 0..3
MCMonthEnd == [d \in MCDays |-> 2 * (d \div 2) + 1]
MCSegs == 0..2
MCEvents == {e1, e2}
MCEventDay == e1 :> 1 @@ e2 :> 1
MCTwoMonthDays == e1 :> 1 @@ e2 :> 2

MCSymmetry == Permutations(MCEvents)

\* The clock starts on the last day of the first month.
MCReaderInit == today = 1 /\ month = 1 /\ Init /\ ReaderInit

\* A query runs beside one fault at most.
MCReaderNext == ReaderNext /\ (query' # "idle" => faults' <= 1)

MCReaderSpec == MCReaderInit /\ [][MCReaderNext]_<<vars, readerVars>>

\* A query's own steps need no fairness: it may be given up at any time, and
\* while it lasts it keeps at most a second pass from starting.
MCReaderFairSpec == MCReaderSpec /\ Fairness
=============================================================================
