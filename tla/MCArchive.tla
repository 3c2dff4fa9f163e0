------------------------------- MODULE MCArchive -------------------------------
(***************************************************************************)
(* Archive for TLC: months of two days, two events, and enough days on the *)
(* clock for a month to fill, merge and expire.                            *)
(***************************************************************************)
EXTENDS Archive, TLC

CONSTANTS e1, e2

MCEvents == {e1, e2}
MCSymmetry == Permutations(MCEvents)

\* One month, both events on its last day; segment numbers for the day file,
\* for every copy of an event in a log of its own and for one empty log.
MCDays == 0..1
MCMonthEnd == [d \in MCDays |-> 1]
MCSegs == 0..3
MCEventDay == e1 :> 1 @@ e2 :> 1

\* The clock starts on the last day of the first month.
MCInit == today = 1 /\ month = 1 /\ Init
MCSpec == MCInit /\ [][Next]_vars

\* Late events only: the clock starts two days after the events' day.
MCLateInit == today = 3 /\ month = 1 /\ Init
MCLateSpec == MCLateInit /\ [][Next]_vars
=============================================================================
