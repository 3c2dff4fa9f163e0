------------------------------ MODULE EventStore ------------------------------
(***************************************************************************)
(* What the event files promise, whatever files they are: an event whose   *)
(* write was acknowledged stays readable until its month is retention days *)
(* old.                                                                    *)
(***************************************************************************)
EXTENDS Integers

CONSTANTS
    Events,         \* event ids
    LastDay,        \* LastDay[e] is the last day of the event's month
    RetentionDays   \* how many days a month outlives its last one

VARIABLES
    today,      \* the civil day
    stored      \* the acknowledged events a reader finds

Init == today \in Int /\ stored = {}

Store == \E B \in SUBSET Events : stored' = stored \union B /\ today' = today

\* Only an event past its retention may go.
Expire ==
    /\ \E S \in SUBSET { e \in stored : LastDay[e] + RetentionDays <= today } :
         stored' = stored \ S
    /\ today' = today

NewDay == today' = today + 1 /\ stored' = stored

Next == Store \/ Expire \/ NewDay

Spec == Init /\ [][Next]_<<today, stored>>

=============================================================================
