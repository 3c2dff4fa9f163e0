------------------------------- MODULE Selections ------------------------------
(***************************************************************************)
(* A sequence without some of its elements.  It is SelectSeq with a set    *)
(* for its test: a theorem can be about a set, and cannot be about an      *)
(* operator that is an argument.                                           *)
(***************************************************************************)
EXTENDS Naturals, Sequences

Picks(s, S) ==
    LET pick[n \in 0..Len(s)] ==
          IF n = 0 THEN <<>>
          ELSE IF s[n] \in S THEN Append(pick[n - 1], s[n]) ELSE pick[n - 1]
    IN pick

\* The elements of s that are in S, in their order.
Only(s, S) == Picks(s, S)[Len(s)]

=============================================================================
