-------------------------------- MODULE MCDerived ------------------------------
(***************************************************************************)
(* DerivedFiles with two days in the first month, one of which gets a late *)
(* lot, and one in the second.                                             *)
(***************************************************************************)
EXTENDS DerivedFiles

CONSTANTS l1, l2, l3, l4

MCDayOfLot ==
    [l \in Lots |-> CASE l = l1 -> <<1, 1>> [] l = l2 -> <<1, 1>>
                      [] l = l3 -> <<1, 2>> [] l = l4 -> <<2, 1>>]

=============================================================================
