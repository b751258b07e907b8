---------------------------- MODULE MCDepUpdates ----------------------------
(* Small instances of DepUpdates for TLC. *)
EXTENDS DepUpdates

CONSTANTS m1, m2

TwoMoves == {m1, m2}
FirstOnly == {m1}

(* Only the first one's package gets to a second version. *)
Uneven == [m \in TwoMoves |-> IF m = m1 THEN 1 ELSE 0]

=============================================================================
