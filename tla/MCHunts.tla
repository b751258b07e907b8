------------------------------ MODULE MCHunts ------------------------------
(* Small instances of Hunts for TLC. *)
EXTENDS Hunts

FirstOnly == {1}
None == {}

=============================================================================
