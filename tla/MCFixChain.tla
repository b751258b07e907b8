----------------------------- MODULE MCFixChain -----------------------------
(***************************************************************************)
(* Small instances of FixChain for TLC.  Findings are model values; two of *)
(* them are interchangeable, so the runs without liveness use symmetry.    *)
(***************************************************************************)
EXTENDS FixChain, TLC

CONSTANTS f1, f2

OneFinding  == {f1}
TwoFindings == {f1, f2}

(* No definition singles out a finding: PickFix chooses freely. *)
Symmetry == Permutations(Findings)

(* Every way a worker can end, and the ones that end an attempt for good. *)
EveryEnd    == AllEnds
FinalEnds   == {"done", "unmetered"}
PausingEnds == {"done", "cap", "exited"}
CapEnds     == {"done", "cap"}

OneText == {"nothing_to_ship"}

=============================================================================
