--------------------------- MODULE MCPRLifecycle ---------------------------
(* Small instances of PRLifecycle for TLC. *)
EXTENDS PRLifecycle

CONSTANTS f1

OneFinding == {f1}

EveryEngageEnd  == AllEnds
EveryHarvestEnd == {"done", "pause"} \cup ReviewFails

(* An engage that fails or pauses leaves its flag to be done over. *)
AnswersOnly == {"done", "withdraw"}

(* Two failures the streak tells apart, one of them of closed PRs only; a    *)
(* chain that is given up is a third.                                        *)
MixedEnds == {"done", "pause", "failed", "unexplained"}

=============================================================================
