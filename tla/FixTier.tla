------------------------------- MODULE FixTier -------------------------------
(***************************************************************************)
(* What the fix tier promises of a finding, without rows, chains, trees or *)
(* workers: a finding has a status and some work, and every step of the    *)
(* scheduler, however it fails or dies, is one of those below.  FixChain   *)
(* is shown to implement it.                                               *)
(***************************************************************************)
CONSTANT Findings

VARIABLES
  status,   \* findings.status
  work      \* an attempt of the finding is running, or one can be gone on with

vars == <<status, work>>

Awaiting == {"new", "blocked", "note"}
Given    == {"queued", "rejected", "wontfix", "note"}
Settled  == {"pr_open", "superseded", "rejected", "wontfix", "new"}

Init ==
  /\ status = [f \in Findings |-> "new"]
  /\ work = [f \in Findings |-> "none"]

-----------------------------------------------------------------------------
Moves(f, from, to) == status[f] \in from /\ status' = [status EXCEPT ![f] = to]
Becomes(f, from, to) == work[f] \in from /\ work' = [work EXCEPT ![f] = to]

(* The operator never takes a finding that is being worked on. *)
Decide(f) ==
  /\ \/ \E to \in Given : Moves(f, Awaiting, to)
     \/ Moves(f, {"queued"}, "new")
  /\ UNCHANGED work

(* One finding at a time, only from the queue, and with no attempt still open *)
Take(f) ==
  /\ Moves(f, {"queued"}, "fixing")
  /\ \A g \in Findings : status[g] # "fixing" /\ work[g] # "running"
  /\ UNCHANGED work

(* A new attempt goes on with the work that was saved, or replaces it. *)
Start(f) ==
  /\ status[f] = "fixing" /\ Becomes(f, {"none", "saved"}, "running")
  /\ UNCHANGED status

(* An attempt ends, at the latest when a later cycle notices that it did. *)
End(f) ==
  /\ \E left \in {"none", "saved"} : Becomes(f, {"running"}, left)
  /\ UNCHANGED status

Settle(f) ==
  /\ \E to \in Settled : Moves(f, {"fixing"}, to)
  /\ UNCHANGED work

Return(f) == Moves(f, {"fixing"}, "queued") /\ UNCHANGED work

(* A hold saves the work in the same step.  What a given-up chain holds is  *)
(* not compared with the status it was read at.                             *)
Hold(f) ==
  /\ status' = [status EXCEPT ![f] = "blocked"]
  /\ work' = [work EXCEPT ![f] = "saved"]

(* Saved work is thrown away only of findings nobody is working on and *)
(* nobody was asked about.                                             *)
Forget ==
  /\ \E S \in SUBSET {f \in Findings : status[f] \notin {"fixing", "blocked"}} :
        /\ \A f \in S : work[f] = "saved"
        /\ work' = [f \in Findings |-> IF f \in S THEN "none" ELSE work[f]]
  /\ UNCHANGED status

(* An attempt that concluded is not gone on with, although neither what it *)
(* came to nor the return to the queue could be written.                   *)
Drop(f) ==
  /\ status[f] = "fixing" /\ Becomes(f, {"saved"}, "none")
  /\ UNCHANGED status

(* Between two cycles nothing is being worked on: both ends of it in one step. *)
Reconcile ==
  /\ status' = [f \in Findings |-> IF status[f] = "fixing" THEN "queued" ELSE status[f]]
  /\ work' = [f \in Findings |-> IF work[f] = "running" THEN "none" ELSE work[f]]

Next == \/ Forget \/ Reconcile
        \/ \E f \in Findings : Decide(f) \/ Take(f) \/ Start(f) \/ End(f)
                                 \/ Settle(f) \/ Return(f) \/ Hold(f) \/ Drop(f)

Spec == Init /\ [][Next]_vars

=============================================================================
