--------------------------- MODULE DaemonLoopProofs ---------------------------
(***************************************************************************)
(* Theorems about DaemonLoop for any number of queued findings, requests,  *)
(* window changes and deaths.                                              *)
(*                                                                         *)
(* That no trigger is lost rests on where a permit is consumed (only by a  *)
(* loop that waits, which then looks at the pause again) and on who ends a *)
(* pause (a request that notifies afterwards); LoopInv says both.          *)
(***************************************************************************)
EXTENDS DaemonLoop, TLAPS

LEMMA TypeInit == Init => TypeOK
<1> SUFFICES ASSUME Init PROVE TypeOK
  OBVIOUS
<1>1. pc \in Pcs /\ last \in Ends /\ nap \in {"none", "some"}
  BY DEF Init, Pcs, Ends
<1>2. windows \in [Windows -> {"under", "over", "exhausted"}]
  BY DEF Init
<1> QED
  BY <1>1, <1>2 DEF Init, TypeOK

LEMMA TypeLoop == ASSUME TypeOK, Loop PROVE TypeOK'
<1> USE DEF TypeOK, Pcs, Ends, At, Goto, EndCycle, handle, loop, seen, bounds
<1>1. CASE Hold \/ GoOn
  BY <1>1 DEF Hold, GoOn
<1>2. CASE Begin
  BY <1>2 DEF Begin
<1>3. CASE Resume \/ Wake
  BY <1>3 DEF Resume, Wake, Woken, Wakes, Turn, Onward
<1>4. CASE Pick \/ Deny \/ Skip \/ WorkEnds \/ Rest
  BY <1>4 DEF Pick, Deny, Skip, WorkEnds, Rest
<1>5. CASE Claim
  <2>1. queued' \in 0..MaxQueued
    BY <1>5, DaemonLoopAssumption DEF Claim, StillQueued
  <2> QED
    BY <1>5, <2>1 DEF Claim
<1> QED
  BY <1>1, <1>2, <1>3, <1>4, <1>5 DEF Loop

LEMMA TypeOperator == ASSUME TypeOK, Operator PROVE TypeOK'
<1> USE DEF TypeOK, loop
<1>1. ASSUME NEW call \in Calls, Store(call)
      PROVE  /\ calls' \subseteq Calls /\ requests' \in Nat
             /\ UNCHANGED <<loop, running, permit, told, windows, unseen, shifts, ends>>
  BY <1>1 DEF Store
<1>2. CASE Queue
  <2>1. queued' \in 0..MaxQueued
    BY <1>2, DaemonLoopAssumption DEF Queue
  <2> QED
    BY <1>1, <1>2, <2>1 DEF Queue, Calls
<1>3. CASE Unqueue
  <2>1. queued' \in 0..MaxQueued
    BY <1>3, DaemonLoopAssumption DEF Unqueue
  <2> QED
    BY <1>1, <1>3, <2>1 DEF Unqueue, Calls
<1>4. CASE SetPaused
  BY <1>1, <1>4 DEF SetPaused, Calls
<1>5. CASE SetOverdrive \/ Cycle
  BY <1>1, <1>5 DEF SetOverdrive, Cycle, Calls
<1> QED
  BY <1>2, <1>3, <1>4, <1>5 DEF Operator

LEMMA TypeOthers == ASSUME TypeOK, Handlers \/ Environment PROVE TypeOK'
<1> USE DEF TypeOK, loop, handle, seen, bounds
<1>1. CASE Handlers
  BY <1>1 DEF Handlers, Answer, NotifyOne
<1>2. CASE TimeIsUp
  BY <1>2 DEF TimeIsUp, Turn, Onward, Pcs
<1>3. ASSUME Trouble PROVE ends' \in Nat /\ UNCHANGED <<requests, shifts>>
  BY <1>3 DEF Trouble
<1>4. CASE CycleFails \/ DiskFull
  BY <1>3, <1>4 DEF CycleFails, DiskFull, EndCycle, Pcs, Ends
<1>5. CASE Signal
  BY <1>3, <1>5 DEF Signal
<1>6. CASE Crash
  BY <1>3, <1>6 DEF Crash, Goto, Pcs
<1>7. CASE WindowsMove
  BY <1>7 DEF WindowsMove
<1>8. CASE Boot
  BY <1>8 DEF Boot, Pcs, Ends
<1>9. ASSUME NEW call \in Calls, CutOff(call) PROVE TypeOK'
  BY <1>3, <1>9 DEF CutOff
<1> QED
  BY <1>1, <1>2, <1>4, <1>5, <1>6, <1>7, <1>8, <1>9 DEF Environment

LEMMA TypeStep == TypeOK /\ [Next]_vars => TypeOK'
<1> SUFFICES ASSUME TypeOK, [Next]_vars PROVE TypeOK'
  OBVIOUS
<1>1. CASE UNCHANGED vars
  BY <1>1 DEF vars, loop, handle, seen, bounds, TypeOK
<1> QED
  BY <1>1, TypeLoop, TypeOperator, TypeOthers DEF Next

(* Every variable of the loop and of the handlers keeps its type: the queue *)
(* count in particular stays within its bounds at every claim and request.  *)
THEOREM TypeCorrect == Spec => []TypeOK
<1> QED
  BY TypeInit, TypeStep, PTL DEF Spec

-----------------------------------------------------------------------------
(* A trigger is held as a permit, or the loop is on its way to a cycle. *)

(* From the beginning of a cycle to the end of the sleep after it *)
CyclePcs == {"pick", "gate", "work", "rest", "asleep"}

LoopInv ==
  /\ pc \in CyclePcs => unseen = {} \/ permit
  /\ pc = "held" => paused \/ permit \/ "resume" \in calls
  /\ paused => IF pc = "begin" THEN begun = 0 ELSE begun <= 1

LEMMA LoopInit == Init => LoopInv
BY DEF Init, LoopInv, CyclePcs

LEMMA LoopStep == TypeOK /\ LoopInv /\ [Next]_vars => LoopInv'
<1> SUFFICES ASSUME TypeOK, LoopInv, [Next]_vars PROVE LoopInv'
  OBVIOUS
<1> USE DEF LoopInv, CyclePcs, At, Goto, EndCycle, handle, loop, seen, bounds
<1>1. begun \in Nat /\ paused \in BOOLEAN /\ permit \in BOOLEAN
  BY DEF TypeOK
<1>2. CASE Hold \/ GoOn
  BY <1>1, <1>2 DEF Hold, GoOn
<1>3. CASE Begin
  BY <1>1, <1>3 DEF Begin
<1>4. CASE Resume \/ Wake \/ TimeIsUp
  BY <1>1, <1>4 DEF Resume, Wake, TimeIsUp, Turn, Onward
<1>5. CASE Pick \/ Deny \/ Claim \/ Skip \/ WorkEnds \/ Rest \/ CycleFails \/ DiskFull
  BY <1>1, <1>5 DEF Pick, Deny, Claim, Skip, WorkEnds, Rest, CycleFails, DiskFull
<1>6. CASE Queue \/ Unqueue \/ SetOverdrive \/ Cycle
  BY <1>1, <1>6 DEF Queue, Unqueue, SetOverdrive, Cycle, Store
<1>7. CASE SetPaused
  BY <1>1, <1>7 DEF SetPaused, Store
<1>8. ASSUME NEW call \in Calls, Answer(call) PROVE LoopInv'
  BY <1>1, <1>8 DEF Answer, NotifyOne
<1>9. CASE WindowsMove \/ Signal \/ Crash
  BY <1>1, <1>9 DEF WindowsMove, Signal, Crash
<1>10. CASE Boot
  BY <1>10 DEF Boot
<1>11. ASSUME NEW call \in Calls, CutOff(call) PROVE LoopInv'
  BY <1>1, <1>11 DEF CutOff
<1>12. CASE UNCHANGED vars
  BY <1>12 DEF vars
<1> QED
  BY <1>2, <1>3, <1>4, <1>5, <1>6, <1>7, <1>8, <1>9, <1>10, <1>11, <1>12
     DEF Next, Loop, Operator, Handlers, Environment

(* A permit is consumed only by a loop that waits and is on its way to look  *)
(* at the pause again; a loop held by a pause has a request to come that     *)
(* ends it, or is paused still (run_daemon, SchedulerHandle).                *)
THEOREM LoopInvariant == Spec => []LoopInv
<1> QED
  BY TypeCorrect, LoopInit, LoopStep, PTL DEF Spec

(* No answered request is lost, whatever was stored, answered, cut off or    *)
(* consumed in between: a loop that waits without a permit has begun a cycle *)
(* after every one of them ("a trigger is never lost", SchedulerHandle).     *)
THEOREM TriggersAreSeen == Spec => []AnsweredIsSeen
<1>1. LoopInv => AnsweredIsSeen
  BY DEF LoopInv, CyclePcs, AnsweredIsSeen, At
<1> QED
  BY <1>1, LoopInvariant, PTL

(* However often the loop is woken meanwhile, at most one cycle begins after *)
(* the pause is stored: the one that had passed the check (run_daemon).      *)
THEOREM PausesHold == Spec => []PauseHolds
<1>1. TypeOK /\ LoopInv => PauseHolds
  BY DEF LoopInv, PauseHolds, TypeOK
<1> QED
  BY <1>1, TypeCorrect, LoopInvariant, PTL

=============================================================================
