----------------------------- MODULE FixTierProofs -----------------------------
(***************************************************************************)
(* The rows, trees and workers of FixChain implement the promise FixTier   *)
(* makes of a finding: the initial states map to its initial state, and    *)
(* every step maps to one of its steps or to a stutter.                    *)
(*                                                                         *)
(* A finding's work is running when one of its rows is, saved when one can *)
(* be resumed; RowsInv makes that one row, so what happens to a row        *)
(* happens to the work of its finding and of no other.                     *)
(***************************************************************************)
EXTENDS FixChainRows

Mapped == [f \in Findings |-> Work(f)]

Runs(f)  == \E j \in JobIds : jobs[j].finding = f /\ jobs[j].state = "running"
Saved(f) == \E j \in JobIds : jobs[j].finding = f /\ Paused(j)

LEMMA WorkIs ==
  ASSUME NEW f
  PROVE  /\ Work(f) = IF Runs(f) THEN "running" ELSE IF Saved(f) THEN "saved" ELSE "none"
         /\ Work(f)' = IF Runs(f)' THEN "running" ELSE IF Saved(f)' THEN "saved" ELSE "none"
BY DEF Work, Runs, Saved

(* The work of a finding whose rows stay as they are *)
LEMMA WorkStays ==
  ASSUME NEW f,
         \A j \in JobIds : jobs[j].finding = f \/ jobs'[j].finding = f => jobs'[j] = jobs[j],
         \A j \in JobIds : jobs[j].finding = f => (HasSuccessor(j)' <=> HasSuccessor(j))
  PROVE  Work(f)' = Work(f)
<1>1. (Runs(f)' <=> Runs(f)) /\ (Saved(f)' <=> Saved(f))
  BY DEF Runs, Saved, Paused
<1> QED
  BY <1>1, WorkIs

LEMMA WorkStaysCalm ==
  ASSUME Calm, NEW f,
         \A j \in JobIds : jobs[j].finding = f => jobs'[j] = jobs[j]
  PROVE  Work(f)' = Work(f)
BY CalmLive, WorkStays DEF Calm, CalmRow

(* The one live attempt of a finding decides what its work is. *)
LEMMA WorkAlone ==
  ASSUME NEW f, NEW j \in JobIds,
         \A k \in JobIds : Live(k) /\ jobs[k].finding = f => k = j
  PROVE  /\ Runs(f) => jobs[j].state = "running"
         /\ Saved(f) => Paused(j)
BY DEF Runs, Saved, Live

-----------------------------------------------------------------------------
(* Steps that leave the rows alone *)

LEMMA MapStutter ==
  ASSUME UNCHANGED <<status, jobs>> PROVE UNCHANGED Promise!vars
BY DEF Promise!vars, Work, Paused, HasSuccessor

LEMMA MapSame == ASSUME UNCHANGED jobs PROVE Mapped' = Mapped
BY DEF Mapped, Work, Paused, HasSuccessor

LEMMA MapUnclaim ==
  ASSUME TypeOK, NEW f \in Findings, status' \in {status, Unclaim(f)}, UNCHANGED jobs
  PROVE  Promise!Return(f) \/ UNCHANGED Promise!vars
<1>1. CASE status[f] = "fixing" /\ status' = Unclaim(f)
  BY <1>1, MapSame DEF TypeOK, Unclaim, Promise!Return, Promise!Moves, Mapped
<1>2. CASE status[f] # "fixing" \/ status' = status
  <2>1. status' = status
    BY <1>2 DEF TypeOK, Unclaim
  <2> QED
    BY <2>1, MapStutter
<1> QED
  BY <1>1, <1>2

-----------------------------------------------------------------------------
(* Steps that change rows *)

(* The attempt ends that was the only one alive of its finding. *)
LEMMA WorkEnds ==
  ASSUME Calm, NEW f \in Findings, NEW j \in JobIds, Alone(f, j),
         jobs'[j].state # "running",
         \A k \in JobIds : jobs[k].finding # f => jobs'[k] = jobs[k]
  PROVE  /\ \A g \in Findings \ {f} : Work(g)' = Work(g)
         /\ Work(f)' \in {"none", "saved"}
         /\ jobs'[j].state # "suspended" => Work(f)' = "none"
<1>1. ASSUME NEW g \in Findings \ {f} PROVE Work(g)' = Work(g)
  BY WorkStaysCalm
<1>2. \A k \in JobIds : Live(k)' /\ jobs'[k].finding = f => k = j
  BY CalmLive DEF Alone, Calm, CalmRow
<1>3. ~Runs(f)' /\ (jobs'[j].state # "suspended" => ~Saved(f)')
  BY <1>2 DEF Runs, Saved, Live, Paused
<1> QED
  BY <1>1, <1>3, WorkIs

LEMMA MapEnd ==
  ASSUME Calm, UNCHANGED status, NEW f \in Findings, NEW j \in JobIds, Alone(f, j),
         jobs[j].state = "running", jobs'[j].state # "running",
         \A k \in JobIds : jobs[k].finding # f => jobs'[k] = jobs[k]
  PROVE  Promise!End(f)
<1>1. Work(f) = "running"
  BY WorkIs DEF Runs, Alone
<1>2. PICK left \in {"none", "saved"} : Work(f)' = left
  BY WorkEnds
<1>3. Mapped' = [Mapped EXCEPT ![f] = left]
  BY <1>2, WorkEnds DEF Mapped
<1> QED
  BY <1>1, <1>3 DEF Promise!End, Promise!Becomes, Mapped

(* A resumable attempt is given up, or goes with its outcome. *)
LEMMA MapForget ==
  ASSUME Calm, UNCHANGED status, NEW f \in Findings, NEW j \in JobIds, Alone(f, j),
         status[f] # "blocked", jobs[j].state # "running",
         jobs'[j].state \notin {"running", "suspended"},
         \A k \in JobIds : jobs[k].finding # f => jobs'[k] = jobs[k]
  PROVE  Promise!Forget \/ Promise!Drop(f) \/ UNCHANGED Promise!vars
<1>1. Work(f)' = "none" /\ \A g \in Findings \ {f} : Work(g)' = Work(g)
  BY WorkEnds
<1>2. Work(f) \in {"none", "saved"}
  BY WorkIs, WorkAlone DEF Alone
<1>3. CASE Work(f) = "saved" /\ status[f] # "fixing"
  <2>1. Mapped' = [g \in Findings |-> IF g \in {f} THEN "none" ELSE Mapped[g]]
    BY <1>1 DEF Mapped
  <2>2. {f} \in SUBSET {g \in Findings : status[g] \notin {"fixing", "blocked"}}
    BY <1>3
  <2>3. \A g \in {f} : Mapped[g] = "saved"
    BY <1>3 DEF Mapped
  <2> QED
    BY <2>1, <2>2, <2>3 DEF Promise!Forget, Mapped
<1>4. CASE Work(f) = "none"
  <2>1. Mapped' = Mapped
    BY <1>1, <1>4 DEF Mapped
  <2> QED
    BY <2>1 DEF Promise!vars, Mapped
<1>5. CASE Work(f) = "saved" /\ status[f] = "fixing"
  <2>1. Mapped' = [Mapped EXCEPT ![f] = "none"]
    BY <1>1 DEF Mapped
  <2> QED
    BY <1>5, <2>1 DEF Promise!Drop, Promise!Becomes, Mapped
<1> QED
  BY <1>2, <1>3, <1>4, <1>5

LEMMA MapHold ==
  ASSUME TypeOK, RowsInv, NEW f \in Findings, NEW j \in JobIds, Alone(f, j),
         BlockFixJob(f, j)
  PROVE  Promise!Hold(f)
<1>1. ASSUME NEW g \in Findings \ {f} PROVE Work(g)' = Work(g)
  BY HeldRows, WorkStays DEF Alone
<1>2. Work(f)' = "saved"
  <2>1. Saved(f)'
    BY HoldLive, HeldRows DEF Saved, Alone
  <2>2. ~Runs(f)'
    BY HoldLive DEF Runs, Live
  <2> QED
    BY <2>1, <2>2, WorkIs
<1>3. Mapped' = [Mapped EXCEPT ![f] = "saved"]
  BY <1>1, <1>2 DEF Mapped
<1> QED
  BY <1>3 DEF Promise!Hold, BlockFixJob, Mapped

LEMMA MapCreated ==
  ASSUME TypeInv, RowsInv, ClaimInv, Created PROVE Promise!Start(run.f)
<1> USE CreatedRows
<1>1. pc = "create" /\ run.f \in Findings /\ status[run.f] = "fixing"
      /\ NoFinding \notin Findings
  BY FixChainAssumption
     DEF Created, Create, At, TypeInv, Locals, FindingPcs, ClaimInv, ClaimKept, ClaimedPcs
<1>2. jobs[nJobs'].finding = NoFinding /\ ~Runs(run.f)
  BY <1>1, NoneRunning DEF RowsInv, LinksInv, Unused, JobIds, Runs, ResetPcs, OwnJobPcs
<1>3. ASSUME NEW g \in Findings \ {run.f} PROVE Work(g)' = Work(g)
  <2>1. ASSUME NEW k \in JobIds, jobs[k].finding = g \/ jobs'[k].finding = g
        PROVE  jobs'[k] = jobs[k] /\ k # nJobs' /\ jobs[k].finding = g
    BY <1>1, <1>2, <2>1
  <2>2. ASSUME NEW k \in JobIds, jobs[k].finding = g
        PROVE  HasSuccessor(k)' <=> HasSuccessor(k)
    <3>1. k # run.from
      BY <1>1, <2>2 DEF RowsInv, ResumeInv, ResumePcs, JobIds
    <3>2. \A i \in JobIds : jobs'[i].from = k <=> jobs[i].from = k
      <4>1. jobs[nJobs'].from = 0 /\ k # 0
        BY DEF RowsInv, LinksInv, Unused, JobIds
      <4> QED
        BY <3>1, <4>1
    <3> QED
      BY <3>2 DEF HasSuccessor
  <2> QED
    BY <2>1, <2>2, WorkStays
<1>4. Work(run.f) \in {"none", "saved"} /\ Work(run.f)' = "running"
  BY <1>2, WorkIs DEF Runs
<1>5. Mapped' = [Mapped EXCEPT ![run.f] = "running"]
  BY <1>3, <1>4 DEF Mapped
<1> QED
  BY <1>1, <1>4, <1>5 DEF Promise!Start, Promise!Becomes, Mapped

-----------------------------------------------------------------------------
(* The passes and the operator *)

(* A finding whose attempt nothing can offer is asked of nobody. *)
LEMMA MapStranded ==
  ASSUME TypeInv, RowsInv, NEW here, NEW next, RetireStranded(here, next)
  PROVE  Promise!Forget
<1> DEFINE S == {f \in Findings : \E j \in JobIds : jobs[j].finding = f /\ Stranded(j)}
<1>1. TypeOK /\ Calm /\ UNCHANGED status
  BY StrandedRows DEF TypeInv, RetireStranded
<1>2. /\ S \in SUBSET {f \in Findings : status[f] \notin {"fixing", "blocked"}}
      /\ \A f \in S : Work(f) = "saved" /\ Work(f)' = "none"
  <2> SUFFICES ASSUME NEW f \in S
               PROVE  /\ status[f] \notin {"fixing", "blocked"}
                      /\ Work(f) = "saved" /\ Work(f)' = "none"
    OBVIOUS
  <2>1. PICK j \in JobIds : jobs[j].finding = f /\ Stranded(j)
    OBVIOUS
  <2>2. Paused(j) /\ f \in Findings /\ status[f] \notin {"fixing", "blocked"}
    BY <2>1 DEF Stranded
  <2>3. \A k \in JobIds : Live(k) /\ jobs[k].finding = f => k = j
    BY <2>1, <2>2 DEF RowsInv, OneLiveAttempt, Live
  <2>4. Work(f) = "saved"
    <3>1. Saved(f) /\ ~Runs(f)
      BY <2>1, <2>2, <2>3 DEF Saved, Runs, Live, Paused
    <3> QED
      BY <3>1, WorkIs
  <2>5. jobs'[j].state = "killed"
    BY <1>1, <2>1, <2>2 DEF RetireStranded, Killed, TypeOK, Job
  <2>6. \A k \in JobIds : ~(Live(k)' /\ jobs'[k].finding = f)
    BY <1>1, <2>3, <2>5, CalmLive DEF Calm, CalmRow, Live, Paused
  <2>7. Work(f)' = "none"
    <3>1. ~Saved(f)' /\ ~Runs(f)'
      BY <2>6 DEF Saved, Runs, Live
    <3> QED
      BY <3>1, WorkIs
  <2> QED
    BY <2>2, <2>4, <2>7
<1>3. ASSUME NEW f \in Findings \ S PROVE Work(f)' = Work(f)
  <2>1. \A k \in JobIds : jobs[k].finding = f => jobs'[k] = jobs[k]
    BY DEF RetireStranded
  <2> QED
    BY <1>1, <2>1, WorkStaysCalm
<1>4. Mapped' = [f \in Findings |-> IF f \in S THEN "none" ELSE Mapped[f]]
  BY <1>2, <1>3 DEF Mapped
<1>5. \A f \in S : Mapped[f] = "saved"
  BY <1>2 DEF Mapped
<1> HIDE DEF S
<1> QED
  BY <1>1, <1>2, <1>4, <1>5 DEF Promise!Forget, Mapped

LEMMA MapOrphans ==
  ASSUME TypeInv, RowsInv, SuspendOrphans
  PROVE  UNCHANGED Promise!vars \/ \E f \in Findings : Promise!End(f)
<1>1. TypeOK /\ Calm /\ UNCHANGED status
  BY OrphanRows DEF TypeInv, SuspendOrphans
<1>2. CASE \A j \in JobIds : ~Salvageable(j)
  <2>1. \A j \in JobIds : jobs'[j] = jobs[j]
    BY <1>2 DEF SuspendOrphans
  <2>2. \A f \in Findings : Work(f)' = Work(f)
    BY <1>1, <2>1, WorkStaysCalm
  <2> QED
    BY <1>1, <2>2 DEF Promise!vars
<1>3. ASSUME NEW j \in JobIds, Salvageable(j) PROVE \E f \in Findings : Promise!End(f)
  <2>1. jobs[j].state = "running"
    BY <1>3 DEF Salvageable
  <2>2. PICK f \in Findings : f = jobs[j].finding
    BY <2>1 DEF RowsInv, LinksInv, Linked, Unused
  <2>3. \A k \in JobIds : Salvageable(k) => k = j
    BY <2>1 DEF Salvageable, RowsInv, RunningInv
  <2>4. \A k \in JobIds : jobs[k].finding # f => jobs'[k] = jobs[k]
    BY <2>2, <2>3 DEF SuspendOrphans
  <2>5. jobs'[j].state = "suspended"
    BY <1>1, <1>3 DEF SuspendOrphans, TypeOK, Job
  <2>6. \A k \in JobIds : Live(k) /\ jobs[k].finding = f => k = j
    BY <2>1, <2>2 DEF RowsInv, OneLiveAttempt, Live
  <2>7. ASSUME NEW g \in Findings \ {f} PROVE Work(g)' = Work(g)
    BY <1>1, <2>4, WorkStaysCalm
  <2>8. Work(f) = "running" /\ Work(f)' \in {"none", "saved"}
    <3>1. Runs(f)
      BY <2>1, <2>2 DEF Runs
    <3>2. ~Runs(f)'
      BY <1>1, <2>5, <2>6, CalmLive DEF Runs, Live, Calm, CalmRow
    <3> QED
      BY <3>1, <3>2, WorkIs
  <2>9. PICK left \in {"none", "saved"} : Mapped' = [Mapped EXCEPT ![f] = left]
    BY <2>7, <2>8 DEF Mapped
  <2> QED
    BY <1>1, <2>8, <2>9 DEF Promise!End, Promise!Becomes, Mapped
<1> QED
  BY <1>2, <1>3

LEMMA MapStuck ==
  ASSUME TypeInv, RowsInv, RequeueStuck PROVE Promise!Reconcile
<1>1. TypeOK /\ Calm /\ \A j \in JobIds : jobs'[j].state # "running"
  BY StuckRows DEF TypeInv
<1>2. ASSUME NEW f \in Findings
      PROVE  Work(f)' = IF Work(f) = "running" THEN "none" ELSE Work(f)
  <2>1. CASE Runs(f)
    <3>1. PICK j \in JobIds : jobs[j].finding = f /\ jobs[j].state = "running"
      BY <2>1 DEF Runs
    <3>2. \A k \in JobIds : Live(k) /\ jobs[k].finding = f => k = j
      BY <3>1 DEF RowsInv, OneLiveAttempt, Live
    <3>3. jobs'[j].state = "killed"
      BY <1>1, <3>1 DEF RequeueStuck, Killed, TypeOK, Job
    <3>4. \A k \in JobIds : ~(Live(k)' /\ jobs'[k].finding = f)
      BY <1>1, <3>2, <3>3, CalmLive DEF Calm, CalmRow, Live, Paused
    <3>5. ~Saved(f)' /\ ~Runs(f)'
      BY <3>4 DEF Saved, Runs, Live
    <3> QED
      BY <2>1, <3>5, WorkIs
  <2>2. CASE ~Runs(f)
    <3>1. \A k \in JobIds : jobs[k].finding = f => jobs'[k] = jobs[k]
      BY <2>2 DEF Runs, RequeueStuck
    <3>2. Work(f)' = Work(f)
      BY <1>1, <3>1, WorkStaysCalm
    <3> QED
      BY <2>2, <3>2, WorkIs
  <2> QED
    BY <2>1, <2>2
<1>3. Mapped' = [f \in Findings |-> IF Mapped[f] = "running" THEN "none" ELSE Mapped[f]]
  BY <1>2 DEF Mapped
<1> QED
  BY <1>3 DEF Promise!Reconcile, RequeueStuck, Mapped

LEMMA MapOperator ==
  ASSUME TypeInv, Operator PROVE \E f \in Findings : Promise!Decide(f)
<1>1. PICK f \in Findings : Verdict(f) \/ Unqueue(f)
  BY DEF Operator
<1>2. ASSUME NEW from, NEW to, Answer(f, from, to)
      PROVE  /\ status[f] = from /\ status' = [status EXCEPT ![f] = to]
             /\ UNCHANGED Mapped
  BY <1>2, MapSame DEF Answer
<1>3. CASE Unqueue(f)
  BY <1>2, <1>3 DEF Unqueue, Promise!Decide, Promise!Moves, Mapped
<1>4. CASE Verdict(f)
  <2>1. PICK from \in Awaiting, to \in Given : Answer(f, from, to)
    BY <1>4 DEF Verdict
  <2>2. Promise!Awaiting = Awaiting /\ Promise!Given = Given
    BY DEF Promise!Awaiting, Promise!Given, Awaiting, Given
  <2> QED
    BY <1>2, <2>1, <2>2 DEF Promise!Decide, Promise!Moves, Mapped
<1> QED
  BY <1>1, <1>3, <1>4

-----------------------------------------------------------------------------
(* Every step is one the promise has. *)

Kept == Promise!Next \/ UNCHANGED Promise!vars

LEMMA KeptBy ==
  ASSUME NEW f \in Findings,
         \/ Promise!Return(f) \/ Promise!Hold(f) \/ Promise!End(f) \/ Promise!Start(f)
         \/ Promise!Take(f) \/ Promise!Settle(f) \/ Promise!Decide(f)
         \/ Promise!Drop(f) \/ Promise!Forget \/ Promise!Reconcile \/ UNCHANGED Promise!vars
  PROVE  Kept
BY DEF Kept, Promise!Next

LEMMA KeptFailed ==
  ASSUME TypeInv, pc \in FindingPcs, FailClaimed PROVE Kept
<1>1. /\ TypeOK /\ run.f \in Findings /\ UNCHANGED jobs
      /\ status' \in {status, Unclaim(run.f)}
  BY DEF TypeInv, Locals, FailClaimed
<1> QED
  BY <1>1, MapUnclaim, KeptBy

LEMMA KeptSame == ASSUME UNCHANGED <<status, jobs>> PROVE Kept
BY MapStutter DEF Kept

LEMMA KeptBetweenCycles ==
  ASSUME TypeInv, RowsInv, Startup \/ BetweenCycles PROVE Kept
<1>1. CASE Boot \/ ReleaseTrees("boot_trees", "reconcile") \/ ReleaseTrees("trees", "pick")
  BY <1>1, KeptSame DEF Boot, ReleaseTrees, db
<1>2. CASE RetireStranded("boot_stranded", "boot_trees")
  BY <1>2, MapStranded DEF Kept, Promise!Next
<1>3. CASE RetireStranded("stranded", "trees")
  BY <1>3, MapStranded DEF Kept, Promise!Next
<1>4. CASE SuspendOrphans
  BY <1>4, MapOrphans DEF Kept, Promise!Next
<1>5. CASE RequeueStuck
  BY <1>5, MapStuck DEF Kept, Promise!Next
<1> QED
  BY <1>1, <1>2, <1>3, <1>4, <1>5 DEF Startup, BetweenCycles

LEMMA KeptSelect ==
  ASSUME TypeInv, RowsInv, Select PROVE Kept
<1> USE DEF At, Goto
<1>1. CASE NothingQueued \/ StartFresh \/ CountGaveUp
             \/ (\E f \in Findings : PickFix(f)) \/ (\E j \in JobIds : ResumeChain(j))
  BY <1>1, KeptSame DEF NothingQueued, StartFresh, CountGaveUp, PickFix, ResumeChain, db
<1>2. ASSUME NEW j \in JobIds, WorkdirGone(j) \/ GiveUpChain(j) PROVE Kept
  <2>1. /\ run.f \in Findings /\ status[run.f] = "queued" /\ Paused(j)
        /\ Alone(run.f, j) /\ jobs[j].state # "absent" /\ UNCHANGED <<status, nJobs>>
    BY <1>2, OfferedAlone DEF WorkdirGone, GiveUpChain
  <2>2. CASE UNCHANGED jobs
    BY <2>1, <2>2, KeptSame
  <2>3. CASE jobs' = Retire(jobs, j, "killed", "other")
               \/ jobs' = Retire(jobs, j, "failed", "give-up")
    <3>1. /\ Calm /\ jobs'[j].state \in {"killed", "failed"}
          /\ \A k \in JobIds \ {j} : jobs'[k] = jobs[k]
      BY <2>1, <2>3, RetiredRow DEF TypeInv
    <3>2. Promise!Forget \/ Promise!Drop(run.f) \/ UNCHANGED Promise!vars
      BY <2>1, <3>1, MapForget DEF Paused, Alone
    <3> QED
      BY <2>1, <3>2, KeptBy
  <2> QED
    BY <1>2, <2>2, <2>3 DEF WorkdirGone, GiveUpChain
<1>3. CASE HoldGaveUp
  <2>1. run.f \in Findings /\ run.job \in JobIds /\ TypeOK
    BY <1>3 DEF HoldGaveUp, TypeInv, Locals, FindingPcs, JobPcs
  <2>2. Alone(run.f, run.job)
    BY <1>3 DEF HoldGaveUp, RowsInv, OwnInv, JobPcs, Alone
  <2>3. CASE BlockFixJob(run.f, run.job)
    BY <2>1, <2>2, <2>3, MapHold, KeptBy
  <2>4. CASE status' = Unclaim(run.f) /\ UNCHANGED jobs
    BY <2>1, <2>4, MapUnclaim, KeptBy
  <2> QED
    BY <1>3, <2>3, <2>4 DEF HoldGaveUp
<1> QED
  BY <1>1, <1>2, <1>3 DEF Select

(* A claim is taken when nothing else is claimed and no attempt runs. *)
LEMMA KeptClaim ==
  ASSUME TypeInv, RowsInv, ClaimInv, Claim PROVE Kept
<1>1. pc = "claim" /\ run.f \in Findings /\ TypeOK /\ UNCHANGED jobs
  BY DEF Claim, At, TypeInv, Locals, FindingPcs
<1>2. CASE status[run.f] = "queued"
  <2>1. status' = [status EXCEPT ![run.f] = "fixing"]
    BY <1>2 DEF Claim
  <2>2. ASSUME NEW g \in Findings PROVE status[g] # "fixing" /\ Mapped[g] # "running"
    <3>1. status[g] # "fixing"
      BY <1>1 DEF ClaimInv, NoStrandedClaim, ClaimedPcs
    <3>2. ~Runs(g)
      BY <1>1, NoneRunning DEF Runs, RowsInv, ResetPcs, OwnJobPcs
    <3>3. Work(g) # "running"
      BY <3>2, WorkIs
    <3> QED
      BY <3>1, <3>3 DEF Mapped
  <2>3. Promise!Take(run.f)
    BY <1>1, <1>2, <2>1, <2>2, MapSame DEF Promise!Take, Promise!Moves, Mapped
  <2> QED
    BY <1>1, <2>3, KeptBy
<1>3. CASE status[run.f] # "queued"
  BY <1>1, <1>3, KeptSame DEF Claim
<1> QED
  BY <1>2, <1>3

LEMMA KeptOpening ==
  ASSUME TypeInv, RowsInv, ClaimInv, Opening PROVE Kept
<1> USE DEF At, Goto
<1>1. TypeOK /\ (pc \in FindingPcs => run.f \in Findings)
  BY DEF TypeInv, Locals
<1>2. CASE StartGranted \/ StartDenied \/ OpenResumed
  BY <1>2, KeptSame DEF StartGranted, StartDenied, OpenResumed, db
<1>3. CASE Prepare
  <2>1. CASE FailClaimed
    BY <1>3, <2>1, KeptFailed DEF Prepare, FindingPcs
  <2>2. CASE BlockFixJob(run.f, run.from)
    <3>1. pc = "prepare" /\ run.from # 0 /\ run.f \in Findings
      BY <1>1, <1>3 DEF Prepare, TypeInv, Locals, FindingPcs
    <3>2. run.from \in JobIds
      BY <1>1, <3>1, RunFields, FixChainAssumption DEF TypeOK, JobIds
    <3>3. Paused(run.from) /\ jobs[run.from].finding = run.f
      BY <3>1 DEF RowsInv, ResumeInv, ResumePcs
    <3>4. Alone(run.f, run.from)
      BY <3>2, <3>3
         DEF Alone, RowsInv, LinksInv, Unused, OneLiveAttempt, Live, Paused
    <3> QED
      BY <1>1, <2>2, <3>1, <3>2, <3>4, MapHold, KeptBy
  <2>3. CASE UNCHANGED db
    BY <2>3, KeptSame DEF db
  <2> QED
    BY <1>3, <2>1, <2>2, <2>3 DEF Prepare
<1>4. CASE Create
  <2>1. CASE FailClaimed
    BY <1>4, <2>1, KeptFailed DEF Create, FindingPcs
  <2>2. CASE ~FailClaimed
    <3>1. Promise!Start(run.f) /\ run.f \in Findings
      BY <1>1, <1>4, <2>2, MapCreated DEF Created, Create, FindingPcs
    <3> QED
      BY <3>1, KeptBy
  <2> QED
    BY <2>1, <2>2
<1>5. CASE OpenFresh
  <2>1. run.f \in Findings /\ UNCHANGED jobs
    BY <1>1, <1>5 DEF OpenFresh, FindingPcs
  <2>2. UNCHANGED status \/ status' = Unclaim(run.f)
    BY <1>5 DEF OpenFresh
  <2> QED
    BY <1>1, <2>1, <2>2, KeptSame, MapUnclaim, KeptBy
<1>6. CASE TreeNotMade
  <2>1. pc = "open" /\ UNCHANGED status
    BY <1>6 DEF TreeNotMade
  <2>2. /\ run.f \in Findings /\ run.job \in JobIds /\ Alone(run.f, run.job)
        /\ jobs[run.job].state = "running"
    BY <2>1, OwnRow DEF OwnJobPcs, RowsInv, RunningInv
  <2>3. Calm /\ \A k \in JobIds \ {run.job} : jobs'[k] = jobs[k]
    BY <1>1, <1>6, <2>2, UnmadeRows
  <2>4. jobs'[run.job].state = "failed"
    BY <1>1, <1>6, <2>2 DEF TreeNotMade, TypeOK, Job
  <2>5. Promise!End(run.f)
    BY <2>1, <2>2, <2>3, <2>4, MapEnd DEF Alone
  <2> QED
    BY <2>2, <2>5, KeptBy
<1> QED
  BY <1>2, <1>3, <1>4, <1>5, <1>6, KeptClaim DEF Opening

LEMMA KeptHeld ==
  ASSUME TypeInv, RowsInv, pc \in OwnJobPcs, BlockFixJob(run.f, run.job) PROVE Kept
BY OwnRow, MapHold, KeptBy DEF TypeInv

LEMMA KeptWorker ==
  ASSUME TypeInv, RowsInv, Worker PROVE Kept
<1>1. CASE WorkerNotRun
  BY <1>1, KeptFailed, KeptHeld DEF WorkerNotRun, At, FindingPcs, OwnJobPcs
<1>2. CASE Worker /\ ~WorkerNotRun
  BY <1>2, KeptSame DEF Worker, WorkerSpends, WorkerWrites, WorkerReturns, db
<1> QED
  BY <1>1, <1>2

LEMMA KeptSettled ==
  ASSUME TypeInv, ClaimInv, NEW v \in Promise!Settled, At("write"), Settle(v) PROVE Kept
<1>1. /\ TypeOK /\ run.f \in Findings /\ status[run.f] = "fixing"
      /\ UNCHANGED jobs
  BY DEF At, Settle, TypeInv, Locals, FindingPcs, ClaimInv, ClaimKept, ClaimedPcs
<1>2. CASE status' = [status EXCEPT ![run.f] = v]
  <2>1. Promise!Settle(run.f)
    BY <1>1, <1>2, MapSame DEF Promise!Settle, Promise!Moves, Mapped
  <2> QED
    BY <1>1, <2>1, KeptBy
<1>3. CASE UNCHANGED status
  BY <1>1, <1>3, KeptSame
<1> QED
  BY <1>2, <1>3 DEF Settle

LEMMA KeptSettling ==
  ASSUME TypeInv, RowsInv, ClaimInv, NotHeld, Settling PROVE Kept
<1> USE DEF At, Goto
<1>1. TypeOK /\ (pc \in FindingPcs => run.f \in Findings)
  BY DEF TypeInv, Locals
<1>2. CASE Record
  <2>1. pc = "record" /\ UNCHANGED status
    BY <1>2 DEF Record
  <2>2. /\ run.f \in Findings /\ run.job \in JobIds /\ Alone(run.f, run.job)
        /\ jobs[run.job].state = "running"
    BY <2>1, OwnRow DEF OwnJobPcs, RowsInv, RunningInv
  <2>3. CASE jobs' = jobs
    BY <2>1, <2>3, KeptSame
  <2>4. CASE jobs' # jobs
    <3>1. Promise!End(run.f)
      BY <1>2, <2>1, <2>2, <2>4, RecordRows, MapEnd
    <3> QED
      BY <2>2, <3>1, KeptBy
  <2> QED
    BY <2>3, <2>4
<1>3. CASE Conclude
  BY <1>3, KeptFailed, KeptSame DEF Conclude, FindingPcs, db
<1>4. CASE WriteBlocked \/ Hold
  BY <1>4, KeptFailed, KeptHeld DEF WriteBlocked, Hold, FindingPcs, OwnJobPcs
<1>5. CASE WriteDeclined \/ WriteShipped
  BY <1>5, KeptSettled DEF WriteDeclined, WriteShipped, DeclineVerdicts, Promise!Settled
<1>6. CASE WriteOther \/ Clean \/ Count \/ Close
  BY <1>6, KeptSame DEF WriteOther, Clean, Count, Close, db
<1>7. CASE Release
  <2>1. /\ run.f \in Findings /\ UNCHANGED jobs
        /\ status' \in {status, Unclaim(run.f)}
    BY <1>1, <1>7 DEF Release, FindingPcs
  <2> QED
    BY <1>1, <2>1, MapUnclaim, KeptBy
<1>8. CASE RetireConcluded
  <2>1. pc = "retire" /\ UNCHANGED <<status, nJobs>>
    BY <1>8 DEF RetireConcluded
  <2>2. /\ run.f \in Findings /\ run.job \in JobIds /\ Alone(run.f, run.job)
        /\ jobs[run.job].state # "absent"
        /\ status[run.f] # "blocked"
    BY <2>1, OwnRow DEF OwnJobPcs, NotHeld
  <2>3. CASE UNCHANGED jobs
    BY <2>1, <2>3, KeptSame
  <2>4. CASE jobs' = Retire(jobs, run.job, "killed", "none")
    <3>1. /\ Calm /\ jobs'[run.job].state = "killed"
          /\ \A k \in JobIds \ {run.job} : jobs'[k] = jobs[k]
      BY <1>1, <2>1, <2>2, <2>4, RetiredRow
    <3>2. \A k \in JobIds : jobs[k].finding # run.f => jobs'[k] = jobs[k]
      BY <2>2, <3>1 DEF Alone
    <3>3. CASE jobs[run.job].state = "running"
      <4>1. Promise!End(run.f)
        BY <2>1, <2>2, <3>1, <3>2, <3>3, MapEnd
      <4> QED
        BY <2>2, <4>1, KeptBy
    <3>4. CASE jobs[run.job].state # "running"
      <4>1. Promise!Forget \/ Promise!Drop(run.f) \/ UNCHANGED Promise!vars
        BY <2>1, <2>2, <3>1, <3>2, <3>4, MapForget
      <4> QED
        BY <2>2, <4>1, KeptBy
    <3> QED
      BY <3>3, <3>4
  <2> QED
    BY <1>8, <2>3, <2>4 DEF RetireConcluded
<1> QED
  BY <1>2, <1>3, <1>4, <1>5, <1>6, <1>7, <1>8 DEF Settling

LEMMA KeptOthers ==
  ASSUME TypeInv, Operator \/ Environment \/ UNCHANGED vars PROVE Kept
<1>1. CASE Operator
  BY <1>1, MapOperator, KeptBy
<1>2. CASE Environment \/ UNCHANGED vars
  BY <1>2, KeptSame DEF Environment, Crash, WorkerExits, TreeLost, vars, db
<1> QED
  BY <1>1, <1>2

LEMMA PromiseInit == Init => Promise!Init
<1> SUFFICES ASSUME Init PROVE Promise!Init
  OBVIOUS
<1>1. \A f \in Findings : Work(f) = "none"
  BY DEF Init, Work, Paused, NoJob
<1> QED
  BY <1>1 DEF Init, Promise!Init

LEMMA PromiseStep ==
  ASSUME TypeInv, RowsInv, ClaimInv, NotHeld, [Next]_vars
  PROVE  [Promise!Next]_(Promise!vars)
BY KeptBetweenCycles, KeptSelect, KeptOpening, KeptWorker, KeptSettling, KeptOthers
   DEF Next, Kept

(* The fix tier keeps its promise for any number of findings, chains,         *)
(* failures, deaths and verdicts: seen from a finding, its rows, trees and    *)
(* workers only ever do what FixTier lets happen (start_fix,                  *)
(* record_fix_outcome, block_fix_job, reconcile_and_log, sweep).              *)
THEOREM FixesArePromised == Spec => FixesAsPromised
<1>1. TypeInv /\ RowsInv /\ ClaimInv /\ (BlockedHasCheckpoint /\ NotHeld) /\ [Next]_vars
        => [Promise!Next]_(Promise!vars)
  BY PromiseStep
<1> QED
  BY <1>1, PromiseInit, TypeInvariant, ClaimInvariant, RowsInvariant, CheckpointsInvariant,
     PTL DEF Spec, FixesAsPromised, Promise!Spec

=============================================================================
