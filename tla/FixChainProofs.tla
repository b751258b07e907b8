--------------------------- MODULE FixChainProofs ---------------------------
(***************************************************************************)
(* Theorems about FixChain for every set of findings and every value of    *)
(* the ceilings and bounds.                                                *)
(*                                                                         *)
(* The chain of argument: TypeInv (types, and which locals are set where)  *)
(* is inductive on its own; ClaimInv adds who owns a `fixing` finding and  *)
(* is inductive relative to TypeInv; that only the operator brings a       *)
(* settled finding back follows from the two, step by step.                *)
(***************************************************************************)
EXTENDS FixChain, TLAPS

FindingPcs == {"plan", "gaveup", "gaveup_hold", "start", "claim", "prepare",
               "create", "open", "work", "record", "conclude", "write",
               "clean", "count", "hold", "release", "retire", "close"}

JobPcs == {"gaveup", "gaveup_hold", "open", "work", "record", "conclude",
           "write", "clean", "count", "hold", "release", "retire", "close"}

(* Which locals are set at which step. *)
Locals ==
  /\ pc \in FindingPcs => run.f \in Findings
  /\ pc \in JobPcs => run.job \in JobIds
  /\ pc \in {"claim", "prepare", "create"} => nJobs < MaxJobs
  /\ pc = "prepare" => run.from # 0

TypeInv == TypeOK /\ Locals

-----------------------------------------------------------------------------
(* Rows, and the two writes most steps share *)

LEMMA EndedRow ==
  ASSUME NEW r \in Job, NEW s \in States, NEW w \in Reasons
  PROVE  [r EXCEPT !.state = s, !.reason = w] \in Job
BY DEF Job

LEMMA HeldRow ==
  ASSUME NEW r \in Job, NEW b \in BOOLEAN
  PROVE  [r EXCEPT !.state = "suspended", !.blocker = TRUE, !.session = b] \in Job
BY DEF Job, States

LEMMA Retiring ==
  ASSUME jobs \in [JobIds -> Job],
         NEW j \in JobIds, NEW s \in States, NEW w \in Reasons
  PROVE  Retire(jobs, j, s, w) \in [JobIds -> Job]
BY DEF Job, Retire

LEMMA Killing ==
  ASSUME NEW r \in Job PROVE Killed(r) \in Job
BY DEF Killed, Job, States, Reasons

LEMMA Stranding ==
  ASSUME TypeOK, NEW here, NEW next, RetireStranded(here, next)
  PROVE  jobs' \in [JobIds -> Job]
BY Killing DEF TypeOK, RetireStranded

LEMMA Salvaging ==
  ASSUME TypeOK, SuspendOrphans PROVE jobs' \in [JobIds -> Job]
<1>1. ASSUME NEW j \in JobIds
      PROVE  [jobs[j] EXCEPT !.state = "suspended", !.reason = "other",
                             !.session = TRUE, !.tokens = TRUE] \in Job
  BY DEF TypeOK, Job, States, Reasons
<1> QED
  BY <1>1 DEF TypeOK, SuspendOrphans

LEMMA Requeueing ==
  ASSUME TypeOK, RequeueStuck
  PROVE  jobs' \in [JobIds -> Job] /\ status' \in [Findings -> Status]
<1>1. jobs' \in [JobIds -> Job]
  BY Killing DEF TypeOK, RequeueStuck
<1>2. status' \in [Findings -> Status]
  BY DEF TypeOK, RequeueStuck, Status
<1> QED
  BY <1>1, <1>2

LEMMA Blocking ==
  ASSUME TypeOK, NEW f, NEW j, BlockFixJob(f, j)
  PROVE  /\ jobs' \in [JobIds -> Job]
         /\ status' \in [Findings -> Status]
         /\ streak' \in [Findings -> [n : Nat, why : Failures]]
         /\ nJobs' = nJobs
<1>1. HasSession(j) \in BOOLEAN
  BY DEF HasSession
<1>2. jobs' = [k \in JobIds |->
                IF k = j THEN [jobs[j] EXCEPT !.state = "suspended", !.blocker = TRUE,
                                              !.session = HasSession(j)]
                         ELSE jobs[k]]
  BY DEF BlockFixJob, TypeOK
<1>3. ASSUME NEW k \in JobIds PROVE jobs'[k] \in Job
  <2>1. jobs[k] \in Job
    BY DEF TypeOK
  <2>2. CASE k = j
    BY <1>1, <1>2, <2>1, <2>2, HeldRow
  <2>3. CASE k # j
    BY <1>2, <2>1, <2>3
  <2> QED
    BY <2>2, <2>3
<1>4. jobs' \in [JobIds -> Job]
  BY <1>2, <1>3
<1>5. status' \in [Findings -> Status]
  BY DEF BlockFixJob, TypeOK, Status
<1>6. streak' \in [Findings -> [n : Nat, why : Failures]]
  BY DEF BlockFixJob, TypeOK, Failures
<1> QED
  BY <1>4, <1>5, <1>6 DEF BlockFixJob

(* A file written to a tree, or removed from it *)
LEMMA Marking ==
  ASSUME TypeOK, NEW o, NEW file \in {"blocked", "declined", "ready"}, NEW b \in BOOLEAN,
         tree' = [tree EXCEPT ![o][file] = b]
  PROVE  tree' \in [JobIds -> Tree]
<1>1. tree \in [JobIds -> Tree]
  BY DEF TypeOK
<1>2. ASSUME NEW t \in Tree PROVE [t EXCEPT ![file] = b] \in Tree
  BY DEF Tree
<1> QED
  BY <1>1, <1>2

LEMMA Cleaning ==
  ASSUME TypeOK, NEW o, tree' = [tree EXCEPT ![o].blocked = FALSE]
  PROVE  tree' \in [JobIds -> Tree]
BY Marking

LEMMA Releasing ==
  ASSUME TypeOK, NEW S PROVE ReleaseIdle(S) \in [JobIds -> Tree]
BY DEF TypeOK, ReleaseIdle, Tree, NoTree

LEMMA Unclaiming ==
  ASSUME TypeOK, NEW f PROVE Unclaim(f) \in [Findings -> Status]
BY DEF TypeOK, Unclaim, Status

LEMMA Counting ==
  ASSUME TypeOK, NEW f \in Findings, NEW w \in Failures
  PROVE  Counted(f, w) \in [n : Nat, why : Failures]
BY DEF TypeOK, Counted

-----------------------------------------------------------------------------
(* The scheduler's locals: what a change of one of them leaves alone *)

LEMMA NoRunIsRun == NoRun \in Run
BY FixChainAssumption DEF NoRun, Run, States, Outcomes, Failures

LEMMA RunFields ==
  ASSUME NEW r \in Run
  PROVE  /\ r.from \in 0..MaxJobs /\ r.job \in 0..MaxJobs /\ r.old \subseteq JobIds
         /\ r.held \in BOOLEAN /\ r.failure \in Failures /\ r.state \in States \cup {"absent"}
         /\ r.outcome \in Outcomes
BY DEF Run

LEMMA SetF ==
  ASSUME NEW r \in Run, NEW f \in Findings,
         NEW s, s = [r EXCEPT !.f = f]
  PROVE  s \in Run /\ s.f = f /\ s.from = r.from /\ s.job = r.job
BY DEF Run

LEMMA SetFrom ==
  ASSUME NEW r \in Run, NEW j \in 0..MaxJobs,
         NEW s, s = [r EXCEPT !.from = j]
  PROVE  s \in Run /\ s.f = r.f /\ s.from = j /\ s.job = r.job
BY DEF Run

LEMMA SetJob ==
  ASSUME NEW r \in Run, NEW j \in 0..MaxJobs,
         NEW s, s = [r EXCEPT !.job = j]
  PROVE  s \in Run /\ s.f = r.f /\ s.from = r.from /\ s.job = j
BY DEF Run

LEMMA SetHeld ==
  ASSUME NEW r \in Run, NEW h \in BOOLEAN,
         NEW s, s = [r EXCEPT !.held = h]
  PROVE  s \in Run /\ s.f = r.f /\ s.from = r.from /\ s.job = r.job
BY DEF Run

LEMMA SetState ==
  ASSUME NEW r \in Run, NEW h \in States,
         NEW s, s = [r EXCEPT !.state = h]
  PROVE  s \in Run /\ s.f = r.f /\ s.from = r.from /\ s.job = r.job
BY DEF Run

LEMMA SetEnd ==
  ASSUME NEW r \in Run, NEW h \in AllEnds,
         NEW s, s = [r EXCEPT !.end = h]
  PROVE  s \in Run /\ s.f = r.f /\ s.from = r.from /\ s.job = r.job
BY DEF Run

-----------------------------------------------------------------------------
(* Type correctness *)

LEMMA TypeInit == Init => TypeInv
<1> SUFFICES ASSUME Init PROVE TypeInv
  OBVIOUS
<1> USE FixChainAssumption DEF Init, JobIds
<1>1. TypeOK
  BY DEF TypeOK, Status, Failures, Job, NoJob, States, Reasons, Tree, NoTree, Pcs,
         Run, NoRun, Outcomes, AllEnds
<1>2. Locals
  BY DEF Locals, FindingPcs, JobPcs
<1> QED
  BY <1>1, <1>2 DEF TypeInv

LEMMA TypeStartup ==
  ASSUME TypeInv, Startup PROVE TypeInv'
<1> USE FixChainAssumption DEF TypeInv, TypeOK, Locals, FindingPcs, JobPcs, Pcs, JobIds,
      At, Goto, EndCycle, db, disk, bounds
<1>1. CASE Boot
  BY <1>1 DEF Boot
<1>2. CASE RetireStranded("boot_stranded", "boot_trees")
  BY <1>2, Stranding DEF RetireStranded
<1>3. CASE ReleaseTrees("boot_trees", "reconcile")
  BY <1>3, Releasing DEF ReleaseTrees
<1> QED
  BY <1>1, <1>2, <1>3 DEF Startup

LEMMA TypeBetweenCycles ==
  ASSUME TypeInv, BetweenCycles PROVE TypeInv'
<1> USE FixChainAssumption DEF TypeInv, TypeOK, Locals, FindingPcs, JobPcs, Pcs, JobIds,
      At, Goto, EndCycle, db, disk, bounds
<1>1. CASE SuspendOrphans
  BY <1>1, Salvaging DEF SuspendOrphans
<1>2. CASE RequeueStuck
  BY <1>2, Requeueing DEF RequeueStuck
<1>3. CASE RetireStranded("stranded", "trees")
  BY <1>3, Stranding DEF RetireStranded
<1>4. CASE ReleaseTrees("trees", "pick")
  BY <1>4, Releasing DEF ReleaseTrees
<1> QED
  BY <1>1, <1>2, <1>3, <1>4 DEF BetweenCycles

LEMMA Retired ==
  ASSUME TypeOK, NEW j \in JobIds, NEW s \in States, NEW w \in Reasons,
         jobs' = Retire(jobs, j, s, w)
  PROVE  jobs' \in [JobIds -> Job]
BY Retiring DEF TypeOK

LEMMA JobIdRange == JobIds \subseteq 0..MaxJobs
BY FixChainAssumption DEF JobIds

LEMMA NoJobInRange == 0 \in 0..MaxJobs
BY FixChainAssumption

(* An abandoned cycle forgets its locals. *)
LEMMA Ending ==
  ASSUME TypeInv, EndCycle
  PROVE  run' \in Run /\ pc' \in Pcs /\ Locals'
BY NoRunIsRun DEF EndCycle, Pcs, Locals, FindingPcs, JobPcs

LEMMA Failing ==
  ASSUME TypeInv, FailClaimed PROVE TypeInv'
BY Unclaiming, Ending DEF TypeInv, TypeOK, FailClaimed, Fault, disk

LEMMA TypeSelect ==
  ASSUME TypeInv, Select PROVE TypeInv'
<1> USE DEF TypeInv, TypeOK, Locals, FindingPcs, JobPcs, Pcs, At, Goto, db, disk, bounds
<1>1. ASSUME NEW f \in Findings, PickFix(f) PROVE TypeInv'
  BY <1>1, SetF, NoRunIsRun DEF PickFix
<1>2. CASE NothingQueued
  BY <1>2, Ending DEF NothingQueued
<1>3. ASSUME NEW j \in JobIds, WorkdirGone(j) PROVE TypeInv'
  BY <1>3, Retired DEF WorkdirGone, Offered, States, Reasons
<1>4. ASSUME NEW j \in JobIds, ResumeChain(j) PROVE TypeInv'
  BY <1>4, SetFrom, JobIdRange DEF ResumeChain, Offered
<1>5. ASSUME NEW j \in JobIds, GiveUpChain(j) PROVE TypeInv'
  <2>1. jobs' \in [JobIds -> Job]
    BY <1>5, Retired DEF GiveUpChain, Offered, States, Reasons
  <2>2. CASE pc' = "gaveup" /\ run' = [run EXCEPT !.job = j] /\ UNCHANGED bounds
    BY <1>5, <2>1, <2>2, SetJob, JobIdRange DEF GiveUpChain, Offered
  <2>3. CASE Fault /\ Goto("start")
    BY <1>5, <2>1, <2>3 DEF GiveUpChain, Offered, Fault
  <2> QED
    BY <1>5, <2>2, <2>3 DEF GiveUpChain
<1>6. CASE StartFresh
  BY <1>6 DEF StartFresh
<1>7. CASE CountGaveUp
  <2>1. run.f \in Findings /\ "gaveup" \in Failures
    BY <1>7 DEF CountGaveUp, Failures
  <2>2. streak' \in [Findings -> [n : Nat, why : Failures]]
    BY <1>7, <2>1, Counting DEF CountGaveUp
  <2>3. CASE pc' = "start" /\ run' = [run EXCEPT !.job = 0]
    BY <1>7, <2>1, <2>2, <2>3, SetJob, NoJobInRange DEF CountGaveUp, Fault
  <2>4. CASE Goto("gaveup_hold") /\ UNCHANGED bounds
    BY <1>7, <2>1, <2>2, <2>4 DEF CountGaveUp
  <2> QED
    BY <1>7, <2>3, <2>4 DEF CountGaveUp
<1>8. CASE HoldGaveUp
  <2>1. CASE BlockFixJob(run.f, run.job) /\ pc' = "pick" /\ run' = NoRun /\ UNCHANGED bounds
    BY <1>8, <2>1, Blocking, NoRunIsRun DEF HoldGaveUp
  <2>2. CASE /\ Fault /\ status' = Unclaim(run.f) /\ UNCHANGED <<streak, jobs, nJobs>>
             /\ pc' = "start" /\ run' = [run EXCEPT !.job = 0]
    BY <1>8, <2>2, Unclaiming, SetJob, NoJobInRange DEF HoldGaveUp, Fault
  <2> QED
    BY <1>8, <2>1, <2>2 DEF HoldGaveUp
<1> QED
  BY <1>1, <1>2, <1>3, <1>4, <1>5, <1>6, <1>7, <1>8 DEF Select

LEMMA Creating ==
  ASSUME TypeInv, Create, ~FailClaimed PROVE TypeInv'
<1> DEFINE j    == nJobs + 1
           cold == run.from = 0
           new  == [NoJob EXCEPT
                      !.state = "running", !.finding = run.f, !.from = run.from,
                      !.origin = IF cold THEN j ELSE jobs[run.from].origin,
                      !.blocker = ~cold /\ jobs[run.from].blocker]
<1>1. j \in JobIds /\ run.f \in Findings /\ run.from \in 0..MaxJobs /\ run \in Run
  <2>1. nJobs < MaxJobs /\ nJobs \in 0..MaxJobs /\ run.f \in Findings /\ run \in Run
    BY DEF TypeInv, TypeOK, Locals, FindingPcs, Create, At
  <2> QED
    BY <2>1, RunFields, FixChainAssumption DEF JobIds
<1>2. jobs \in [JobIds -> Job]
  BY DEF TypeInv, TypeOK
<1>3. new \in Job
  <2> DEFINE o == IF cold THEN j ELSE jobs[run.from].origin
             b == ~cold /\ jobs[run.from].blocker
  <2>1. o \in 0..MaxJobs
    <3>1. CASE cold
      BY <3>1, <1>1, JobIdRange
    <3>2. CASE ~cold
      <4>1. run.from \in JobIds
        BY <1>1, <3>2, FixChainAssumption DEF JobIds
      <4> QED
        BY <3>2, <4>1, <1>2 DEF Job
    <3> QED
      BY <3>1, <3>2
  <2>2. b \in BOOLEAN
    OBVIOUS
  <2>3. NoJob \in Job
    BY FixChainAssumption DEF NoJob, Job, Reasons
  <2> HIDE DEF o, b
  <2>4. [NoJob EXCEPT !.state = "running", !.finding = run.f, !.from = run.from,
                      !.origin = o, !.blocker = b] \in Job
    BY <1>1, <2>1, <2>2, <2>3 DEF Job, States
  <2> QED
    BY <2>4 DEF o, b
<1> HIDE DEF new
<1>4. PICK old \in {Supersedable(run.f), {}} :
        /\ nJobs' = j
        /\ jobs' = [k \in JobIds |-> CASE k = j -> new
                                      [] k \in old -> Killed(jobs[k])
                                      [] OTHER -> jobs[k]]
        /\ run' = [run EXCEPT !.job = j, !.old = old]
        /\ pc' = "open"
        /\ UNCHANGED <<status, streak, disk, bounds>>
  BY DEF Create, new
<1>5. ASSUME NEW k \in JobIds PROVE jobs'[k] \in Job
  BY <1>2, <1>3, <1>4, <1>5, Killing
<1>6. jobs' \in [JobIds -> Job]
  BY <1>4, <1>5
<1>7. run' \in Run /\ run'.f = run.f /\ run'.job = j
  <2>1. old \in SUBSET JobIds
    BY <1>4 DEF Supersedable
  <2>2. j \in 0..MaxJobs /\ run \in Run
    BY <1>1, JobIdRange
  <2>3. run' = [run EXCEPT !.job = j, !.old = old]
    BY <1>4
  <2> HIDE DEF j
  <2> QED
    BY <2>1, <2>2, <2>3 DEF Run
<1>8. TypeOK'
  BY <1>1, <1>4, <1>6, <1>7, JobIdRange DEF TypeInv, TypeOK, Pcs, disk, bounds
<1>9. Locals'
  BY <1>1, <1>4, <1>7 DEF TypeInv, Locals, FindingPcs, JobPcs
<1> QED
  BY <1>8, <1>9 DEF TypeInv

LEMMA FreshTreeIsTree == FreshTree \in Tree
BY DEF FreshTree, NoTree, Tree

LEMMA TypeOpening ==
  ASSUME TypeInv, Opening PROVE TypeInv'
<1> USE DEF TypeInv, TypeOK, Locals, FindingPcs, JobPcs, Pcs, At, Goto, db, disk, bounds
<1>1. CASE StartGranted
  BY <1>1 DEF StartGranted
<1>2. CASE StartDenied
  BY <1>2, Ending DEF StartDenied
<1>3. CASE Claim
  <2>1. CASE status[run.f] = "queued"
    BY <1>3, <2>1 DEF Claim, Status
  <2>2. CASE status[run.f] # "queued"
    BY <1>3, <2>2, Ending DEF Claim
  <2> QED
    BY <2>1, <2>2
<1>4. CASE Prepare
  <2>1. CASE FailClaimed
    BY <2>1, Failing
  <2>2. CASE /\ Fault /\ EndCycle
             /\ BlockFixJob(run.f, run.from) /\ UNCHANGED disk
    BY <1>4, <2>2, Blocking, Ending DEF Prepare, Fault
  <2>3. CASE ~FailClaimed /\ pc' = "create"
    <3> DEFINE o == jobs[run.from].origin
    <3>1. run.from \in JobIds
      BY <1>4, RunFields, FixChainAssumption DEF Prepare, JobIds
    <3>2. jobs[run.from].blocker \in BOOLEAN
      BY <3>1 DEF Job
    <3>3. run' \in Run /\ run'.f = run.f
      BY <1>4, <2>3, <3>2, SetHeld DEF Prepare, EndCycle, FailClaimed
    <3>4. tree' \in [JobIds -> Tree]
      <4>1. tree' = tree \/ tree' = [tree EXCEPT ![o].blocked = FALSE]
        BY <1>4, <2>3 DEF Prepare, EndCycle, FailClaimed
      <4> QED
        BY <4>1, Cleaning
    <3> QED
      BY <1>4, <2>3, <3>3, <3>4 DEF Prepare, EndCycle, FailClaimed
  <2> QED
    BY <1>4, <2>1, <2>2, <2>3 DEF Prepare
<1>5. CASE Create
  <2>1. CASE FailClaimed
    BY <2>1, Failing
  <2> QED
    BY <1>5, <2>1, Creating DEF Create
<1>6. CASE OpenResumed
  BY <1>6 DEF OpenResumed
<1>7. CASE OpenFresh
  <2>1. tree' \in [JobIds -> Tree]
    BY <1>7, Releasing, FreshTreeIsTree DEF OpenFresh, Released
  <2>2. CASE Goto("work") /\ UNCHANGED <<status, bounds>>
    BY <1>7, <2>1, <2>2 DEF OpenFresh
  <2>3. CASE Fault /\ EndCycle /\ status' \in {status, Unclaim(run.f)}
    BY <1>7, <2>1, <2>3, Ending, Unclaiming DEF OpenFresh, Fault
  <2> QED
    BY <1>7, <2>2, <2>3 DEF OpenFresh
<1>8. CASE TreeNotMade
  <2>1. jobs' \in [JobIds -> Job]
    BY <1>8 DEF TreeNotMade, Job, States
  <2>2. run' \in Run /\ run'.f = run.f /\ run'.job = run.job
    <3>1. "unmade" \in Outcomes /\ "tree" \in Failures
      BY DEF Outcomes, Failures
    <3> QED
      BY <1>8, <3>1 DEF TreeNotMade, Run
  <2> QED
    BY <1>8, <2>1, <2>2, Releasing DEF TreeNotMade, Released, Fault
<1> QED
  BY <1>1, <1>2, <1>3, <1>4, <1>5, <1>6, <1>7, <1>8 DEF Opening

LEMMA TypeWorker ==
  ASSUME TypeInv, Worker PROVE TypeInv'
<1> USE DEF TypeInv, TypeOK, Locals, FindingPcs, JobPcs, Pcs, At, Goto, db, disk, bounds
<1>1. ASSUME NEW j \in JobIds, WorkerSpends(j) PROVE TypeInv'
  BY <1>1 DEF WorkerSpends
<1>2. ASSUME NEW j \in JobIds, WorkerWrites(j) PROVE TypeInv'
  BY <1>2, Marking DEF WorkerWrites
<1>3. ASSUME NEW end \in AllEnds, WorkerReturns(end) PROVE TypeInv'
  BY <1>3, SetEnd DEF WorkerReturns
<1>4. CASE WorkerNotRun
  <2>1. CASE FailClaimed
    BY <2>1, Failing
  <2>2. CASE Fault /\ EndCycle /\ BlockFixJob(run.f, run.job)
    BY <1>4, <2>2, Blocking, Ending DEF WorkerNotRun, Fault
  <2> QED
    BY <1>4, <2>1, <2>2 DEF WorkerNotRun
<1> QED
  BY <1>1, <1>2, <1>3, <1>4 DEF Worker

LEMMA ConclusionRange ==
  ASSUME NEW c \in Conclusions PROVE c[1] \in Outcomes /\ c[2] \in Failures
BY DEF Conclusions, Outcomes, Failures

LEMMA Recording ==
  ASSUME TypeInv, Record PROVE TypeInv'
<1> DEFINE j     == run.job
           spent == j \in ledger
           state == JobState(run.end, spent)
           sess  == run.end # "unavailable" /\ Transcript(j)
           why   == CASE run.end = "cap" -> "cap"
                      [] run.end \in {"done", "exited"} -> "none"
                      [] OTHER -> "other"
           row   == [jobs EXCEPT ![j].state = state, ![j].tokens = spent,
                                 ![j].session = sess, ![j].reason = why]
<1>1. jobs \in [JobIds -> Job] /\ j \in JobIds /\ run \in Run
  BY DEF TypeInv, TypeOK, Locals, JobPcs, Record, At
<1>2. state \in States
  BY DEF JobState, States
<1>3. spent \in BOOLEAN /\ sess \in BOOLEAN
  BY DEF Transcript
<1>4. why \in Reasons
  BY DEF Reasons
<1> HIDE DEF state, spent, sess, why
<1>5. row \in [JobIds -> Job]
  <2>1. [jobs[j] EXCEPT !.state = state, !.tokens = spent,
                        !.session = sess, !.reason = why] \in Job
    BY <1>1, <1>2, <1>3, <1>4 DEF Job
  <2> QED
    BY <1>1, <2>1
<1>6. [row EXCEPT ![run.from].state = "killed"] \in [JobIds -> Job]
  <2> HIDE DEF row
  <2> QED
    BY <1>5 DEF Job, States
<1>7. jobs' \in [JobIds -> Job]
  BY <1>1, <1>5, <1>6 DEF Record, row, state, spent, sess, why
<1>8. run' \in Run /\ run'.f = run.f /\ run'.job = run.job
  <2>1. CASE run' = [run EXCEPT !.state = state]
    BY <1>1, <1>2, <2>1, SetState
  <2>2. CASE run' = [run EXCEPT !.state = "failed"]
    BY <1>1, <2>2, SetState DEF States
  <2> QED
    BY <2>1, <2>2 DEF Record, state, spent
<1> QED
  BY <1>7, <1>8 DEF Record, TypeInv, TypeOK, Locals, FindingPcs, JobPcs, Pcs, At, Fault,
                    disk, bounds

LEMMA Settles ==
  ASSUME TypeInv, At("write"), NEW v \in Status, Settle(v) PROVE TypeInv'
BY DEF Settle, ClearStreak, Fault, Failures, Goto, At, TypeInv, TypeOK, Locals,
       FindingPcs, JobPcs, Pcs, disk, bounds

LEMMA TypeSettling ==
  ASSUME TypeInv, Settling PROVE TypeInv'
<1> USE DEF TypeInv, TypeOK, Locals, FindingPcs, JobPcs, Pcs, At, Goto, db, disk, bounds
<1>1. CASE Record
  BY <1>1, Recording
<1>2. CASE Conclude
  <2>1. CASE FailClaimed
    BY <2>1, Failing
  <2>2. ASSUME NEW c \in Conclusions,
               run' = [run EXCEPT !.outcome = c[1], !.failure = c[2]],
               pc' = "write", UNCHANGED <<db, disk, bounds>>
        PROVE  TypeInv'
    <3>1. run' \in Run /\ run'.f = run.f /\ run'.job = run.job
      <4>1. c[1] \in Outcomes /\ c[2] \in Failures
        BY <2>2, ConclusionRange
      <4> QED
        BY <2>2, <4>1 DEF Run
    <3> QED
      BY <1>2, <2>2, <3>1 DEF Conclude
  <2> QED
    BY <1>2, <2>1, <2>2 DEF Conclude
<1>3. CASE WriteBlocked
  <2>1. CASE FailClaimed
    BY <2>1, Failing
  <2> QED
    BY <1>3, <2>1, Blocking DEF WriteBlocked
<1>4. CASE WriteDeclined
  BY <1>4, Settles DEF WriteDeclined, DeclineVerdicts, Status
<1>5. CASE WriteShipped
  BY <1>5, Settles DEF WriteShipped, Status
<1>6. CASE WriteOther
  BY <1>6 DEF WriteOther
<1>7. CASE Clean
  <2>1. tree' \in [JobIds -> Tree]
    BY <1>7, Cleaning DEF Clean
  <2>2. CASE EndCycle
    BY <1>7, <2>1, <2>2, Ending DEF Clean, Fault
  <2>3. CASE Goto("close") /\ UNCHANGED bounds
    BY <1>7, <2>1, <2>3 DEF Clean
  <2> QED
    BY <1>7, <2>2, <2>3 DEF Clean
<1>8. CASE Count
  <2>1. run.f \in Findings /\ run.failure \in Failures
    BY <1>8, RunFields DEF Count
  <2>2. streak' \in [Findings -> [n : Nat, why : Failures]]
    BY <1>8, <2>1, Counting DEF Count
  <2> QED
    BY <1>8, <2>2 DEF Count, Fault
<1>9. CASE Hold
  <2>1. CASE FailClaimed
    BY <2>1, Failing
  <2> QED
    BY <1>9, <2>1, Blocking DEF Hold
<1>10. CASE Release
  <2>1. CASE EndCycle
    BY <1>10, <2>1, Ending, Unclaiming DEF Release, Fault
  <2>2. CASE Goto("retire") \/ Goto("close")
    BY <1>10, <2>2, Unclaiming DEF Release, Fault
  <2> QED
    BY <1>10, <2>1, <2>2 DEF Release
<1>11. CASE RetireConcluded
  <2>1. jobs' \in [JobIds -> Job]
    BY <1>11, Retired DEF RetireConcluded, States, Reasons
  <2> QED
    BY <1>11, <2>1 DEF RetireConcluded, Fault
<1>12. CASE Close
  BY <1>12, Ending, Releasing DEF Close
<1> QED
  BY <1>1, <1>2, <1>3, <1>4, <1>5, <1>6, <1>7, <1>8, <1>9, <1>10, <1>11, <1>12
     DEF Settling

LEMMA TypeOperator ==
  ASSUME TypeInv, Operator PROVE TypeInv'
<1>1. ASSUME NEW f \in Findings, NEW from, NEW to \in Status, Answer(f, from, to)
      PROVE  TypeInv'
  BY <1>1 DEF Answer, TypeInv, TypeOK, Locals, disk
<1> QED
  BY <1>1 DEF Operator, Verdict, Unqueue, Given, Status

LEMMA TypeEnvironment ==
  ASSUME TypeInv, Environment PROVE TypeInv'
<1> USE DEF TypeInv, TypeOK, Locals, FindingPcs, JobPcs, Pcs, At, db, disk, bounds
<1>1. CASE Crash
  <2>1. Workers \subseteq JobIds
    BY DEF Workers
  <2> QED
    BY <1>1, <2>1, NoRunIsRun DEF Crash
<1>2. ASSUME NEW j \in JobIds, WorkerExits(j) PROVE TypeInv'
  BY <1>2 DEF WorkerExits
<1>3. ASSUME NEW o \in JobIds, TreeLost(o) PROVE TypeInv'
  BY <1>3 DEF TreeLost, Fault, Tree, NoTree
<1> QED
  BY <1>1, <1>2, <1>3 DEF Environment

LEMMA TypeStep == TypeInv /\ [Next]_vars => TypeInv'
<1> SUFFICES ASSUME TypeInv, [Next]_vars PROVE TypeInv'
  OBVIOUS
<1>1. CASE UNCHANGED vars
  BY <1>1 DEF vars, db, disk, bounds, TypeInv, TypeOK, Locals
<1> QED
  BY <1>1, TypeStartup, TypeBetweenCycles, TypeSelect, TypeOpening, TypeWorker,
     TypeSettling, TypeOperator, TypeEnvironment DEF Next

(* Every behaviour of the fix tier keeps the types of its tables, trees and *)
(* locals, and the locals a step of the scheduler reads are set when it     *)
(* reads them: run_fix never works on a finding or a job it has not got.    *)
THEOREM TypeInvariant == Spec => []TypeInv
<1> QED
  BY TypeInit, TypeStep, PTL DEF Spec

(* The typing the runs check, for every set of findings and every ceiling. *)
THEOREM TypeCorrect == Spec => []TypeOK
<1>1. TypeInv => TypeOK
  BY DEF TypeInv
<1> QED
  BY <1>1, TypeInvariant, PTL

-----------------------------------------------------------------------------
(* Who owns a finding that is `fixing` *)

ClaimInv == NoStrandedClaim /\ ClaimKept

(* The steps at which a finding may be `fixing` with nobody working on it *)
ResetPcs == {"down", "boot_stranded", "boot_trees", "reconcile", "requeue"}

(* The steps of the owner after the outcome *)
EndPcs == {"release", "retire", "close"}

(* Before the reconciliation nothing is asked of the findings. *)
LEMMA ClaimReset ==
  ASSUME pc' \in ResetPcs PROVE ClaimInv'
BY DEF ClaimInv, NoStrandedClaim, ClaimKept, ResetPcs, ClaimedPcs

(* Outside a claim no finding is `fixing`, and a step that makes none so and *)
(* does not enter the claimed part keeps it that way.                        *)
LEMMA ClaimFree ==
  ASSUME ClaimInv, pc \notin ResetPcs, pc \notin ClaimedPcs \cup EndPcs,
         pc' \notin ClaimedPcs,
         \A f \in Findings : status'[f] = "fixing" => status[f] = "fixing"
  PROVE  ClaimInv'
BY DEF ClaimInv, NoStrandedClaim, ClaimKept, ResetPcs, ClaimedPcs, EndPcs

(* A step of the claim's owner that leaves every status alone *)
LEMMA ClaimHeldOn ==
  ASSUME ClaimInv, pc \in ClaimedPcs, pc' \in ClaimedPcs, run'.f = run.f,
         status' = status
  PROVE  ClaimInv'
BY DEF ClaimInv, NoStrandedClaim, ClaimKept, ClaimedPcs

(* The owner gives the claim up, or keeps it for the steps after the outcome. *)
LEMMA ClaimEnds ==
  ASSUME ClaimInv, pc \in ClaimedPcs \cup EndPcs, pc' \notin ClaimedPcs,
         \A f \in Findings \ {run.f} : status'[f] = status[f],
         status'[run.f] # "fixing" \/ (pc' \in EndPcs /\ run'.f = run.f)
  PROVE  ClaimInv'
BY DEF ClaimInv, NoStrandedClaim, ClaimKept, ClaimedPcs, EndPcs

(* What the operator's requests and the environment leave alone. *)
LEMMA ClaimUntouched ==
  ASSUME ClaimInv, UNCHANGED <<pc, run>>,
         \A f \in Findings : status'[f] = "fixing" <=> status[f] = "fixing",
         pc \in ClaimedPcs => run.f \in Findings
  PROVE  ClaimInv'
BY DEF ClaimInv, NoStrandedClaim, ClaimKept, ClaimedPcs

LEMMA Blocked ==
  ASSUME TypeOK, NEW f \in Findings, NEW j, BlockFixJob(f, j)
  PROVE  /\ status'[f] = "blocked"
         /\ \A g \in Findings \ {f} : status'[g] = status[g]
BY DEF BlockFixJob, TypeOK

LEMMA Unclaimed ==
  ASSUME TypeOK, NEW f \in Findings, status' = Unclaim(f)
  PROVE  /\ status'[f] # "fixing"
         /\ \A g \in Findings \ {f} : status'[g] = status[g]
BY DEF Unclaim, TypeOK

LEMMA ClaimInit == Init => ClaimInv
BY DEF Init, ClaimInv, NoStrandedClaim, ClaimKept, ClaimedPcs

LEMMA ClaimBetweenCycles ==
  ASSUME TypeInv, ClaimInv, Startup \/ BetweenCycles PROVE ClaimInv'
<1> USE DEF At, Goto
<1>1. CASE RequeueStuck
  <2>1. \A f \in Findings : status'[f] # "fixing"
    BY <1>1 DEF RequeueStuck, TypeInv, TypeOK
  <2> QED
    BY <1>1, <2>1 DEF RequeueStuck, ClaimInv, NoStrandedClaim, ClaimKept, ClaimedPcs
<1>2. CASE Startup \/ SuspendOrphans
  BY <1>2, ClaimReset
     DEF Startup, Boot, RetireStranded, ReleaseTrees, SuspendOrphans, ResetPcs
<1>3. CASE RetireStranded("stranded", "trees") \/ ReleaseTrees("trees", "pick")
  BY <1>3, ClaimFree DEF RetireStranded, ReleaseTrees, ResetPcs, ClaimedPcs, EndPcs, db
<1> QED
  BY <1>1, <1>2, <1>3 DEF BetweenCycles

LEMMA ClaimSelect ==
  ASSUME TypeInv, ClaimInv, Select PROVE ClaimInv'
<1> USE DEF At, Goto, db, ResetPcs, ClaimedPcs, EndPcs
<1>1. ASSUME NEW f \in Findings, PickFix(f) PROVE ClaimInv'
  BY <1>1, ClaimFree DEF PickFix
<1>2. CASE NothingQueued
  BY <1>2, ClaimReset DEF NothingQueued, EndCycle
<1>3. ASSUME NEW j \in JobIds, WorkdirGone(j) \/ ResumeChain(j) \/ GiveUpChain(j)
      PROVE  ClaimInv'
  BY <1>3, ClaimFree DEF WorkdirGone, ResumeChain, GiveUpChain, Offered
<1>4. CASE StartFresh \/ CountGaveUp
  BY <1>4, ClaimFree DEF StartFresh, CountGaveUp
<1>5. CASE HoldGaveUp
  <2>1. run.f \in Findings /\ TypeOK
    BY <1>5 DEF HoldGaveUp, TypeInv, Locals, FindingPcs
  <2>2. \A f \in Findings : status'[f] = "fixing" => status[f] = "fixing"
    BY <1>5, <2>1, Blocked, Unclaimed DEF HoldGaveUp
  <2> QED
    BY <1>5, <2>2, ClaimFree DEF HoldGaveUp
<1> QED
  BY <1>1, <1>2, <1>3, <1>4, <1>5 DEF Select

LEMMA ClaimOpening ==
  ASSUME TypeInv, ClaimInv, Opening PROVE ClaimInv'
<1> USE DEF At, Goto, db, ResetPcs, ClaimedPcs, EndPcs
<1>1. CASE StartGranted
  BY <1>1, ClaimFree DEF StartGranted
<1>2. CASE StartDenied
  BY <1>2, ClaimReset DEF StartDenied, EndCycle
<1>3. CASE Claim
  <2>1. CASE status[run.f] = "queued"
    <3>1. run.f \in Findings /\ status \in [Findings -> Status]
      BY <1>3 DEF Claim, TypeInv, TypeOK, Locals, FindingPcs
    <3>2. \A f \in Findings : status[f] # "fixing"
      BY <1>3 DEF Claim, ClaimInv, NoStrandedClaim
    <3>3. status'[run.f] = "fixing" /\ \A f \in Findings \ {run.f} : status'[f] = status[f]
      BY <1>3, <2>1, <3>1 DEF Claim
    <3> QED
      BY <1>3, <2>1, <3>1, <3>2, <3>3
         DEF Claim, ClaimInv, NoStrandedClaim, ClaimKept
  <2>2. CASE status[run.f] # "queued"
    BY <1>3, <2>2, ClaimReset DEF Claim, EndCycle
  <2> QED
    BY <2>1, <2>2
<1>4. CASE Prepare
  <2>1. CASE EndCycle
    BY <2>1, ClaimReset DEF EndCycle
  <2>2. CASE ~EndCycle
    <3>1. run'.f = run.f
      BY <1>4, <2>2 DEF Prepare, FailClaimed, TypeInv, TypeOK, Run
    <3> QED
      BY <1>4, <2>2, <3>1, ClaimHeldOn DEF Prepare, FailClaimed
  <2> QED
    BY <2>1, <2>2
<1>5. CASE Create
  <2>1. CASE FailClaimed
    BY <2>1, ClaimReset DEF FailClaimed, EndCycle
  <2>2. CASE ~FailClaimed
    <3>1. run'.f = run.f
      BY <1>5, <2>2 DEF Create, TypeInv, TypeOK, Run
    <3> QED
      BY <1>5, <2>2, <3>1, ClaimHeldOn DEF Create
  <2> QED
    BY <2>1, <2>2
<1>6. CASE OpenResumed
  BY <1>6, ClaimHeldOn DEF OpenResumed
<1>7. CASE OpenFresh
  <2>1. CASE EndCycle
    BY <2>1, ClaimReset DEF EndCycle
  <2> QED
    BY <1>7, <2>1, ClaimHeldOn DEF OpenFresh
<1>8. CASE TreeNotMade
  <2>1. run'.f = run.f
    BY <1>8 DEF TreeNotMade, TypeInv, TypeOK, Run
  <2> QED
    BY <1>8, <2>1, ClaimHeldOn DEF TreeNotMade
<1> QED
  BY <1>1, <1>2, <1>3, <1>4, <1>5, <1>6, <1>7, <1>8 DEF Opening

LEMMA ClaimWorker ==
  ASSUME TypeInv, ClaimInv, Worker PROVE ClaimInv'
<1> USE DEF At, Goto, db, ResetPcs, ClaimedPcs, EndPcs
<1>1. ASSUME NEW j \in JobIds, WorkerSpends(j) \/ WorkerWrites(j) PROVE ClaimInv'
  <2>1. pc \in ClaimedPcs => run.f \in Findings
    BY DEF TypeInv, Locals, FindingPcs
  <2> QED
    BY <1>1, <2>1, ClaimUntouched DEF WorkerSpends, WorkerWrites
<1>2. ASSUME NEW end \in AllEnds, WorkerReturns(end) PROVE ClaimInv'
  <2>1. run'.f = run.f
    BY <1>2 DEF WorkerReturns, TypeInv, TypeOK, Run
  <2> QED
    BY <1>2, <2>1, ClaimHeldOn DEF WorkerReturns
<1>3. CASE WorkerNotRun
  BY <1>3, ClaimReset DEF WorkerNotRun, FailClaimed, EndCycle
<1> QED
  BY <1>1, <1>2, <1>3 DEF Worker

LEMMA ClaimSettling ==
  ASSUME TypeInv, ClaimInv, Settling PROVE ClaimInv'
<1> USE DEF At, Goto, db, ResetPcs, ClaimedPcs, EndPcs
<1>1. TypeOK /\ run \in Run /\ status \in [Findings -> Status]
  BY DEF TypeInv, TypeOK
<1>2. pc \in FindingPcs => run.f \in Findings
  BY DEF TypeInv, Locals
<1> USE DEF FindingPcs
<1>3. CASE EndCycle
  BY <1>3, ClaimReset DEF EndCycle
<1>4. CASE Record
  <2>1. run'.f = run.f
    BY <1>1, <1>4 DEF Record, Run
  <2> QED
    BY <1>4, <2>1, ClaimHeldOn DEF Record
<1>5. CASE Conclude /\ ~EndCycle
  <2>1. run'.f = run.f
    BY <1>1, <1>5 DEF Conclude, FailClaimed, Run
  <2> QED
    BY <1>5, <2>1, ClaimHeldOn DEF Conclude, FailClaimed
<1>6. CASE WriteBlocked /\ ~EndCycle
  BY <1>1, <1>2, <1>6, Blocked, ClaimEnds DEF WriteBlocked, FailClaimed
<1>7. CASE WriteDeclined \/ WriteShipped
  <2>1. PICK v \in Status : Settle(v) /\ pc = "write"
    BY <1>7 DEF WriteDeclined, WriteShipped, DeclineVerdicts, Status
  <2>2. \A f \in Findings \ {run.f} : status'[f] = status[f]
    BY <1>1, <2>1 DEF Settle
  <2> QED
    BY <2>1, <2>2, ClaimEnds DEF Settle
<1>8. CASE WriteOther /\ run.outcome = "failed"
  BY <1>8, ClaimHeldOn DEF WriteOther
<1>9. CASE WriteOther /\ run.outcome # "failed"
  BY <1>9, ClaimEnds DEF WriteOther
<1>10. CASE Clean /\ ~EndCycle
  BY <1>10, ClaimFree DEF Clean
<1>11. CASE Count
  <2>1. CASE pc' = "hold"
    BY <1>11, <2>1, ClaimHeldOn DEF Count
  <2>2. CASE pc' = "release"
    BY <1>11, <2>2, ClaimEnds DEF Count
  <2> QED
    BY <1>11, <2>1, <2>2 DEF Count
<1>12. CASE Hold /\ ~EndCycle
  BY <1>1, <1>2, <1>12, Blocked, ClaimEnds DEF Hold, FailClaimed
<1>13. CASE Release /\ ~EndCycle
  BY <1>1, <1>2, <1>13, Unclaimed, ClaimEnds DEF Release
<1>14. CASE RetireConcluded
  BY <1>14, ClaimEnds DEF RetireConcluded
<1> QED
  BY <1>3, <1>4, <1>5, <1>6, <1>7, <1>8, <1>9, <1>10, <1>11, <1>12, <1>13, <1>14
     DEF Settling, Close

LEMMA ClaimOthers ==
  ASSUME TypeInv, ClaimInv, Operator \/ Environment PROVE ClaimInv'
<1>1. pc \in ClaimedPcs => run.f \in Findings
  BY DEF TypeInv, Locals, FindingPcs, ClaimedPcs
<1>2. ASSUME NEW f \in Findings, NEW from \in Awaiting \cup {"queued"},
             NEW to \in Given \cup {"new"}, Answer(f, from, to)
      PROVE  ClaimInv'
  <2>1. \A g \in Findings : status'[g] = "fixing" <=> status[g] = "fixing"
    BY <1>2 DEF Answer, Awaiting, Given, TypeInv, TypeOK
  <2> QED
    BY <1>1, <1>2, <2>1, ClaimUntouched DEF Answer
<1>3. CASE Operator
  BY <1>2, <1>3 DEF Operator, Verdict, Unqueue
<1>4. CASE Crash
  BY <1>4, ClaimReset DEF Crash, ResetPcs
<1>5. ASSUME NEW j \in JobIds, WorkerExits(j) \/ TreeLost(j) PROVE ClaimInv'
  BY <1>1, <1>5, ClaimUntouched DEF WorkerExits, TreeLost, db
<1> QED
  BY <1>3, <1>4, <1>5 DEF Environment

LEMMA ClaimStep == TypeInv /\ ClaimInv /\ [Next]_vars => ClaimInv'
<1> SUFFICES ASSUME TypeInv, ClaimInv, [Next]_vars PROVE ClaimInv'
  OBVIOUS
<1>1. CASE UNCHANGED vars
  BY <1>1 DEF vars, db, ClaimInv, NoStrandedClaim, ClaimKept
<1> QED
  BY <1>1, ClaimBetweenCycles, ClaimSelect, ClaimOpening, ClaimWorker, ClaimSettling,
     ClaimOthers DEF Next

(* Both halves of the claim's story at once: a `fixing` finding has its owner, *)
(* and the owner between start_fix's claim and record_fix_outcome's write has  *)
(* a `fixing` finding.                                                         *)
THEOREM ClaimInvariant == Spec => []ClaimInv
<1> QED
  BY TypeInvariant, ClaimInit, ClaimStep, PTL DEF Spec

(* A finding is `fixing` only while the scheduler works on it, or until the  *)
(* reconciliation after the death or abandoned cycle that left it so, for    *)
(* every number of findings, ceilings, crashes and faults: claim_in_progress *)
(* is always undone by release_claim, an outcome, or                         *)
(* reconcile_orphaned_jobs.                                                  *)
THEOREM NoClaimIsStranded == Spec => []NoStrandedClaim
<1>1. ClaimInv => NoStrandedClaim
  BY DEF ClaimInv
<1> QED
  BY <1>1, ClaimInvariant, PTL

(* From the claim to the write of the outcome the fix owns its finding: no  *)
(* verdict, unqueue or pass takes it away, which is why record_fix_outcome  *)
(* and block_fix_job may write the status without comparing it.             *)
THEOREM ClaimsAreKept == Spec => []ClaimKept
<1>1. ClaimInv => ClaimKept
  BY DEF ClaimInv
<1> QED
  BY <1>1, ClaimInvariant, PTL

-----------------------------------------------------------------------------
(* Only the operator brings a finding back *)

VerdictKeptStep ==
  \A f \in Findings :
    /\ status[f] \notin {"queued", "fixing"} /\ status'[f] # status[f]
    => verdicts' > verdicts \/ pc = "gaveup_hold"

(* The scheduler writes the status of the finding it has claimed and, when *)
(* it gives a chain up, of the one it picked; nothing else.                *)
LEMMA OnlyTheClaimed ==
  ASSUME TypeInv, ClaimInv, Opening \/ Worker \/ Settling,
         NEW f \in Findings, status'[f] # status[f]
  PROVE  status[f] \in {"queued", "fixing"}
<1>1. TypeOK /\ status \in [Findings -> Status]
  BY DEF TypeInv, TypeOK
<1>2. pc \in FindingPcs => run.f \in Findings
  BY DEF TypeInv, Locals
<1>3. pc \in ClaimedPcs => status[run.f] = "fixing"
  BY DEF ClaimInv, ClaimKept
<1>4. \A g \in Findings \ {run.f} : pc = "release" => status[g] # "fixing"
  BY DEF ClaimInv, NoStrandedClaim, ClaimedPcs
<1> USE DEF At, Goto, FindingPcs, ClaimedPcs, db
<1>5. CASE status' = Unclaim(run.f)
  BY <1>1, <1>5 DEF Unclaim
<1>6. ASSUME NEW j, BlockFixJob(run.f, j), pc \in ClaimedPcs
      PROVE  status[f] \in {"queued", "fixing"}
  BY <1>1, <1>2, <1>3, <1>6, Blocked
<1>7. CASE Claim
  BY <1>1, <1>7 DEF Claim
<1>8. ASSUME NEW v, Settle(v), pc = "write"
      PROVE  status[f] \in {"queued", "fixing"}
  BY <1>1, <1>2, <1>3, <1>8 DEF Settle
<1>9. CASE Opening /\ ~Claim
  <2>1. CASE StartGranted \/ StartDenied \/ Create \/ OpenResumed \/ OpenFresh \/ TreeNotMade
    BY <1>5, <2>1 DEF StartGranted, StartDenied, Create, OpenResumed, OpenFresh,
                      TreeNotMade, FailClaimed
  <2>2. CASE Prepare
    BY <1>5, <1>6, <2>2 DEF Prepare, FailClaimed
  <2> QED
    BY <1>9, <2>1, <2>2 DEF Opening
<1>10. CASE Worker
  <2>1. CASE WorkerNotRun
    BY <1>5, <1>6, <2>1 DEF WorkerNotRun, FailClaimed
  <2> QED
    BY <1>10, <2>1 DEF Worker, WorkerSpends, WorkerWrites, WorkerReturns
<1>11. CASE Settling
  <2>1. CASE WriteBlocked \/ Hold
    BY <1>5, <1>6, <2>1 DEF WriteBlocked, Hold, FailClaimed
  <2>2. CASE WriteDeclined \/ WriteShipped
    BY <1>8, <2>2 DEF WriteDeclined, WriteShipped
  <2>3. CASE Record \/ Conclude \/ WriteOther \/ Clean \/ Count \/ Release
               \/ RetireConcluded \/ Close
    BY <1>5, <2>3 DEF Record, Conclude, WriteOther, Clean, Count, Release,
                      RetireConcluded, Close, FailClaimed
  <2> QED
    BY <1>11, <2>1, <2>2, <2>3 DEF Settling
<1> QED
  BY <1>7, <1>9, <1>10, <1>11

LEMMA VerdictStep ==
  ASSUME TypeInv, ClaimInv, [Next]_vars PROVE VerdictKeptStep
<1> USE DEF VerdictKeptStep, At, db
<1>1. CASE Startup \/ BetweenCycles
  BY <1>1 DEF Startup, BetweenCycles, Boot, RetireStranded, ReleaseTrees,
              SuspendOrphans, RequeueStuck, TypeInv, TypeOK
<1>2. CASE Select
  BY <1>2 DEF Select, PickFix, NothingQueued, WorkdirGone, ResumeChain, GiveUpChain,
              StartFresh, CountGaveUp, HoldGaveUp
<1>3. CASE Opening \/ Worker \/ Settling
  BY <1>3, OnlyTheClaimed
<1>4. CASE Operator
  BY <1>4 DEF Operator, Verdict, Unqueue, Answer, TypeInv, TypeOK
<1>5. CASE Environment
  BY <1>5 DEF Environment, Crash, WorkerExits, TreeLost
<1>6. CASE UNCHANGED vars
  BY <1>6 DEF vars
<1> QED
  BY <1>1, <1>2, <1>3, <1>4, <1>5, <1>6 DEF Next

(* Once a finding has left the fix tier, by the operator's verdict or by an   *)
(* outcome, no step of the scheduler, no pass and no restart moves it again;  *)
(* the hold of a given-up chain is the one write that is not compared first.  *)
THEOREM VerdictsAreKept == Spec => OperatorVerdictKept
<1>1. TypeInv /\ ClaimInv /\ [Next]_vars => [VerdictKeptStep]_vars
  BY VerdictStep
<1>2. OperatorVerdictKept <=> [][VerdictKeptStep]_vars
  BY PTL DEF OperatorVerdictKept, VerdictKeptStep
<1> QED
  BY <1>1, <1>2, TypeInvariant, ClaimInvariant, PTL DEF Spec

=============================================================================
