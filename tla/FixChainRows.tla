---------------------------- MODULE FixChainRows ----------------------------
(***************************************************************************)
(* Theorems about the job rows, checkpoints and trees of FixChain, for     *)
(* every set of findings and every value of the ceilings and bounds.       *)
(*                                                                         *)
(* RowsInv says how rows are linked, which of them can be running and what *)
(* the scheduler's locals mean at every step; it is inductive given the    *)
(* types.  Nearly every step is Calm: it brings no row back to life.  What *)
(* is left is the creation of a row and the hold (block_fix_job).          *)
(***************************************************************************)
EXTENDS FixChainProofs

(* The steps with a job of their own, from its row on *)
OwnJobPcs == {"open", "work", "record", "conclude", "write", "clean", "count",
              "hold", "release", "retire", "close"}

(* The steps between the choice of a chain and the row that goes on with it *)
ResumePcs == {"start", "claim", "prepare", "create"}

(* A row links to an earlier one of the same finding and the same chain. *)
Linked(j) ==
  /\ jobs[j].state \in States /\ jobs[j].finding \in Findings
  /\ jobs[j].from \in 0..(j-1) /\ jobs[j].origin \in 1..j
  /\ jobs[j].from = 0 => jobs[j].origin = j
  /\ jobs[j].from # 0 =>
       /\ jobs[jobs[j].from].finding = jobs[j].finding
       /\ jobs[jobs[j].from].origin = jobs[j].origin
  /\ jobs[jobs[j].origin].finding = jobs[j].finding

Unused(j) ==
  /\ jobs[j].state = "absent" /\ jobs[j].finding = NoFinding
  /\ jobs[j].from = 0 /\ jobs[j].origin = 0

LinksInv == \A j \in JobIds : IF j <= nJobs THEN Linked(j) ELSE Unused(j)

(* A row is running for the job under way, or until the reconciliation. *)
RunningInv ==
  /\ \A j \in JobIds : jobs[j].state = "running" =>
       pc \in ResetPcs \/ (pc \in OwnJobPcs /\ j = run.job)
  /\ \A j, k \in JobIds :
       jobs[j].state = "running" /\ jobs[k].state = "running" => j = k
  /\ pc \in {"open", "work", "record"} => jobs[run.job].state = "running"

(* Nothing else of its finding is alive beside the job under way, or beside *)
(* the one just given up, and nothing continues it.                         *)
OwnInv ==
  pc \in JobPcs =>
    /\ run.job <= nJobs /\ jobs[run.job].finding = run.f
    /\ ~HasSuccessor(run.job)
    /\ \A j \in JobIds : Live(j) /\ jobs[j].finding = run.f => j = run.job
    /\ pc \in OwnJobPcs => jobs[run.job].from = run.from

(* What a resume was chosen to continue still waits when its row is made. *)
ResumeInv ==
  /\ pc \in {"plan", "gaveup", "gaveup_hold"} => run.from = 0
  /\ pc \in ResumePcs /\ run.from # 0 =>
       Paused(run.from) /\ jobs[run.from].finding = run.f

RowsInv == LinksInv /\ RunningInv /\ OwnInv /\ ResumeInv /\ OneLiveAttempt

(* Nothing of the job's chain is running or can be resumed. *)
Over(k) == k <= nJobs /\ ~ChainLive(jobs[k].origin)

(* A worker that outlived its daemon keeps its chain from being resumed. *)
SurvivorInv ==
  /\ \A k \in survivors : Over(k) \/ (jobs[k].state = "running" /\ pc \in ResetPcs)
  /\ pc \in JobPcs => ~TreeInUse(jobs[run.job].origin)

(* What the step before the release settled is not a hold. *)
NotHeld ==
  /\ pc \in {"count", "hold"} => run.outcome \notin {"declined", "shipped"}
  /\ pc = "retire" \/ (pc = "release" /\ run.outcome \in {"declined", "shipped"}) =>
       status[run.f] # "blocked"

-----------------------------------------------------------------------------
(* Steps that bring no row back to life *)

(* A row keeps its links, and its state or ends; only a running one may be  *)
(* suspended.                                                               *)
CalmRow(j) ==
  /\ jobs'[j].finding = jobs[j].finding
  /\ jobs'[j].from = jobs[j].from /\ jobs'[j].origin = jobs[j].origin
  /\ \/ jobs'[j].state = jobs[j].state
     \/ /\ jobs[j].state # "absent" /\ jobs'[j].state \in States \ {"running"}
        /\ jobs'[j].state = "suspended" => jobs[j].state = "running"

Calm == nJobs' = nJobs /\ \A j \in JobIds : CalmRow(j)

LEMMA CalmLive ==
  ASSUME Calm
  PROVE  \A j \in JobIds :
           /\ HasSuccessor(j)' <=> HasSuccessor(j)
           /\ Live(j)' => Live(j)
           /\ Paused(j) /\ jobs'[j].state = jobs[j].state => Paused(j)'
<1>1. ASSUME NEW j \in JobIds PROVE HasSuccessor(j)' <=> HasSuccessor(j)
  BY DEF Calm, CalmRow, HasSuccessor
<1> QED
  BY <1>1 DEF Calm, CalmRow, Live, Paused

LEMMA CalmLinks ==
  ASSUME TypeOK, LinksInv, Calm PROVE LinksInv'
<1> SUFFICES ASSUME NEW j \in JobIds
             PROVE  IF j <= nJobs THEN Linked(j)' ELSE Unused(j)'
  BY DEF LinksInv, Calm
<1>1. CalmRow(j)
  BY DEF Calm
<1>2. CASE j <= nJobs
  <2>1. Linked(j)
    BY <1>2 DEF LinksInv
  <2>2. jobs[j].origin \in JobIds /\ (jobs[j].from # 0 => jobs[j].from \in JobIds)
    BY <2>1, FixChainAssumption DEF Linked, JobIds
  <2>3. CalmRow(jobs[j].origin) /\ (jobs[j].from # 0 => CalmRow(jobs[j].from))
    BY <2>2 DEF Calm
  <2> QED
    BY <1>1, <1>2, <2>1, <2>3 DEF Linked, CalmRow, States
<1>3. CASE ~(j <= nJobs)
  BY <1>1, <1>3 DEF LinksInv, Unused, CalmRow
<1> QED
  BY <1>2, <1>3

LEMMA CalmOneLive ==
  ASSUME OneLiveAttempt, Calm PROVE OneLiveAttempt'
<1> SUFFICES ASSUME NEW j \in JobIds, NEW k \in JobIds, Live(j)', Live(k)',
                    jobs'[j].finding = jobs'[k].finding
             PROVE  j = k
  BY DEF OneLiveAttempt
<1>1. Live(j) /\ Live(k)
  BY CalmLive
<1>2. jobs[j].finding = jobs[k].finding
  BY DEF Calm, CalmRow
<1> QED
  BY <1>1, <1>2 DEF OneLiveAttempt

LEMMA CalmRunning ==
  ASSUME Calm, NEW j \in JobIds, jobs'[j].state = "running"
  PROVE  jobs[j].state = "running"
BY DEF Calm, CalmRow

(* Nothing was running, nothing is. *)
LEMMA NoneRunning ==
  ASSUME RunningInv, pc \notin ResetPcs, pc \notin OwnJobPcs
  PROVE  \A j \in JobIds : jobs[j].state # "running"
BY DEF RunningInv

(* The cycle ends, or the daemon dies. *)
LEMMA RowsReset ==
  ASSUME TypeOK, RowsInv, Calm, pc' \in ResetPcs PROVE RowsInv'
<1>1. LinksInv' /\ OneLiveAttempt'
  BY CalmLinks, CalmOneLive DEF RowsInv
<1>2. RunningInv'
  BY CalmRunning DEF RowsInv, RunningInv, ResetPcs
<1>3. OwnInv' /\ ResumeInv'
  BY DEF OwnInv, ResumeInv, JobPcs, ResumePcs, ResetPcs
<1> QED
  BY <1>1, <1>2, <1>3 DEF RowsInv

(* A job under way goes on. *)
LEMMA RowsOwn ==
  ASSUME TypeInv, RowsInv, Calm, pc \in OwnJobPcs, pc' \in OwnJobPcs,
         run'.f = run.f, run'.job = run.job, run'.from = run.from,
         pc' \in {"open", "work", "record"} => jobs'[run.job].state = "running"
  PROVE  RowsInv'
<1>1. LinksInv' /\ OneLiveAttempt'
  BY CalmLinks, CalmOneLive DEF RowsInv, TypeInv
<1>2. RunningInv'
  BY CalmRunning DEF RowsInv, RunningInv, ResetPcs, OwnJobPcs
<1>3. run.job \in JobIds
  BY DEF TypeInv, Locals, JobPcs, OwnJobPcs
<1>4. OwnInv'
  BY <1>3, CalmLive DEF RowsInv, OwnInv, JobPcs, OwnJobPcs, Calm, CalmRow
<1>5. ResumeInv'
  BY DEF ResumeInv, ResumePcs, OwnJobPcs
<1> QED
  BY <1>1, <1>2, <1>4, <1>5 DEF RowsInv

(* The scheduler looks for work: nothing runs. *)
LEMMA RowsIdle ==
  ASSUME TypeOK, RowsInv, Calm, pc' \notin JobPcs, pc' \notin ResetPcs,
         \A j \in JobIds : jobs'[j].state # "running",
         ResumeInv'
  PROVE  RowsInv'
<1>1. LinksInv' /\ OneLiveAttempt'
  BY CalmLinks, CalmOneLive DEF RowsInv
<1>2. RunningInv'
  BY DEF RunningInv, JobPcs
<1>3. OwnInv'
  BY DEF OwnInv
<1> QED
  BY <1>1, <1>2, <1>3 DEF RowsInv

LEMMA RowsUntouched ==
  ASSUME RowsInv, UNCHANGED <<jobs, nJobs, pc, run>> PROVE RowsInv'
BY DEF RowsInv, LinksInv, Linked, Unused, RunningInv, OwnInv, ResumeInv, OneLiveAttempt,
       Live, Paused, HasSuccessor

-----------------------------------------------------------------------------
(* Which steps are calm *)

LEMMA SameRows ==
  ASSUME UNCHANGED <<jobs, nJobs>> PROVE Calm
BY DEF Calm, CalmRow

LEMMA RetiredRow ==
  ASSUME TypeOK, NEW j \in JobIds, jobs[j].state # "absent",
         NEW s \in {"killed", "failed"}, NEW w,
         jobs' = Retire(jobs, j, s, w), nJobs' = nJobs
  PROVE  /\ Calm /\ jobs'[j].state = s
         /\ \A k \in JobIds \ {j} : jobs'[k] = jobs[k]
<1>1. jobs[j] \in Job /\ jobs \in [JobIds -> Job]
  BY DEF TypeOK
<1>2. \A k \in JobIds \ {j} : jobs'[k] = jobs[k]
  BY <1>1 DEF Retire
<1>3. CalmRow(j) /\ jobs'[j].state = s
  BY <1>1 DEF Retire, CalmRow, Job, States
<1> QED
  BY <1>2, <1>3 DEF Calm, CalmRow

LEMMA StrandedRows ==
  ASSUME TypeOK, NEW here, NEW next, RetireStranded(here, next)
  PROVE  Calm
<1>1. ASSUME NEW j \in JobIds PROVE CalmRow(j)
  BY <1>1 DEF RetireStranded, TypeOK, Stranded, Paused, Killed, CalmRow, Job, States
<1> QED
  BY <1>1 DEF Calm, RetireStranded

LEMMA OrphanRows ==
  ASSUME TypeOK, SuspendOrphans PROVE Calm
<1>1. ASSUME NEW j \in JobIds PROVE CalmRow(j)
  BY <1>1 DEF SuspendOrphans, TypeOK, Salvageable, CalmRow, Job, States
<1> QED
  BY <1>1 DEF Calm, SuspendOrphans

LEMMA StuckRows ==
  ASSUME TypeOK, RequeueStuck
  PROVE  Calm /\ \A j \in JobIds : jobs'[j].state # "running"
<1>1. ASSUME NEW j \in JobIds PROVE CalmRow(j) /\ jobs'[j].state # "running"
  BY <1>1 DEF RequeueStuck, TypeOK, Killed, CalmRow, Job, States
<1> QED
  BY <1>1 DEF Calm, RequeueStuck

LEMMA UnmadeRows ==
  ASSUME TypeOK, TreeNotMade, run.job \in JobIds, jobs[run.job].state # "absent"
  PROVE  Calm /\ \A k \in JobIds \ {run.job} : jobs'[k] = jobs[k]
<1>1. jobs[run.job] \in Job /\ jobs \in [JobIds -> Job]
  BY DEF TypeOK
<1> QED
  BY <1>1 DEF TreeNotMade, Calm, CalmRow, Job, States

(* What the record of an ended run does to the rows *)
LEMMA RecordRows ==
  ASSUME TypeInv, RowsInv, Record
  PROVE  /\ Calm
         /\ \A k \in JobIds : jobs'[k] # jobs[k] => jobs[k].finding = run.f
         /\ \A k \in JobIds \ {run.job} :
              jobs'[k].state # jobs[k].state => HasSuccessor(k)
         /\ jobs' = jobs \/ jobs'[run.job].state # "running"
<1> DEFINE j     == run.job
           state == JobState(run.end, j \in ledger)
<1>1. j \in JobIds /\ jobs \in [JobIds -> Job] /\ run.from \in 0..MaxJobs
  BY RunFields DEF TypeInv, TypeOK, Locals, JobPcs, Record, At
<1>2. jobs[j].state = "running" /\ jobs[j].finding = run.f /\ jobs[j].from = run.from
      /\ j <= nJobs /\ Linked(j)
  BY <1>1 DEF RowsInv, RunningInv, OwnInv, LinksInv, Record, At, JobPcs, OwnJobPcs
<1>3. state \in States \ {"running"}
  BY DEF JobState, States
<1>4. CASE jobs' = jobs
  BY <1>4, SameRows DEF Record
<1>5. CASE jobs' # jobs
  <2> DEFINE row == [jobs EXCEPT
                 ![j].state = state, ![j].tokens = j \in ledger,
                 ![j].session = run.end # "unavailable" /\ Transcript(j),
                 ![j].reason = CASE run.end = "cap" -> "cap"
                                 [] run.end \in {"done", "exited"} -> "none"
                                 [] OTHER -> "other"]
  <2>1. jobs' = row \/ (run.end = "unavailable"
                          /\ jobs' = [row EXCEPT ![run.from].state = "killed"])
    BY <1>5 DEF Record
  <2>2. nJobs' = nJobs
    BY DEF Record
  <2>3. /\ \A k \in JobIds \ {j} : row[k] = jobs[k]
        /\ row[j].finding = jobs[j].finding /\ row[j].from = jobs[j].from
        /\ row[j].origin = jobs[j].origin /\ row[j].state = state
        /\ DOMAIN row = JobIds
    <3> HIDE DEF state
    <3> QED
      BY <1>1 DEF Job
  <2>4. CASE \A k \in JobIds : jobs'[k] = row[k]
    <3> HIDE DEF row, state
    <3> QED
      BY <1>1, <1>2, <1>3, <2>2, <2>3, <2>4 DEF Calm, CalmRow
  <2>5. CASE run.end = "unavailable" /\ jobs' = [row EXCEPT ![run.from].state = "killed"]
    <3>1. CASE run.from = 0
      <4>1. \A k \in JobIds : jobs'[k] = row[k]
        <5> HIDE DEF row
        <5> QED
          BY <1>1, <2>3, <2>5, <3>1, FixChainAssumption DEF JobIds
      <4> QED
        BY <2>4, <4>1
    <3>2. CASE run.from # 0
      <4> DEFINE i == run.from
      <4>1. i \in JobIds /\ i # j /\ i <= nJobs /\ jobs[i] \in Job
        BY <1>1, <1>2, <3>2, FixChainAssumption DEF Linked, JobIds, TypeInv, TypeOK
      <4>2. jobs[i].state \in States /\ jobs[i].finding = run.f
        BY <1>2, <3>2, <4>1 DEF RowsInv, LinksInv, Linked
      <4>3. HasSuccessor(i)
        BY <1>1, <1>2 DEF HasSuccessor
      <4> HIDE DEF row, state
      <4>4. /\ \A k \in JobIds \ {i} : jobs'[k] = row[k]
            /\ jobs'[i].finding = jobs[i].finding /\ jobs'[i].from = jobs[i].from
            /\ jobs'[i].origin = jobs[i].origin /\ jobs'[i].state = "killed"
        BY <2>3, <2>5, <4>1 DEF Job
      <4> HIDE DEF i
      <4> QED
        BY <1>1, <1>2, <1>3, <2>2, <2>3, <4>1, <4>2, <4>3, <4>4 DEF Calm, CalmRow, States
    <3> QED
      BY <3>1, <3>2
  <2> QED
    BY <2>1, <2>4, <2>5
<1> QED
  BY <1>4, <1>5

-----------------------------------------------------------------------------
(* The hold: block_fix_job makes an attempt resumable that nothing else of *)
(* its finding competes with.                                              *)

Alone(f, j) ==
  /\ j <= nJobs /\ jobs[j].finding = f /\ ~HasSuccessor(j)
  /\ \A k \in JobIds : Live(k) /\ jobs[k].finding = f => k = j

LEMMA HeldRows ==
  ASSUME TypeOK, NEW f \in Findings, NEW j \in JobIds, BlockFixJob(f, j)
  PROVE  /\ nJobs' = nJobs
         /\ jobs'[j].state = "suspended" /\ jobs'[j].blocker
         /\ \A k \in JobIds :
              /\ jobs'[k].finding = jobs[k].finding
              /\ jobs'[k].from = jobs[k].from /\ jobs'[k].origin = jobs[k].origin
              /\ k # j => jobs'[k] = jobs[k]
              /\ HasSuccessor(k)' <=> HasSuccessor(k)
<1>1. jobs \in [JobIds -> Job] /\ jobs[j] \in Job
  BY DEF TypeOK
<1>2. /\ jobs'[j].state = "suspended" /\ jobs'[j].blocker
      /\ jobs'[j].finding = jobs[j].finding
      /\ jobs'[j].from = jobs[j].from /\ jobs'[j].origin = jobs[j].origin
  BY <1>1 DEF BlockFixJob, Job
<1>3. \A k \in JobIds \ {j} : jobs'[k] = jobs[k]
  BY <1>1 DEF BlockFixJob
<1>4. \A k \in JobIds : jobs'[k].from = jobs[k].from
  BY <1>2, <1>3
<1>5. ASSUME NEW k \in JobIds PROVE HasSuccessor(k)' <=> HasSuccessor(k)
  BY <1>4 DEF HasSuccessor
<1> QED
  BY <1>2, <1>3, <1>5 DEF BlockFixJob

LEMMA HoldLive ==
  ASSUME TypeOK, RowsInv, NEW f \in Findings, NEW j \in JobIds, Alone(f, j),
         BlockFixJob(f, j)
  PROVE  /\ LinksInv' /\ OneLiveAttempt' /\ Paused(j)'
         /\ \A k \in JobIds : Live(k)' /\ jobs'[k].finding = f => k = j
         /\ \A k \in JobIds :
              jobs'[k].state = "running" => jobs[k].state = "running" /\ k # j
<1>1. Paused(j)'
  BY HeldRows DEF Paused, Alone
<1>2. \A k \in JobIds \ {j} : Live(k)' => Live(k)
  BY HeldRows DEF Live, Paused
<1>3. \A k \in JobIds : Live(k)' /\ jobs'[k].finding = f => k = j
  BY <1>2, HeldRows DEF Alone
<1>4. OneLiveAttempt'
  <2> SUFFICES ASSUME NEW i \in JobIds, NEW k \in JobIds, Live(i)', Live(k)',
                      jobs'[i].finding = jobs'[k].finding
               PROVE  i = k
    BY DEF OneLiveAttempt
  <2>1. jobs[i].finding = jobs[k].finding
    BY HeldRows
  <2>2. CASE i = j \/ k = j
    BY <1>3, <2>2, HeldRows DEF Alone
  <2>3. CASE i # j /\ k # j
    BY <1>2, <2>1, <2>3 DEF RowsInv, OneLiveAttempt
  <2> QED
    BY <2>2, <2>3
<1>5. LinksInv'
  <2> SUFFICES ASSUME NEW k \in JobIds
               PROVE  IF k <= nJobs THEN Linked(k)' ELSE Unused(k)'
    BY HeldRows DEF LinksInv
  <2>1. CASE k <= nJobs
    <3>1. Linked(k)
      BY <2>1 DEF RowsInv, LinksInv
    <3>2. jobs[k].origin \in JobIds /\ (jobs[k].from # 0 => jobs[k].from \in JobIds)
      BY <3>1, FixChainAssumption DEF Linked, JobIds
    <3>3. jobs'[k].state \in States
      BY <3>1, HeldRows DEF Linked, States
    <3> QED
      BY <2>1, <3>1, <3>2, <3>3, HeldRows DEF Linked
  <2>2. CASE ~(k <= nJobs)
    BY <2>2, HeldRows DEF RowsInv, LinksInv, Unused, Alone
  <2> QED
    BY <2>1, <2>2
<1>6. \A k \in JobIds : jobs'[k].state = "running" => jobs[k].state = "running" /\ k # j
  BY HeldRows
<1> QED
  BY <1>1, <1>3, <1>4, <1>5, <1>6

(* A hold that ends the cycle, or sends the scheduler to look for work *)
LEMMA HoldRowsEnd ==
  ASSUME TypeInv, RowsInv, NEW j \in JobIds, run.f \in Findings, Alone(run.f, j),
         BlockFixJob(run.f, j),
         \/ pc' \in ResetPcs
         \/ /\ pc' = "pick" /\ \A k \in JobIds : jobs[k].state # "running"
  PROVE  RowsInv'
<1>1. LinksInv' /\ OneLiveAttempt'
  BY HoldLive DEF TypeInv
<1>2. \A k \in JobIds : jobs'[k].state = "running" => jobs[k].state = "running"
  BY HoldLive DEF TypeInv
<1>3. RunningInv'
  BY <1>2 DEF RowsInv, RunningInv, ResetPcs
<1>4. OwnInv' /\ ResumeInv'
  BY DEF OwnInv, ResumeInv, JobPcs, ResumePcs, ResetPcs
<1> QED
  BY <1>1, <1>3, <1>4 DEF RowsInv

(* A hold after which the job under way has still to be closed *)
LEMMA HoldRowsOn ==
  ASSUME TypeInv, RowsInv, pc \in OwnJobPcs, UNCHANGED run,
         BlockFixJob(run.f, run.job),
         pc' \in OwnJobPcs \ {"open", "work", "record"}
  PROVE  RowsInv'
<1>1. run.f \in Findings /\ run.job \in JobIds /\ TypeOK
  BY DEF TypeInv, Locals, JobPcs, FindingPcs, OwnJobPcs
<1>2. Alone(run.f, run.job) /\ jobs[run.job].from = run.from
  BY DEF RowsInv, OwnInv, Alone, JobPcs, OwnJobPcs
<1>3. LinksInv' /\ OneLiveAttempt'
  BY <1>1, <1>2, HoldLive
<1>4. RunningInv'
  BY <1>1, <1>2, HoldLive DEF RowsInv, RunningInv, OwnJobPcs, ResetPcs
<1>5. OwnInv'
  <2>1. ~HasSuccessor(run.job)'
    BY <1>1, <1>2, HeldRows DEF Alone
  <2>2. \A k \in JobIds : Live(k)' /\ jobs'[k].finding = run.f => k = run.job
    BY <1>1, <1>2, HoldLive
  <2> QED
    BY <1>1, <1>2, <2>1, <2>2, HeldRows DEF OwnInv, Alone
<1>6. ResumeInv'
  BY DEF ResumeInv, ResumePcs, OwnJobPcs
<1> QED
  BY <1>3, <1>4, <1>5, <1>6 DEF RowsInv

-----------------------------------------------------------------------------
(* The creation of a row: what else was alive of the finding is superseded, *)
(* or continued by the new row.                                             *)

Created == Create /\ ~FailClaimed

LEMMA CreatedRows ==
  ASSUME TypeInv, RowsInv, Created
  PROVE  /\ nJobs' = nJobs + 1 /\ nJobs' \in JobIds /\ nJobs \in Nat
         /\ jobs'[nJobs'].state = "running" /\ jobs'[nJobs'].finding = run.f
         /\ jobs'[nJobs'].from = run.from
         /\ jobs'[nJobs'].origin =
              IF run.from = 0 THEN nJobs' ELSE jobs[run.from].origin
         /\ pc' = "open" /\ run'.job = nJobs' /\ run'.f = run.f /\ run'.from = run.from
         /\ UNCHANGED <<status, streak, disk, bounds>>
         /\ \A k \in JobIds \ {nJobs'} :
              /\ jobs'[k].finding = jobs[k].finding
              /\ jobs'[k].from = jobs[k].from /\ jobs'[k].origin = jobs[k].origin
              /\ IF run.from = 0 /\ Paused(k) /\ jobs[k].finding = run.f
                   THEN jobs'[k].state = "killed" ELSE jobs'[k] = jobs[k]
<1> DEFINE j    == nJobs + 1
           cold == run.from = 0
           new  == [NoJob EXCEPT
                      !.state = "running", !.finding = run.f, !.from = run.from,
                      !.origin = IF cold THEN j ELSE jobs[run.from].origin,
                      !.blocker = ~cold /\ jobs[run.from].blocker]
           old  == IF cold THEN Supersedable(run.f) ELSE {}
<1>1. j \in JobIds /\ nJobs \in Nat /\ run \in Run /\ jobs \in [JobIds -> Job]
  <2>1. nJobs < MaxJobs /\ nJobs \in 0..MaxJobs
    BY DEF TypeInv, TypeOK, Locals, Created, Create, At
  <2> QED
    BY <2>1, FixChainAssumption DEF JobIds, TypeInv, TypeOK
<1>2. /\ nJobs' = j
      /\ jobs' = [k \in JobIds |-> CASE k = j -> new
                                    [] k \in old -> Killed(jobs[k])
                                    [] OTHER -> jobs[k]]
      /\ run' = [run EXCEPT !.job = j, !.old = old]
      /\ pc' = "open"
      /\ UNCHANGED <<status, streak, disk, bounds>>
  BY DEF Created, Create
<1>3. new.state = "running" /\ new.finding = run.f /\ new.from = run.from
      /\ new.origin = IF cold THEN j ELSE jobs[run.from].origin
  BY DEF NoJob
<1> HIDE DEF new
<1>4. jobs'[j] = new
  <2>1. j \notin old
    BY <1>1 DEF Supersedable, Paused, RowsInv, LinksInv, Unused
  <2> HIDE DEF old, j
  <2> QED
    BY <1>1, <1>2, <2>1
<1>5. ASSUME NEW k \in JobIds \ {j}
      PROVE  jobs'[k] = IF k \in old THEN Killed(jobs[k]) ELSE jobs[k]
  BY <1>2
<1>6. ASSUME NEW k \in JobIds \ {j}
      PROVE  /\ jobs'[k].finding = jobs[k].finding
             /\ jobs'[k].from = jobs[k].from /\ jobs'[k].origin = jobs[k].origin
             /\ IF cold /\ Paused(k) /\ jobs[k].finding = run.f
                  THEN jobs'[k].state = "killed" ELSE jobs'[k] = jobs[k]
  <2>1. jobs[k] \in Job
    BY <1>1
  <2>2. k \in old <=> cold /\ Paused(k) /\ jobs[k].finding = run.f
    BY DEF Supersedable
  <2> HIDE DEF old
  <2> QED
    BY <1>5, <2>1, <2>2 DEF Killed, Job
<1>7. run'.job = j /\ run'.f = run.f /\ run'.from = run.from
  BY <1>1, <1>2 DEF Run
<1> QED
  BY <1>1, <1>2, <1>3, <1>4, <1>6, <1>7

(* The new row is the only one of its finding left alive. *)
LEMMA CreatedLive ==
  ASSUME TypeInv, RowsInv, Created, NEW k \in JobIds, k # nJobs', Live(k)'
  PROVE  Paused(k) /\ jobs[k].finding # run.f
<1> USE CreatedRows
<1>1. pc = "create"
  BY DEF Created, Create, At
<1>2. jobs[k].state # "running"
  BY <1>1 DEF RowsInv, RunningInv, ResetPcs, OwnJobPcs
<1>3. jobs'[k] = jobs[k] /\ jobs[k].state = "suspended" /\ ~HasSuccessor(k)'
  BY <1>2 DEF Live, Paused
<1>4. ~HasSuccessor(k)
  <2> SUFFICES ASSUME NEW i \in JobIds, jobs[i].from = k PROVE FALSE
    BY DEF HasSuccessor
  <2>1. i # nJobs'
    BY DEF RowsInv, LinksInv, Unused, JobIds
  <2> QED
    BY <1>3, <2>1 DEF HasSuccessor
<1>5. Paused(k)
  BY <1>3, <1>4 DEF Paused
<1>6. ASSUME jobs[k].finding = run.f PROVE FALSE
  <2>1. run.from # 0
    BY <1>3, <1>5, <1>6
  <2>2. Paused(run.from) /\ jobs[run.from].finding = run.f /\ run.from \in JobIds
    BY <1>1, <2>1, RunFields, FixChainAssumption
       DEF RowsInv, ResumeInv, ResumePcs, TypeInv, TypeOK, JobIds
  <2>3. k = run.from
    BY <1>5, <1>6, <2>2 DEF RowsInv, OneLiveAttempt, Live
  <2> QED
    BY <1>3, <2>3 DEF HasSuccessor
<1> QED
  BY <1>5, <1>6

LEMMA CreatedLinks ==
  ASSUME TypeInv, RowsInv, Created PROVE LinksInv'
<1> USE CreatedRows
<1> SUFFICES ASSUME NEW k \in JobIds
             PROVE  IF k <= nJobs' THEN Linked(k)' ELSE Unused(k)'
  BY DEF LinksInv
<1>1. run.f \in Findings /\ run.from \in 0..MaxJobs
  BY RunFields DEF TypeInv, TypeOK, Locals, FindingPcs, Created, Create, At
<1>2. CASE k < nJobs'
  <2>1. k <= nJobs /\ Linked(k)
    BY <1>2 DEF RowsInv, LinksInv, JobIds
  <2>2. jobs[k].origin \in JobIds \ {nJobs'}
        /\ (jobs[k].from # 0 => jobs[k].from \in JobIds \ {nJobs'})
    BY <1>2, <2>1, FixChainAssumption DEF Linked, JobIds
  <2>3. jobs'[k].state \in States
    BY <1>2, <2>1 DEF Linked, States
  <2> QED
    BY <1>2, <2>1, <2>2, <2>3 DEF Linked, JobIds
<1>3. CASE k = nJobs' /\ run.from = 0
  BY <1>1, <1>3 DEF Linked, States, JobIds
<1>4. CASE k = nJobs' /\ run.from # 0
  <2>1. Paused(run.from) /\ jobs[run.from].finding = run.f /\ run.from \in JobIds
    BY <1>1, <1>4, FixChainAssumption
       DEF RowsInv, ResumeInv, ResumePcs, JobIds, Created, Create, At
  <2>2. run.from <= nJobs /\ Linked(run.from)
    BY <2>1 DEF RowsInv, LinksInv, Unused, Paused
  <2>3. jobs[run.from].origin \in JobIds \ {nJobs'} /\ run.from # nJobs'
    BY <2>1, <2>2, FixChainAssumption DEF Linked, JobIds
  <2> QED
    BY <1>1, <1>4, <2>1, <2>2, <2>3 DEF Linked, States, JobIds
<1>5. CASE ~(k <= nJobs')
  BY <1>5 DEF RowsInv, LinksInv, Unused, JobIds, Paused
<1> QED
  BY <1>2, <1>3, <1>4, <1>5 DEF JobIds

LEMMA RowsCreated ==
  ASSUME TypeInv, RowsInv, Created PROVE RowsInv'
<1> USE CreatedRows
<1>1. pc = "create" /\ pc' = "open"
  BY DEF Created, Create, At
<1>2. OneLiveAttempt'
  <2> SUFFICES ASSUME NEW i \in JobIds, NEW k \in JobIds, Live(i)', Live(k)',
                      jobs'[i].finding = jobs'[k].finding
               PROVE  i = k
    BY DEF OneLiveAttempt
  <2>1. CASE i = nJobs'
    BY <2>1, CreatedLive
  <2>2. CASE k = nJobs'
    BY <2>2, CreatedLive
  <2>3. CASE i # nJobs' /\ k # nJobs'
    BY <2>3, CreatedLive DEF RowsInv, OneLiveAttempt, Live
  <2> QED
    BY <2>1, <2>2, <2>3
<1>3. RunningInv'
  <2>1. \A k \in JobIds : jobs'[k].state = "running" => k = nJobs'
    BY CreatedLive DEF Live, Paused
  <2> QED
    BY <1>1, <2>1 DEF RunningInv, OwnJobPcs
<1>4. OwnInv'
  <2>1. ASSUME NEW j \in JobIds, j = nJobs' PROVE ~HasSuccessor(j)'
    <3> SUFFICES ASSUME NEW i \in JobIds, jobs'[i].from = nJobs' PROVE FALSE
      BY <2>1 DEF HasSuccessor
    <3>1. LinksInv' /\ i \in Nat
      BY CreatedLinks DEF JobIds
    <3>2. jobs'[i].from < nJobs'
      BY <3>1 DEF LinksInv, Linked, Unused, JobIds
    <3> QED
      BY <3>2
  <2>2. \A k \in JobIds : Live(k)' /\ jobs'[k].finding = run.f => k = nJobs'
    BY CreatedLive
  <2> QED
    BY <1>1, <2>1, <2>2 DEF OwnInv
<1>5. ResumeInv'
  BY <1>1 DEF ResumeInv, ResumePcs
<1> QED
  BY <1>2, <1>3, <1>4, <1>5, CreatedLinks DEF RowsInv

-----------------------------------------------------------------------------
(* Every step keeps the rows in order. *)

LEMMA RowsInit == Init => RowsInv
<1> SUFFICES ASSUME Init PROVE RowsInv
  OBVIOUS
<1>1. nJobs = 0 /\ pc = "reconcile"
      /\ \A j \in JobIds : Unused(j) /\ jobs[j].state \notin {"running", "suspended"}
  BY DEF Init, Unused, NoJob
<1>2. LinksInv
  BY <1>1 DEF LinksInv, JobIds
<1>3. RunningInv /\ OwnInv /\ ResumeInv
  BY <1>1 DEF RunningInv, OwnInv, ResumeInv, JobPcs, ResumePcs
<1>4. OneLiveAttempt
  BY <1>1 DEF OneLiveAttempt, Live, Paused
<1> QED
  BY <1>2, <1>3, <1>4 DEF RowsInv

LEMMA RowsBetweenCycles ==
  ASSUME TypeInv, RowsInv, Startup \/ BetweenCycles PROVE RowsInv'
<1> USE DEF At, Goto, TypeInv
<1>1. CASE Boot \/ ReleaseTrees("boot_trees", "reconcile")
  BY <1>1, SameRows, RowsReset DEF Boot, ReleaseTrees, db, ResetPcs
<1>2. CASE RetireStranded("boot_stranded", "boot_trees")
  BY <1>2, StrandedRows, RowsReset DEF RetireStranded, ResetPcs
<1>3. CASE SuspendOrphans
  BY <1>3, OrphanRows, RowsReset DEF SuspendOrphans, ResetPcs
<1>4. CASE RequeueStuck
  BY <1>4, StuckRows, RowsIdle
     DEF RequeueStuck, JobPcs, ResetPcs, ResumeInv, ResumePcs
<1>5. CASE RetireStranded("stranded", "trees") \/ ReleaseTrees("trees", "pick")
  <2>1. Calm
    BY <1>5, StrandedRows, SameRows DEF ReleaseTrees, db
  <2>2. \A j \in JobIds : jobs'[j].state # "running"
    BY <1>5, <2>1, CalmRunning, NoneRunning
       DEF RetireStranded, ReleaseTrees, RowsInv, ResetPcs, OwnJobPcs
  <2> QED
    BY <1>5, <2>1, <2>2, RowsIdle
       DEF RetireStranded, ReleaseTrees, JobPcs, ResetPcs, ResumeInv, ResumePcs
<1> QED
  BY <1>1, <1>2, <1>3, <1>4, <1>5 DEF Startup, BetweenCycles

(* A chain that is offered is the only thing alive of the picked finding. *)
LEMMA OfferedAlone ==
  ASSUME TypeInv, RowsInv, NEW j \in JobIds, Offered(j)
  PROVE  /\ run.f \in Findings /\ status[run.f] = "queued"
         /\ Paused(j) /\ Alone(run.f, j) /\ jobs[j].state # "absent"
<1>1. /\ jobs[j].finding = run.f /\ Paused(j) /\ run.f \in Findings
      /\ status[run.f] = "queued"
  BY DEF Offered, Resumable, At, TypeInv, Locals, FindingPcs
<1>2. j <= nJobs /\ ~HasSuccessor(j) /\ jobs[j].state # "absent"
  BY <1>1 DEF Paused, RowsInv, LinksInv, Unused
<1>3. \A k \in JobIds : Live(k) /\ jobs[k].finding = run.f => k = j
  BY <1>1 DEF RowsInv, OneLiveAttempt, Live
<1> QED
  BY <1>1, <1>2, <1>3 DEF Alone

LEMMA RowsGivenUp ==
  ASSUME TypeInv, RowsInv, NEW j \in JobIds, GiveUpChain(j) PROVE RowsInv'
<1> USE DEF At, Goto, TypeInv
<1>1. pc = "plan" /\ \A k \in JobIds : jobs[k].state # "running"
  BY NoneRunning DEF GiveUpChain, Offered, RowsInv, ResetPcs, OwnJobPcs
<1>2. run.from = 0
  BY <1>1 DEF RowsInv, ResumeInv
<1>3. CASE UNCHANGED <<jobs, run>> /\ pc' = "start"
  BY <1>1, <1>2, <1>3, SameRows, RowsIdle
     DEF GiveUpChain, JobPcs, ResetPcs, ResumeInv, ResumePcs
<1>4. CASE /\ jobs' = Retire(jobs, j, "failed", "give-up")
           /\ pc' = "gaveup" /\ run' = [run EXCEPT !.job = j]
  <2>1. Alone(run.f, j) /\ jobs[j].state # "absent"
    BY OfferedAlone DEF GiveUpChain
  <2>2. nJobs' = nJobs
    BY DEF GiveUpChain
  <2>3. Calm
    BY <1>4, <2>1, <2>2, RetiredRow
  <2>4. run'.f = run.f /\ run'.job = j /\ run'.from = 0
    BY <1>2, <1>4, SetJob, JobIdRange DEF TypeOK
  <2>5. LinksInv' /\ OneLiveAttempt'
    BY <2>3, CalmLinks, CalmOneLive DEF RowsInv
  <2>6. RunningInv'
    BY <1>1, <1>4, <2>3, CalmRunning DEF RunningInv
  <2>7. OwnInv'
    <3>1. ~HasSuccessor(j)' /\ jobs'[j].finding = run.f
      BY <2>1, <2>3, CalmLive DEF Alone, Calm, CalmRow
    <3>2. \A k \in JobIds : Live(k)' /\ jobs'[k].finding = run.f => k = j
      BY <2>1, <2>3, CalmLive DEF Alone, Calm, CalmRow
    <3> QED
      BY <1>4, <2>1, <2>2, <2>4, <3>1, <3>2 DEF OwnInv, Alone, OwnJobPcs
  <2>8. ResumeInv'
    BY <1>4, <2>4 DEF ResumeInv, ResumePcs
  <2> QED
    BY <2>5, <2>6, <2>7, <2>8 DEF RowsInv
<1> QED
  BY <1>3, <1>4 DEF GiveUpChain

LEMMA RowsSelect ==
  ASSUME TypeInv, RowsInv, Select PROVE RowsInv'
<1> USE DEF At, Goto, TypeInv, db
<1>1. \A j \in JobIds : jobs[j].state # "running"
  BY NoneRunning
     DEF Select, PickFix, NothingQueued, WorkdirGone, ResumeChain, GiveUpChain, Offered,
         StartFresh, CountGaveUp, HoldGaveUp, RowsInv, ResetPcs, OwnJobPcs
<1> USE DEF JobPcs, ResetPcs, ResumePcs
<1>2. ASSUME NEW f \in Findings, PickFix(f) PROVE RowsInv'
  <2>1. run'.from = 0
    BY <1>2 DEF PickFix, NoRun
  <2> QED
    BY <1>1, <1>2, <2>1, SameRows, RowsIdle DEF PickFix, ResumeInv
<1>3. CASE NothingQueued
  BY <1>3, SameRows, RowsReset DEF NothingQueued, EndCycle
<1>4. ASSUME NEW j \in JobIds, WorkdirGone(j) PROVE RowsInv'
  <2>1. Calm
    BY <1>4, OfferedAlone, RetiredRow DEF WorkdirGone
  <2>2. pc = "plan" /\ UNCHANGED <<pc, run>>
    BY <1>4 DEF WorkdirGone, Offered
  <2>3. ResumeInv'
    BY <2>2 DEF RowsInv, ResumeInv
  <2> QED
    BY <1>1, <2>1, <2>2, <2>3, CalmRunning, RowsIdle
<1>5. ASSUME NEW j \in JobIds, ResumeChain(j) PROVE RowsInv'
  <2>1. run'.f = run.f /\ run'.from = j
    BY <1>5, SetFrom, JobIdRange DEF ResumeChain, Offered, TypeOK
  <2>2. Paused(j) /\ jobs[j].finding = run.f
    BY <1>5, OfferedAlone DEF ResumeChain, Alone
  <2>3. pc' = "start" /\ UNCHANGED <<jobs, nJobs>>
    BY <1>5 DEF ResumeChain
  <2>4. ResumeInv'
    BY <2>1, <2>2, <2>3 DEF ResumeInv, Paused, HasSuccessor
  <2> QED
    BY <1>1, <2>3, <2>4, SameRows, RowsIdle
<1>6. CASE StartFresh
  BY <1>1, <1>6, SameRows, RowsIdle DEF StartFresh, RowsInv, ResumeInv
<1>7. CASE CountGaveUp
  <2>1. run.from = 0 /\ pc = "gaveup" /\ UNCHANGED <<jobs, nJobs>>
    BY <1>7 DEF CountGaveUp, RowsInv, ResumeInv
  <2>2. CASE pc' = "start" /\ run' = [run EXCEPT !.job = 0]
    <3>1. run'.from = 0
      BY <2>1, <2>2, SetJob, NoJobInRange DEF TypeOK
    <3> QED
      BY <1>1, <2>1, <2>2, <3>1, SameRows, RowsIdle DEF ResumeInv
  <2>3. CASE pc' = "gaveup_hold" /\ UNCHANGED run
    <3>1. LinksInv' /\ OneLiveAttempt'
      BY <2>1, SameRows, CalmLinks, CalmOneLive DEF RowsInv
    <3>2. RunningInv'
      BY <1>1, <2>1, <2>3 DEF RunningInv
    <3>3. OwnInv'
      BY <2>1, <2>3 DEF RowsInv, OwnInv, OwnJobPcs, Live, Paused, HasSuccessor
    <3>4. ResumeInv'
      BY <2>1, <2>3 DEF ResumeInv
    <3> QED
      BY <3>1, <3>2, <3>3, <3>4 DEF RowsInv
  <2> QED
    BY <1>7, <2>2, <2>3 DEF CountGaveUp
<1>8. CASE HoldGaveUp
  <2>1. CASE BlockFixJob(run.f, run.job) /\ pc' = "pick"
    <3>1. run.f \in Findings /\ run.job \in JobIds
      BY <1>8 DEF HoldGaveUp, Locals, FindingPcs
    <3>2. Alone(run.f, run.job)
      BY <1>8 DEF HoldGaveUp, RowsInv, OwnInv, Alone
    <3> QED
      BY <1>1, <2>1, <3>1, <3>2, HoldRowsEnd
  <2>2. CASE /\ UNCHANGED <<jobs, nJobs>>
             /\ pc' = "start" /\ run' = [run EXCEPT !.job = 0]
    <3>1. run'.from = 0
      BY <1>8, <2>2, SetJob, NoJobInRange DEF HoldGaveUp, RowsInv, ResumeInv, TypeOK
    <3> QED
      BY <1>1, <2>2, <3>1, SameRows, RowsIdle DEF ResumeInv
  <2> QED
    BY <1>8, <2>1, <2>2 DEF HoldGaveUp
<1> QED
  BY <1>2, <1>3, <1>4, <1>5, <1>6, <1>7, <1>8, RowsGivenUp DEF Select

LEMMA FailedRows ==
  ASSUME TypeInv, RowsInv, FailClaimed PROVE RowsInv'
BY SameRows, RowsReset DEF FailClaimed, EndCycle, ResetPcs, TypeInv

(* The row of the job under way is on file, and its finding is the claimed. *)
LEMMA OwnRow ==
  ASSUME TypeInv, RowsInv, pc \in OwnJobPcs
  PROVE  /\ run.f \in Findings /\ run.job \in JobIds /\ run.job <= nJobs
         /\ Alone(run.f, run.job) /\ jobs[run.job].state # "absent"
         /\ Linked(run.job)
BY DEF TypeInv, Locals, JobPcs, FindingPcs, OwnJobPcs, RowsInv, OwnInv, Alone, LinksInv,
       Linked, States

LEMMA RowsOpening ==
  ASSUME TypeInv, RowsInv, Opening PROVE RowsInv'
<1> USE DEF At, Goto, TypeInv, db, JobPcs, ResetPcs, ResumePcs
<1>1. CASE StartGranted
  <2>1. ResumeInv' /\ \A j \in JobIds : jobs'[j].state # "running"
    BY <1>1, NoneRunning
       DEF StartGranted, RowsInv, ResumeInv, Paused, HasSuccessor, OwnJobPcs
  <2> QED
    BY <1>1, <2>1, SameRows, RowsIdle DEF StartGranted
<1>2. CASE StartDenied
  BY <1>2, SameRows, RowsReset DEF StartDenied, EndCycle
<1>3. CASE Claim
  <2>1. CASE EndCycle
    BY <1>3, <2>1, SameRows, RowsReset DEF Claim, EndCycle
  <2>2. CASE ~EndCycle
    <3>1. ResumeInv' /\ \A j \in JobIds : jobs'[j].state # "running"
      BY <1>3, <2>2, NoneRunning
         DEF Claim, RowsInv, ResumeInv, Paused, HasSuccessor, OwnJobPcs
    <3> QED
      BY <1>3, <2>2, <3>1, SameRows, RowsIdle DEF Claim
  <2> QED
    BY <2>1, <2>2
<1>4. CASE Prepare
  <2>1. CASE FailClaimed
    BY <2>1, FailedRows
  <2>2. CASE EndCycle /\ BlockFixJob(run.f, run.from)
    <3>1. pc = "prepare" /\ run.from # 0 /\ run.f \in Findings
      BY <1>4 DEF Prepare, Locals, FindingPcs
    <3>2. run.from \in JobIds
      BY <3>1, RunFields, FixChainAssumption DEF TypeOK, JobIds
    <3>3. Paused(run.from) /\ jobs[run.from].finding = run.f
      BY <3>1 DEF RowsInv, ResumeInv
    <3>4. Alone(run.f, run.from)
      BY <3>2, <3>3
         DEF Alone, RowsInv, LinksInv, Unused, OneLiveAttempt, Live, Paused
    <3> QED
      BY <2>2, <3>1, <3>2, <3>4, HoldRowsEnd DEF EndCycle
  <2>3. CASE pc' = "create" /\ UNCHANGED <<jobs, nJobs>>
                /\ run' = [run EXCEPT !.held = jobs[run.from].blocker]
    <3>1. pc = "prepare" /\ run'.f = run.f /\ run'.from = run.from
      BY <1>4, <2>3 DEF Prepare, TypeOK, Run
    <3>2. ResumeInv' /\ \A j \in JobIds : jobs'[j].state # "running"
      BY <2>3, <3>1, NoneRunning
         DEF RowsInv, ResumeInv, Paused, HasSuccessor, OwnJobPcs
    <3> QED
      BY <2>3, <3>1, <3>2, SameRows, RowsIdle
  <2> QED
    BY <1>4, <2>1, <2>2, <2>3 DEF Prepare
<1>5. CASE Create
  BY <1>5, FailedRows, RowsCreated DEF Created
<1>6. CASE OpenResumed
  BY <1>6, SameRows, RowsOwn DEF OpenResumed, OwnJobPcs, RowsInv, RunningInv
<1>7. CASE OpenFresh
  <2>1. CASE EndCycle
    BY <1>7, <2>1, SameRows, RowsReset DEF OpenFresh, EndCycle
  <2>2. CASE ~EndCycle
    BY <1>7, <2>2, SameRows, RowsOwn DEF OpenFresh, OwnJobPcs, RowsInv, RunningInv
  <2> QED
    BY <2>1, <2>2
<1>8. CASE TreeNotMade
  <2>1. Calm
    BY <1>8, OwnRow, UnmadeRows DEF TreeNotMade, OwnJobPcs
  <2>2. run'.f = run.f /\ run'.job = run.job /\ run'.from = run.from
    BY <1>8 DEF TreeNotMade, TypeOK, Run
  <2> QED
    BY <1>8, <2>1, <2>2, RowsOwn DEF TreeNotMade, OwnJobPcs
<1> QED
  BY <1>1, <1>2, <1>3, <1>4, <1>5, <1>6, <1>7, <1>8 DEF Opening

LEMMA RowsWorker ==
  ASSUME TypeInv, RowsInv, Worker PROVE RowsInv'
<1> USE DEF At, TypeInv, db
<1>1. ASSUME NEW j \in JobIds, WorkerSpends(j) \/ WorkerWrites(j) PROVE RowsInv'
  BY <1>1, RowsUntouched DEF WorkerSpends, WorkerWrites
<1>2. ASSUME NEW end \in AllEnds, WorkerReturns(end) PROVE RowsInv'
  <2>1. run'.f = run.f /\ run'.job = run.job /\ run'.from = run.from
    BY <1>2, SetEnd DEF WorkerReturns, TypeOK
  <2> QED
    BY <1>2, <2>1, SameRows, RowsOwn DEF WorkerReturns, OwnJobPcs, RowsInv, RunningInv
<1>3. CASE WorkerNotRun
  <2>1. CASE FailClaimed
    BY <2>1, FailedRows
  <2>2. CASE EndCycle /\ BlockFixJob(run.f, run.job)
    BY <1>3, <2>2, OwnRow, HoldRowsEnd DEF WorkerNotRun, EndCycle, OwnJobPcs, ResetPcs
  <2> QED
    BY <1>3, <2>1, <2>2 DEF WorkerNotRun
<1> QED
  BY <1>1, <1>2, <1>3 DEF Worker

LEMMA RowsSettling ==
  ASSUME TypeInv, RowsInv, Settling PROVE RowsInv'
<1> USE DEF At, Goto, TypeInv, db, OwnJobPcs
<1>1. CASE Record
  <2>1. run'.f = run.f /\ run'.job = run.job /\ run'.from = run.from
    BY <1>1 DEF Record, TypeOK, Run
  <2> QED
    BY <1>1, <2>1, RecordRows, RowsOwn DEF Record
<1>2. CASE Conclude
  <2>1. CASE FailClaimed
    BY <2>1, FailedRows
  <2>2. CASE ~FailClaimed
    <3>1. run'.f = run.f /\ run'.job = run.job /\ run'.from = run.from
      BY <1>2, <2>2 DEF Conclude, TypeOK, Run
    <3> QED
      BY <1>2, <2>2, <3>1, SameRows, RowsOwn DEF Conclude
  <2> QED
    BY <2>1, <2>2
<1>3. CASE WriteBlocked \/ Hold
  <2>1. CASE FailClaimed
    BY <2>1, FailedRows
  <2> QED
    BY <1>3, <2>1, HoldRowsOn DEF WriteBlocked, Hold
<1>4. ASSUME NEW v, At("write"), Settle(v) PROVE RowsInv'
  BY <1>4, SameRows, RowsOwn DEF Settle
<1>5. CASE WriteOther \/ Count
  BY <1>5, SameRows, RowsOwn DEF WriteOther, Count
<1>6. CASE Clean \/ Release
  <2>1. CASE EndCycle
    BY <1>6, <2>1, SameRows, RowsReset DEF Clean, Release, EndCycle, ResetPcs
  <2> QED
    BY <1>6, <2>1, SameRows, RowsOwn DEF Clean, Release
<1>7. CASE RetireConcluded
  <2>1. Calm
    BY <1>7, OwnRow, RetiredRow, SameRows DEF RetireConcluded
  <2> QED
    BY <1>7, <2>1, RowsOwn DEF RetireConcluded
<1>8. CASE Close
  BY <1>8, SameRows, RowsReset DEF Close, EndCycle, ResetPcs
<1> QED
  BY <1>1, <1>2, <1>3, <1>4, <1>5, <1>6, <1>7, <1>8
     DEF Settling, WriteDeclined, WriteShipped

LEMMA RowsOthers ==
  ASSUME TypeInv, RowsInv, Operator \/ Environment PROVE RowsInv'
<1>1. CASE Operator
  BY <1>1, RowsUntouched DEF Operator, Verdict, Unqueue, Answer
<1>2. CASE Crash
  BY <1>2, SameRows, RowsReset DEF Crash, db, ResetPcs, TypeInv
<1>3. ASSUME NEW j \in JobIds, WorkerExits(j) \/ TreeLost(j) PROVE RowsInv'
  BY <1>3, RowsUntouched DEF WorkerExits, TreeLost, db
<1> QED
  BY <1>1, <1>2, <1>3 DEF Environment

LEMMA RowsStep == TypeInv /\ RowsInv /\ [Next]_vars => RowsInv'
<1> SUFFICES ASSUME TypeInv, RowsInv, [Next]_vars PROVE RowsInv'
  OBVIOUS
<1>1. CASE UNCHANGED vars
  BY <1>1, RowsUntouched DEF vars, db
<1> QED
  BY <1>1, RowsBetweenCycles, RowsSelect, RowsOpening, RowsWorker, RowsSettling,
     RowsOthers DEF Next

(* The rows of the fix jobs stay in order: links lead back within one chain, *)
(* only the job under way is running, and what a resume was chosen for still *)
(* waits when its row is made.                                               *)
THEOREM RowsInvariant == Spec => []RowsInv
<1> QED
  BY TypeInvariant, RowsInit, RowsStep, PTL DEF Spec

(* No finding ever has two attempts that run or can be resumed, however many *)
(* chains are given up, superseded, held or orphaned (create_job,            *)
(* block_fix_job).                                                           *)
THEOREM AttemptsAreSingle == Spec => []OneLiveAttempt
<1>1. RowsInv => OneLiveAttempt
  BY DEF RowsInv
<1> QED
  BY <1>1, RowsInvariant, PTL

-----------------------------------------------------------------------------
(* Checkpoints *)

(* What of the rows a hold rests on, no calm step of another finding takes. *)
LEMMA CheckpointsStay ==
  ASSUME BlockedHasCheckpoint, Calm,
         \A k \in JobIds :
           Paused(k) /\ status[jobs[k].finding] = "blocked" => jobs'[k] = jobs[k],
         \A f \in Findings : status'[f] = "blocked" => status[f] = "blocked"
  PROVE  BlockedHasCheckpoint'
<1> SUFFICES ASSUME NEW f \in Findings, status'[f] = "blocked"
             PROVE  \E j \in JobIds :
                      jobs'[j].finding = f /\ Paused(j)' /\ jobs'[j].blocker
  BY DEF BlockedHasCheckpoint
<1>1. PICK j \in JobIds : jobs[j].finding = f /\ Paused(j) /\ jobs[j].blocker
  BY DEF BlockedHasCheckpoint
<1>2. jobs'[j] = jobs[j] /\ Paused(j)'
  BY <1>1, CalmLive
<1> QED
  BY <1>1, <1>2

LEMMA CheckpointsHeld ==
  ASSUME TypeOK, RowsInv, BlockedHasCheckpoint, NEW f \in Findings, NEW j \in JobIds,
         Alone(f, j), BlockFixJob(f, j)
  PROVE  BlockedHasCheckpoint'
<1> SUFFICES ASSUME NEW g \in Findings, status'[g] = "blocked"
             PROVE  \E k \in JobIds :
                      jobs'[k].finding = g /\ Paused(k)' /\ jobs'[k].blocker
  BY DEF BlockedHasCheckpoint
<1>1. CASE g = f
  BY <1>1, HoldLive, HeldRows DEF Alone
<1>2. CASE g # f
  <2>1. status[g] = "blocked"
    BY <1>2, Blocked
  <2>2. PICK k \in JobIds : jobs[k].finding = g /\ Paused(k) /\ jobs[k].blocker
    BY <2>1 DEF BlockedHasCheckpoint
  <2>3. k # j
    BY <1>2, <2>2 DEF Alone
  <2> QED
    BY <2>2, <2>3, HeldRows DEF Paused
<1> QED
  BY <1>1, <1>2

LEMMA CheckpointsCreated ==
  ASSUME TypeInv, RowsInv, BlockedHasCheckpoint, status[run.f] = "fixing", Created
  PROVE  BlockedHasCheckpoint'
<1> SUFFICES ASSUME NEW g \in Findings, status'[g] = "blocked"
             PROVE  \E k \in JobIds :
                      jobs'[k].finding = g /\ Paused(k)' /\ jobs'[k].blocker
  BY DEF BlockedHasCheckpoint
<1>1. status[g] = "blocked" /\ g # run.f
  BY CreatedRows
<1>2. PICK k \in JobIds : jobs[k].finding = g /\ Paused(k) /\ jobs[k].blocker
  BY <1>1 DEF BlockedHasCheckpoint
<1>3. k # nJobs' /\ jobs'[k] = jobs[k]
  BY <1>1, <1>2, CreatedRows DEF RowsInv, LinksInv, Unused, Paused, JobIds
<1>4. ~HasSuccessor(k)'
  <2> SUFFICES ASSUME NEW i \in JobIds, jobs'[i].from = k PROVE FALSE
    BY DEF HasSuccessor
  <2>1. CASE i = nJobs'
    <3>1. run.from = k /\ run.from # 0 /\ pc = "create"
      BY <2>1, CreatedRows DEF JobIds, Created, Create, At
    <3> QED
      BY <1>1, <1>2, <3>1 DEF RowsInv, ResumeInv, ResumePcs
  <2>2. CASE i # nJobs'
    BY <1>2, <2>2, CreatedRows DEF Paused, HasSuccessor
  <2> QED
    BY <2>1, <2>2
<1> QED
  BY <1>2, <1>3, <1>4 DEF Paused

LEMMA HeldInit == Init => BlockedHasCheckpoint /\ NotHeld
BY DEF Init, BlockedHasCheckpoint, NotHeld

LEMMA NotHeldStep ==
  ASSUME TypeInv, ClaimInv, NotHeld, [Next]_vars PROVE NotHeld'
<1> USE DEF At, Goto, EndCycle, NotHeld
<1>1. TypeOK /\ status \in [Findings -> Status]
      /\ (pc \in FindingPcs => run.f \in Findings)
  BY DEF TypeInv, TypeOK, Locals
<1>2. CASE Startup \/ BetweenCycles
  BY <1>2 DEF Startup, BetweenCycles, Boot, RetireStranded, ReleaseTrees, SuspendOrphans,
              RequeueStuck
<1>3. CASE Select
  BY <1>3 DEF Select, PickFix, NothingQueued, WorkdirGone, ResumeChain, GiveUpChain,
              Offered, StartFresh, CountGaveUp, HoldGaveUp
<1>4. CASE Opening
  <2>1. CASE TreeNotMade
    BY <2>1 DEF TreeNotMade, TypeInv, TypeOK, Run
  <2> QED
    BY <1>4, <2>1 DEF Opening, StartGranted, StartDenied, Claim, Prepare, Create,
                      FailClaimed, OpenResumed, OpenFresh
<1>5. CASE Worker
  <2>1. CASE WorkerNotRun \/ \E end \in AllEnds : WorkerReturns(end)
    BY <2>1 DEF WorkerNotRun, FailClaimed, WorkerReturns
  <2>2. ASSUME NEW j \in JobIds, WorkerSpends(j) \/ WorkerWrites(j) PROVE NotHeld'
    BY <2>2 DEF WorkerSpends, WorkerWrites, db
  <2> QED
    BY <1>5, <2>1, <2>2 DEF Worker
<1>6. ASSUME NEW v, v # "blocked", At("write"), Settle(v) PROVE NotHeld'
  <2>1. status[run.f] = "fixing" /\ run.f \in Findings
    BY <1>1, <1>6 DEF ClaimInv, ClaimKept, ClaimedPcs, FindingPcs
  <2> QED
    BY <1>1, <1>6, <2>1 DEF Settle
<1>7. CASE Release
  <2>1. /\ pc = "release" /\ run.f \in Findings
        /\ status' \in {status, Unclaim(run.f)}
    BY <1>1, <1>7 DEF Release, FindingPcs
  <2>2. status'[run.f] = "blocked" => status[run.f] = "blocked"
    BY <1>1, <2>1 DEF Unclaim
  <2> QED
    BY <1>7, <2>1, <2>2 DEF Release
<1>8. CASE Settling /\ ~Release
  <2>1. CASE WriteDeclined \/ WriteShipped
    BY <1>6, <2>1 DEF WriteDeclined, WriteShipped, DeclineVerdicts
  <2>2. CASE Record \/ Conclude \/ Clean \/ Close \/ RetireConcluded
    BY <2>2 DEF Record, Conclude, Clean, Close, FailClaimed, RetireConcluded
  <2>3. CASE WriteBlocked \/ FailClaimed
    BY <2>3 DEF WriteBlocked, FailClaimed
  <2>4. CASE WriteOther
    BY <2>4 DEF WriteOther
  <2>5. CASE Count \/ Hold
    BY <2>5 DEF Count, Hold, FailClaimed
  <2> QED
    BY <1>8, <2>1, <2>2, <2>3, <2>4, <2>5 DEF Settling
<1>9. CASE Operator
  <2> SUFFICES ASSUME NEW f \in Findings, NEW from,
                      NEW to \in Given \cup {"new"}, Answer(f, from, to)
               PROVE  NotHeld'
    BY <1>9 DEF Operator, Verdict, Unqueue
  <2>1. \A g \in Findings : status'[g] = "blocked" => status[g] = "blocked"
    BY <1>1 DEF Answer, Given
  <2>2. pc' = pc /\ run' = run
    BY DEF Answer
  <2> QED
    BY <1>1, <2>1, <2>2 DEF FindingPcs
<1>10. CASE Environment
  BY <1>10 DEF Environment, Crash, WorkerExits, TreeLost, db
<1>11. CASE UNCHANGED vars
  BY <1>11 DEF vars, db
<1> QED
  BY <1>2, <1>3, <1>4, <1>5, <1>7, <1>8, <1>9, <1>10, <1>11 DEF Next

LEMMA CheckpointsStep ==
  ASSUME TypeInv, ClaimInv, RowsInv, BlockedHasCheckpoint, NotHeld, [Next]_vars
  PROVE  BlockedHasCheckpoint'
<1> USE DEF At, Goto
<1>1. TypeOK /\ status \in [Findings -> Status]
      /\ (pc \in FindingPcs => run.f \in Findings)
      /\ (pc \in ClaimedPcs => status[run.f] = "fixing")
  BY DEF TypeInv, TypeOK, Locals, ClaimInv, ClaimKept
<1>2. ASSUME UNCHANGED <<status, jobs, nJobs>> PROVE BlockedHasCheckpoint'
  BY <1>2, SameRows, CheckpointsStay
<1>3. ASSUME UNCHANGED <<jobs, nJobs>>, status' \in {status, Unclaim(run.f)}
      PROVE  BlockedHasCheckpoint'
  <2>1. \A f \in Findings : status'[f] = "blocked" => status[f] = "blocked"
    BY <1>1, <1>3 DEF Unclaim
  <2> QED
    BY <1>3, <2>1, SameRows, CheckpointsStay
<1>4. CASE Startup \/ BetweenCycles
  <2>1. CASE Boot \/ ReleaseTrees("boot_trees", "reconcile") \/ ReleaseTrees("trees", "pick")
    BY <1>2, <2>1 DEF Boot, ReleaseTrees, db
  <2>2. ASSUME NEW here, NEW next, RetireStranded(here, next) PROVE BlockedHasCheckpoint'
    <3>1. ASSUME NEW k \in JobIds, Paused(k), status[jobs[k].finding] = "blocked"
          PROVE  jobs'[k] = jobs[k]
      BY <2>2, <3>1 DEF RetireStranded, Stranded
    <3> QED
      BY <1>1, <2>2, <3>1, StrandedRows, CheckpointsStay DEF RetireStranded
  <2>3. CASE SuspendOrphans
    <3>1. ASSUME NEW k \in JobIds, Paused(k) PROVE jobs'[k] = jobs[k]
      BY <2>3, <3>1 DEF SuspendOrphans, Salvageable, Paused
    <3> QED
      BY <1>1, <2>3, <3>1, OrphanRows, CheckpointsStay DEF SuspendOrphans
  <2>4. CASE RequeueStuck
    <3>1. ASSUME NEW k \in JobIds, Paused(k) PROVE jobs'[k] = jobs[k]
      BY <2>4, <3>1 DEF RequeueStuck, Paused
    <3>2. \A f \in Findings : status'[f] = "blocked" => status[f] = "blocked"
      BY <2>4 DEF RequeueStuck
    <3> QED
      BY <1>1, <2>4, <3>1, <3>2, StuckRows, CheckpointsStay
  <2> QED
    BY <1>4, <2>1, <2>2, <2>3, <2>4 DEF Startup, BetweenCycles
<1>5. CASE Select
  <2>1. CASE NothingQueued \/ StartFresh \/ CountGaveUp
             \/ (\E f \in Findings : PickFix(f)) \/ (\E j \in JobIds : ResumeChain(j))
    BY <1>2, <2>1
       DEF NothingQueued, StartFresh, CountGaveUp, PickFix, ResumeChain, db
  <2>2. ASSUME NEW j \in JobIds, WorkdirGone(j) \/ GiveUpChain(j)
        PROVE  BlockedHasCheckpoint'
    <3>1. Offered(j) /\ UNCHANGED <<status, nJobs>>
      BY <2>2 DEF WorkdirGone, GiveUpChain
    <3>2. status[jobs[j].finding] = "queued" /\ jobs[j].state # "absent"
      BY <3>1, OfferedAlone DEF Alone
    <3>3. CASE jobs' = jobs
      BY <1>2, <3>1, <3>3
    <3>4. CASE jobs' = Retire(jobs, j, "killed", "other")
                 \/ jobs' = Retire(jobs, j, "failed", "give-up")
      <4>1. Calm /\ \A k \in JobIds \ {j} : jobs'[k] = jobs[k]
        BY <1>1, <3>1, <3>2, <3>4, RetiredRow
      <4> QED
        BY <3>1, <3>2, <4>1, CheckpointsStay
    <3> QED
      BY <2>2, <3>3, <3>4 DEF WorkdirGone, GiveUpChain
  <2>3. CASE HoldGaveUp
    <3>1. run.f \in Findings /\ run.job \in JobIds
      BY <2>3 DEF HoldGaveUp, TypeInv, Locals, FindingPcs, JobPcs
    <3>2. Alone(run.f, run.job)
      BY <2>3 DEF HoldGaveUp, RowsInv, OwnInv, JobPcs, Alone
    <3> QED
      BY <1>1, <1>3, <2>3, <3>1, <3>2, CheckpointsHeld DEF HoldGaveUp
  <2> QED
    BY <1>5, <2>1, <2>2, <2>3 DEF Select
<1>6. CASE FailClaimed
  BY <1>3, <1>6 DEF FailClaimed
<1>7. CASE Opening /\ ~FailClaimed
  <2>1. CASE StartGranted \/ StartDenied \/ OpenResumed
    BY <1>2, <2>1 DEF StartGranted, StartDenied, OpenResumed, db
  <2>2. CASE Claim
    <3>1. \A f \in Findings : status'[f] = "blocked" => status[f] = "blocked"
      BY <1>1, <2>2 DEF Claim
    <3> QED
      BY <2>2, <3>1, SameRows, CheckpointsStay DEF Claim
  <2>3. CASE Prepare
    <3>1. CASE BlockFixJob(run.f, run.from)
      <4>1. pc = "prepare" /\ run.from # 0 /\ run.f \in Findings
        BY <2>3 DEF Prepare, TypeInv, Locals, FindingPcs
      <4>2. run.from \in JobIds
        BY <4>1, RunFields, FixChainAssumption DEF TypeInv, TypeOK, JobIds
      <4>3. Paused(run.from) /\ jobs[run.from].finding = run.f
        BY <4>1 DEF RowsInv, ResumeInv, ResumePcs
      <4>4. Alone(run.f, run.from)
        BY <4>2, <4>3
           DEF Alone, RowsInv, LinksInv, Unused, OneLiveAttempt, Live, Paused
      <4> QED
        BY <1>1, <3>1, <4>1, <4>2, <4>4, CheckpointsHeld
    <3> QED
      BY <1>2, <1>7, <2>3, <3>1 DEF Prepare, db
  <2>4. CASE Create
    <3>1. status[run.f] = "fixing"
      BY <1>1, <2>4 DEF Create, ClaimedPcs
    <3> QED
      BY <1>7, <2>4, <3>1, CheckpointsCreated DEF Created
  <2>5. CASE OpenFresh
    BY <1>2, <1>3, <2>5 DEF OpenFresh
  <2>6. CASE TreeNotMade
    <3>1. pc = "open" /\ UNCHANGED <<status, nJobs>>
      BY <2>6 DEF TreeNotMade
    <3>2. jobs[run.job].finding = run.f /\ status[run.f] = "fixing"
          /\ run.job \in JobIds /\ jobs[run.job].state # "absent"
      BY <1>1, <3>1, OwnRow DEF Alone, OwnJobPcs, ClaimedPcs
    <3>3. Calm /\ \A k \in JobIds \ {run.job} : jobs'[k] = jobs[k]
      BY <1>1, <2>6, <3>2, UnmadeRows
    <3> QED
      BY <3>1, <3>2, <3>3, CheckpointsStay
  <2> QED
    BY <1>7, <2>1, <2>2, <2>3, <2>4, <2>5, <2>6 DEF Opening
<1>8. ASSUME BlockFixJob(run.f, run.job), pc \in OwnJobPcs PROVE BlockedHasCheckpoint'
  BY <1>1, <1>8, OwnRow, CheckpointsHeld
<1>9. CASE Worker /\ ~FailClaimed
  <2>1. ASSUME NEW j \in JobIds, WorkerSpends(j) \/ WorkerWrites(j)
        PROVE  BlockedHasCheckpoint'
    BY <1>2, <2>1 DEF WorkerSpends, WorkerWrites, db
  <2>2. CASE \E end \in AllEnds : WorkerReturns(end)
    BY <1>2, <2>2 DEF WorkerReturns, db
  <2>3. CASE WorkerNotRun
    BY <1>8, <1>9, <2>3 DEF WorkerNotRun, OwnJobPcs
  <2> QED
    BY <1>9, <2>1, <2>2, <2>3 DEF Worker
<1>10. CASE Settling /\ ~FailClaimed
  <2>1. CASE Record
    <3>1. status[run.f] = "fixing" /\ UNCHANGED status
      BY <1>1, <2>1 DEF Record, ClaimedPcs
    <3> QED
      BY <2>1, <3>1, RecordRows, CheckpointsStay
  <2>2. CASE WriteBlocked \/ Hold
    BY <1>8, <1>10, <2>2 DEF WriteBlocked, Hold, OwnJobPcs
  <2>3. ASSUME NEW v, v # "blocked", Settle(v) PROVE BlockedHasCheckpoint'
    <3>1. UNCHANGED <<jobs, nJobs>>
      BY <2>3 DEF Settle
    <3>2. \A f \in Findings : status'[f] = "blocked" => status[f] = "blocked"
      BY <1>1, <2>3 DEF Settle
    <3> QED
      BY <3>1, <3>2, SameRows, CheckpointsStay
  <2>4. CASE WriteDeclined \/ WriteShipped
    BY <2>3, <2>4 DEF WriteDeclined, WriteShipped, DeclineVerdicts
  <2>5. CASE Conclude \/ WriteOther \/ Clean \/ Count \/ Close
    BY <1>2, <1>10, <2>5 DEF Conclude, WriteOther, Clean, Count, Close, db
  <2>6. CASE Release
    BY <1>3, <2>6 DEF Release
  <2>7. CASE RetireConcluded
    <3>1. pc = "retire" /\ UNCHANGED <<status, nJobs>>
      BY <2>7 DEF RetireConcluded
    <3>2. jobs[run.job].finding = run.f /\ status[run.f] # "blocked"
          /\ run.job \in JobIds /\ jobs[run.job].state # "absent"
      BY <3>1, OwnRow DEF Alone, OwnJobPcs, NotHeld
    <3>3. CASE jobs' = Retire(jobs, run.job, "killed", "none")
      <4>1. Calm /\ \A k \in JobIds \ {run.job} : jobs'[k] = jobs[k]
        BY <1>1, <3>1, <3>2, <3>3, RetiredRow
      <4> QED
        BY <3>1, <3>2, <4>1, CheckpointsStay
    <3> QED
      BY <1>2, <2>7, <3>1, <3>3 DEF RetireConcluded
  <2> QED
    BY <1>10, <2>1, <2>2, <2>4, <2>5, <2>6, <2>7 DEF Settling
<1>11. CASE Operator
  <2> SUFFICES ASSUME NEW f \in Findings, NEW from,
                      NEW to \in Given \cup {"new"}, Answer(f, from, to)
               PROVE  BlockedHasCheckpoint'
    BY <1>11 DEF Operator, Verdict, Unqueue
  <2>1. \A g \in Findings : status'[g] = "blocked" => status[g] = "blocked"
    BY <1>1 DEF Answer, Given
  <2> QED
    BY <2>1, SameRows, CheckpointsStay DEF Answer
<1>12. CASE Environment
  BY <1>2, <1>12 DEF Environment, Crash, WorkerExits, TreeLost, db
<1>13. CASE UNCHANGED vars
  BY <1>2, <1>13 DEF vars, db
<1> QED
  BY <1>4, <1>5, <1>6, <1>7, <1>9, <1>10, <1>11, <1>12, <1>13 DEF Next

(* What a hold rests on is kept: the row block_fix_job made resumable, and    *)
(* that a row about to be retired with its outcome is of no held finding.     *)
THEOREM CheckpointsInvariant == Spec => [](BlockedHasCheckpoint /\ NotHeld)
<1>1. TypeInv /\ ClaimInv /\ RowsInv /\ (BlockedHasCheckpoint /\ NotHeld) /\ [Next]_vars
        => (BlockedHasCheckpoint /\ NotHeld)'
  BY CheckpointsStep, NotHeldStep
<1> QED
  BY <1>1, TypeInvariant, ClaimInvariant, RowsInvariant, HeldInit, PTL DEF Spec

(* A blocked finding has the checkpoint Resume fix needs, for every number of *)
(* findings and chains: no pass, no restart, no give-up and no fix of another *)
(* finding takes it away (block_fix_job, retire_stranded_suspensions).        *)
THEOREM HoldsHaveCheckpoints == Spec => []BlockedHasCheckpoint
<1>1. BlockedHasCheckpoint /\ NotHeld => BlockedHasCheckpoint
  OBVIOUS
<1> QED
  BY <1>1, CheckpointsInvariant, PTL

-----------------------------------------------------------------------------
(* Workers that outlived their daemon *)

LEMMA CalmChain ==
  ASSUME Calm, NEW o, ChainLive(o)' PROVE ChainLive(o)
<1>1. PICK j \in JobIds : jobs'[j].origin = o /\ Live(j)'
  BY DEF ChainLive
<1> QED
  BY <1>1, CalmLive DEF ChainLive, Calm, CalmRow

LEMMA CalmOver ==
  ASSUME Calm, NEW k \in JobIds, Over(k) PROVE Over(k)'
<1> SUFFICES ASSUME NEW i \in JobIds, jobs'[i].origin = jobs'[k].origin, Live(i)'
             PROVE  FALSE
  BY DEF Over, ChainLive, Calm
<1>1. Live(i) /\ jobs[i].origin = jobs[k].origin
  BY CalmLive DEF Calm, CalmRow
<1> QED
  BY <1>1 DEF Over, ChainLive

(* The job under way stays the same, and nothing starts to use its tree. *)
LEMMA SurvivorsElsewhere ==
  ASSUME TypeInv, SurvivorInv, survivors' \subseteq survivors,
         \A k \in JobIds : jobs'[k].origin = jobs[k].origin,
         pc' \in JobPcs, pc \in JobPcs, run'.job = run.job
  PROVE  ~TreeInUse(jobs[run.job].origin)'
<1> SUFFICES ASSUME NEW k \in survivors', jobs'[k].origin = jobs'[run'.job].origin
             PROVE  FALSE
  BY DEF TreeInUse
<1>1. run.job \in JobIds /\ k \in JobIds
  BY DEF TypeInv, TypeOK, Locals
<1>2. jobs[k].origin = jobs[run.job].origin
  BY <1>1
<1> QED
  BY <1>2 DEF SurvivorInv, TreeInUse

(* A step that revives no row, starts no job and spares a survivor's row *)
LEMMA SurvivorsCalm ==
  ASSUME TypeInv, SurvivorInv, Calm, survivors' \subseteq survivors,
         pc \in ResetPcs =>
           /\ pc' \in ResetPcs
           /\ \A k \in survivors :
                jobs[k].state = "running" => jobs'[k].state = "running",
         pc' \in JobPcs => pc \in JobPcs /\ run'.job = run.job
  PROVE  SurvivorInv'
<1>1. survivors \subseteq JobIds
  BY DEF TypeInv, TypeOK
<1>2. ASSUME NEW k \in survivors'
      PROVE  Over(k)' \/ (jobs'[k].state = "running" /\ pc' \in ResetPcs)
  BY <1>1, <1>2, CalmOver DEF SurvivorInv
<1>3. ASSUME pc' \in JobPcs PROVE ~TreeInUse(jobs[run.job].origin)'
  BY <1>3, SurvivorsElsewhere DEF Calm, CalmRow
<1> QED
  BY <1>2, <1>3 DEF SurvivorInv

(* The hold of a chain no survivor is in *)
LEMMA SurvivorsHeld ==
  ASSUME TypeInv, RowsInv, SurvivorInv, pc \notin ResetPcs,
         NEW f \in Findings, NEW j \in JobIds, BlockFixJob(f, j),
         ~TreeInUse(jobs[j].origin), UNCHANGED survivors,
         pc' \in JobPcs => pc \in JobPcs /\ run'.job = run.job
  PROVE  SurvivorInv'
<1>1. survivors \subseteq JobIds /\ TypeOK
  BY DEF TypeInv, TypeOK
<1>2. ASSUME NEW k \in survivors PROVE Over(k)'
  <2>1. Over(k) /\ nJobs' = nJobs /\ jobs'[k].origin = jobs[k].origin
    BY <1>1, HeldRows DEF SurvivorInv
  <2>2. ASSUME NEW i \in JobIds, jobs'[i].origin = jobs'[k].origin, Live(i)' PROVE FALSE
    <3>1. jobs[i].origin = jobs[k].origin
      BY <1>1, <2>1, <2>2, HeldRows
    <3>2. i # j
      BY <3>1 DEF TreeInUse
    <3>3. Live(i)
      BY <1>1, <2>2, <3>2, HeldRows DEF Live, Paused
    <3> QED
      BY <2>1, <3>1, <3>3 DEF Over, ChainLive
  <2> QED
    BY <2>1, <2>2 DEF Over, ChainLive
<1>3. ASSUME pc' \in JobPcs PROVE ~TreeInUse(jobs[run.job].origin)'
  BY <1>1, <1>3, HeldRows, SurvivorsElsewhere
<1> QED
  BY <1>2, <1>3 DEF SurvivorInv

(* The new row's chain has no survivor: it is a new one, or one that was *)
(* still waiting to be resumed.                                          *)
LEMMA SurvivorsCreated ==
  ASSUME TypeInv, RowsInv, SurvivorInv, Created PROVE SurvivorInv'
<1> USE CreatedRows
<1>1. survivors \subseteq JobIds /\ survivors' = survivors /\ pc = "create"
  BY DEF TypeInv, TypeOK, disk, Created, Create, At
<1>2. ASSUME NEW k \in survivors
      PROVE  /\ Over(k) /\ k # nJobs'
             /\ jobs'[k].origin = jobs[k].origin
             /\ jobs'[k].origin # jobs'[nJobs'].origin
  <2>1. Over(k) /\ k <= nJobs /\ k \in JobIds
    BY <1>1 DEF SurvivorInv, ResetPcs, Over
  <2>2. k # nJobs' /\ jobs[k].origin <= k /\ jobs[k].origin \in Nat
    BY <2>1 DEF RowsInv, LinksInv, Linked, JobIds
  <2>3. jobs'[k].origin = jobs[k].origin
    BY <2>1, <2>2
  <2>4. CASE run.from = 0
    BY <2>1, <2>2, <2>3, <2>4 DEF JobIds
  <2>5. CASE run.from # 0
    <3>1. Paused(run.from) /\ run.from \in JobIds
      BY <1>1, <2>5, RunFields, FixChainAssumption
         DEF RowsInv, ResumeInv, ResumePcs, TypeInv, TypeOK, JobIds
    <3> QED
      BY <2>1, <2>3, <2>5, <3>1 DEF Over, ChainLive, Live
  <2> QED
    BY <2>1, <2>2, <2>3, <2>4, <2>5
<1>3. ASSUME NEW k \in survivors PROVE Over(k)'
  <2>1. k <= nJobs'
    BY <1>1, <1>2 DEF Over, JobIds
  <2>2. ASSUME NEW i \in JobIds, jobs'[i].origin = jobs'[k].origin, Live(i)' PROVE FALSE
    <3>1. i # nJobs'
      BY <1>2, <2>2
    <3>2. Paused(i) /\ jobs[i].origin = jobs[k].origin
      BY <1>2, <2>2, <3>1, CreatedLive
    <3> QED
      BY <1>2, <3>2 DEF Over, ChainLive, Live
  <2> QED
    BY <2>1, <2>2 DEF Over, ChainLive
<1> QED
  BY <1>1, <1>2, <1>3 DEF SurvivorInv, TreeInUse

(* What is alive of a chain is one attempt, so when that one is killed the *)
(* chain is over.                                                          *)
LEMMA SurvivorsStuck ==
  ASSUME TypeInv, RowsInv, SurvivorInv, RequeueStuck PROVE SurvivorInv'
<1>1. /\ TypeOK /\ survivors \subseteq JobIds /\ survivors' = survivors
      /\ pc' = "stranded" /\ nJobs' = nJobs
  BY DEF TypeInv, TypeOK, RequeueStuck, disk, Goto
<1>2. ASSUME NEW k \in survivors PROVE Over(k)'
  <2>1. jobs'[k].origin = jobs[k].origin /\ k \in JobIds
    BY <1>1, StuckRows DEF Calm, CalmRow
  <2>2. CASE Over(k)
    BY <1>1, <2>1, <2>2, StuckRows, CalmOver
  <2>3. CASE jobs[k].state = "running"
    <3>1. k <= nJobs
      BY <2>1, <2>3 DEF RowsInv, LinksInv, Unused
    <3>2. ASSUME NEW i \in JobIds, jobs'[i].origin = jobs'[k].origin, Live(i)'
          PROVE  FALSE
      <4>1. Live(i) /\ jobs[i].origin = jobs[k].origin /\ jobs'[i].state # "running"
        BY <1>1, <2>1, <3>2, StuckRows, CalmLive DEF Calm, CalmRow
      <4>2. jobs[i].state # "running"
        BY <1>1, <3>2, <4>1 DEF RequeueStuck, Killed, TypeOK, Job, Live, Paused
      <4>3. Linked(i) /\ Linked(k)
        BY <2>1, <3>1, <4>1 DEF RowsInv, LinksInv, Unused, Live, Paused
      <4>4. jobs[i].finding = jobs[k].finding
        BY <4>1, <4>3 DEF Linked
      <4> QED
        BY <2>1, <2>3, <4>1, <4>2, <4>4 DEF RowsInv, OneLiveAttempt, Live
    <3> QED
      BY <1>1, <3>1, <3>2 DEF Over, ChainLive
  <2> QED
    BY <2>2, <2>3 DEF SurvivorInv
<1> QED
  BY <1>1, <1>2 DEF SurvivorInv, JobPcs

LEMMA SurvivorsInit == Init => SurvivorInv
BY DEF Init, SurvivorInv, JobPcs

(* After a claim failed the cycle ends, with every row as it was. *)
LEMMA SurvivorsFailed ==
  ASSUME TypeInv, SurvivorInv, FailClaimed, pc \notin ResetPcs PROVE SurvivorInv'
BY SameRows, SurvivorsCalm DEF FailClaimed, EndCycle, disk, JobPcs

LEMMA SurvivorsBetweenCycles ==
  ASSUME TypeInv, RowsInv, SurvivorInv, Startup \/ BetweenCycles PROVE SurvivorInv'
<1> USE DEF At, Goto, disk, JobPcs, ResetPcs
<1>1. TypeOK /\ survivors \subseteq JobIds
  BY DEF TypeInv, TypeOK
<1>2. CASE Boot \/ ReleaseTrees("boot_trees", "reconcile") \/ ReleaseTrees("trees", "pick")
  BY <1>2, SameRows, SurvivorsCalm DEF Boot, ReleaseTrees, db
<1>3. ASSUME NEW here, NEW next, RetireStranded(here, next),
             here \notin ResetPcs \/ next \in ResetPcs, next \notin JobPcs
      PROVE  SurvivorInv'
  <2>1. \A k \in survivors : jobs[k].state = "running" => jobs'[k].state = "running"
    BY <1>1, <1>3 DEF RetireStranded, Stranded, Paused
  <2> QED
    BY <1>1, <1>3, <2>1, StrandedRows, SurvivorsCalm DEF RetireStranded
<1>4. CASE SuspendOrphans
  <2>1. \A k \in survivors : ~Salvageable(k)
    BY DEF Salvageable, TreeInUse
  <2>2. \A k \in survivors : jobs'[k] = jobs[k]
    BY <1>1, <1>4, <2>1 DEF SuspendOrphans
  <2> QED
    BY <1>1, <1>4, <2>2, OrphanRows, SurvivorsCalm DEF SuspendOrphans
<1>5. CASE RetireStranded("boot_stranded", "boot_trees")
  BY <1>3, <1>5
<1>6. CASE RetireStranded("stranded", "trees")
  BY <1>3, <1>6
<1> QED
  BY <1>2, <1>4, <1>5, <1>6, SurvivorsStuck DEF Startup, BetweenCycles

LEMMA SurvivorsSelect ==
  ASSUME TypeInv, RowsInv, SurvivorInv, Select PROVE SurvivorInv'
<1> USE DEF At, Goto, disk, JobPcs, ResetPcs
<1>1. CASE NothingQueued \/ StartFresh \/ (\E f \in Findings : PickFix(f))
             \/ (\E j \in JobIds : ResumeChain(j))
  BY <1>1, SameRows, SurvivorsCalm
     DEF NothingQueued, EndCycle, StartFresh, PickFix, ResumeChain, Offered, db
<1>2. CASE CountGaveUp
  BY <1>2, SameRows, SurvivorsCalm DEF CountGaveUp
<1>3. ASSUME NEW j \in JobIds, WorkdirGone(j) PROVE SurvivorInv'
  <2>1. Calm
    BY <1>3, OfferedAlone, RetiredRow DEF WorkdirGone, TypeInv
  <2> QED
    BY <1>3, <2>1, SurvivorsCalm DEF WorkdirGone, Offered
<1>4. ASSUME NEW j \in JobIds, GiveUpChain(j) PROVE SurvivorInv'
  <2>1. /\ pc = "plan" /\ UNCHANGED <<nJobs, survivors>>
        /\ Paused(j) /\ jobs[j].state # "absent"
    BY <1>4, OfferedAlone DEF GiveUpChain, Offered
  <2>2. Calm
    BY <1>4, <2>1, RetiredRow, SameRows DEF GiveUpChain, TypeInv
  <2>3. CASE pc' = "start"
    BY <2>1, <2>2, <2>3, SurvivorsCalm
  <2>4. CASE pc' = "gaveup" /\ run' = [run EXCEPT !.job = j]
    <3>1. run'.job = j
      BY <2>4, SetJob, JobIdRange DEF TypeInv, TypeOK
    <3>2. \A k \in survivors : k \in JobIds /\ Over(k)
      BY <2>1 DEF SurvivorInv, TypeInv, TypeOK
    <3>3. ASSUME NEW k \in survivors
          PROVE  Over(k)' /\ jobs'[k].origin # jobs'[j].origin
      <4>1. jobs'[k].origin = jobs[k].origin /\ jobs'[j].origin = jobs[j].origin
        BY <2>2, <3>2 DEF Calm, CalmRow
      <4>2. jobs[k].origin # jobs[j].origin
        BY <2>1, <3>2 DEF Over, ChainLive, Live
      <4> QED
        BY <2>2, <3>2, <4>1, <4>2, CalmOver
    <3> QED
      BY <2>1, <3>1, <3>3 DEF SurvivorInv, TreeInUse
  <2> QED
    BY <1>4, <2>3, <2>4 DEF GiveUpChain
<1>5. CASE HoldGaveUp
  <2>1. run.f \in Findings /\ run.job \in JobIds /\ ~TreeInUse(jobs[run.job].origin)
    BY <1>5 DEF HoldGaveUp, TypeInv, Locals, FindingPcs, SurvivorInv
  <2>2. CASE BlockFixJob(run.f, run.job) /\ pc' = "pick"
    BY <1>5, <2>1, <2>2, SurvivorsHeld DEF HoldGaveUp
  <2>3. CASE UNCHANGED <<jobs, nJobs>> /\ pc' = "start"
    BY <1>5, <2>3, SameRows, SurvivorsCalm DEF HoldGaveUp
  <2> QED
    BY <1>5, <2>2, <2>3 DEF HoldGaveUp
<1> QED
  BY <1>1, <1>2, <1>3, <1>4, <1>5 DEF Select

LEMMA SurvivorsOpening ==
  ASSUME TypeInv, RowsInv, SurvivorInv, Opening PROVE SurvivorInv'
<1> USE DEF At, Goto, disk, JobPcs, ResetPcs
<1>1. CASE StartGranted \/ StartDenied \/ OpenResumed
  BY <1>1, SameRows, SurvivorsCalm DEF StartGranted, StartDenied, EndCycle, OpenResumed, db
<1>2. CASE Claim
  <2>1. pc' \notin JobPcs
    BY <1>2 DEF Claim, EndCycle
  <2> QED
    BY <1>2, <2>1, SameRows, SurvivorsCalm DEF Claim
<1>3. CASE Prepare
  <2>1. CASE FailClaimed
    BY <1>3, <2>1, SurvivorsFailed DEF Prepare
  <2>2. CASE EndCycle /\ BlockFixJob(run.f, run.from) /\ UNCHANGED disk
    <3>1. pc = "prepare" /\ run.from # 0 /\ run.f \in Findings
      BY <1>3 DEF Prepare, TypeInv, Locals, FindingPcs
    <3>2. run.from \in JobIds /\ survivors \subseteq JobIds
      BY <3>1, RunFields, FixChainAssumption DEF TypeInv, TypeOK, JobIds
    <3>3. ChainLive(jobs[run.from].origin)
      BY <3>1, <3>2 DEF RowsInv, ResumeInv, ResumePcs, ChainLive, Live
    <3>4. ~TreeInUse(jobs[run.from].origin)
      BY <3>1, <3>3 DEF SurvivorInv, TreeInUse, Over
    <3> QED
      BY <2>2, <3>1, <3>2, <3>4, SurvivorsHeld DEF EndCycle
  <2>3. CASE pc' = "create" /\ UNCHANGED <<db, ledger, survivors, bounds>>
    BY <1>3, <2>3, SameRows, SurvivorsCalm DEF Prepare, db
  <2> QED
    BY <1>3, <2>1, <2>2, <2>3 DEF Prepare
<1>4. CASE Create
  <2>1. CASE FailClaimed
    BY <1>4, <2>1, SurvivorsFailed DEF Create
  <2> QED
    BY <1>4, <2>1, SurvivorsCreated DEF Created
<1>5. CASE OpenFresh
  <2>1. (pc' = "work" /\ run' = run) \/ pc' = "reconcile"
    BY <1>5 DEF OpenFresh, EndCycle
  <2> QED
    BY <1>5, <2>1, SameRows, SurvivorsCalm DEF OpenFresh
<1>6. CASE TreeNotMade
  <2>1. Calm
    BY <1>6, OwnRow, UnmadeRows DEF TreeNotMade, OwnJobPcs, TypeInv
  <2>2. run'.job = run.job
    BY <1>6 DEF TreeNotMade, TypeInv, TypeOK, Run
  <2> QED
    BY <1>6, <2>1, <2>2, SurvivorsCalm DEF TreeNotMade
<1> QED
  BY <1>1, <1>2, <1>3, <1>4, <1>5, <1>6 DEF Opening

(* The hold of the job under way *)
LEMMA SurvivorsOwnHeld ==
  ASSUME TypeInv, RowsInv, SurvivorInv, pc \in OwnJobPcs, BlockFixJob(run.f, run.job),
         UNCHANGED survivors, pc' \in JobPcs => run'.job = run.job
  PROVE  SurvivorInv'
<1>1. pc \in JobPcs /\ pc \notin ResetPcs /\ run.f \in Findings /\ run.job \in JobIds
  BY OwnRow DEF JobPcs, OwnJobPcs, ResetPcs
<1> QED
  BY <1>1, SurvivorsHeld DEF SurvivorInv

LEMMA SurvivorsWorker ==
  ASSUME TypeInv, RowsInv, SurvivorInv, Worker PROVE SurvivorInv'
<1> USE DEF At, disk, JobPcs, ResetPcs
<1>1. ASSUME NEW j \in JobIds, WorkerSpends(j) \/ WorkerWrites(j) PROVE SurvivorInv'
  BY <1>1, SameRows, SurvivorsCalm DEF WorkerSpends, WorkerWrites, db
<1>2. ASSUME NEW end \in AllEnds, WorkerReturns(end) PROVE SurvivorInv'
  <2>1. run'.job = run.job
    BY <1>2, SetEnd DEF WorkerReturns, TypeInv, TypeOK
  <2> QED
    BY <1>2, <2>1, SameRows, SurvivorsCalm DEF WorkerReturns, db
<1>3. CASE WorkerNotRun
  <2>1. CASE FailClaimed
    BY <1>3, <2>1, SurvivorsFailed DEF WorkerNotRun
  <2> QED
    BY <1>3, <2>1, SurvivorsOwnHeld DEF WorkerNotRun, OwnJobPcs, EndCycle
<1> QED
  BY <1>1, <1>2, <1>3 DEF Worker

LEMMA SurvivorsSettling ==
  ASSUME TypeInv, RowsInv, SurvivorInv, Settling PROVE SurvivorInv'
<1> USE DEF At, Goto, disk, JobPcs, ResetPcs
<1>1. CASE Record
  <2>1. run'.job = run.job
    BY <1>1 DEF Record, TypeInv, TypeOK, Run
  <2> QED
    BY <1>1, <2>1, RecordRows, SurvivorsCalm DEF Record
<1>2. CASE Conclude
  <2>1. CASE FailClaimed
    BY <1>2, <2>1, SurvivorsFailed DEF Conclude
  <2>2. CASE ~FailClaimed
    <3>1. run'.job = run.job
      BY <1>2, <2>2 DEF Conclude, TypeInv, TypeOK, Run
    <3> QED
      BY <1>2, <2>2, <3>1, SameRows, SurvivorsCalm DEF Conclude, db
  <2> QED
    BY <2>1, <2>2
<1>3. CASE WriteBlocked \/ Hold
  <2>1. CASE FailClaimed
    BY <1>3, <2>1, SurvivorsFailed DEF WriteBlocked, Hold
  <2> QED
    BY <1>3, <2>1, SurvivorsOwnHeld DEF WriteBlocked, Hold, OwnJobPcs
<1>4. ASSUME NEW v, At("write"), Settle(v) PROVE SurvivorInv'
  BY <1>4, SameRows, SurvivorsCalm DEF Settle
<1>5. CASE WriteOther \/ Count
  BY <1>5, SameRows, SurvivorsCalm DEF WriteOther, Count, db
<1>6. CASE Clean \/ Close
  BY <1>6, SameRows, SurvivorsCalm DEF Clean, Close, EndCycle, db
<1>7. CASE Release
  <2>1. pc' \in JobPcs => run'.job = run.job
    BY <1>7 DEF Release, EndCycle
  <2> QED
    BY <1>7, <2>1, SameRows, SurvivorsCalm DEF Release
<1>8. CASE RetireConcluded
  <2>1. Calm
    BY <1>8, OwnRow, RetiredRow, SameRows DEF RetireConcluded, OwnJobPcs, TypeInv
  <2> QED
    BY <1>8, <2>1, SurvivorsCalm DEF RetireConcluded
<1> QED
  BY <1>1, <1>2, <1>3, <1>4, <1>5, <1>6, <1>7, <1>8
     DEF Settling, WriteDeclined, WriteShipped

LEMMA SurvivorsOthers ==
  ASSUME TypeInv, RowsInv, SurvivorInv, Operator \/ Environment PROVE SurvivorInv'
<1>1. CASE Operator
  BY <1>1, SameRows, SurvivorsCalm DEF Operator, Verdict, Unqueue, Answer, disk
<1>2. CASE Crash
  <2>1. /\ survivors' \subseteq survivors \cup (IF pc = "work" THEN {run.job} ELSE {})
        /\ pc' = "down" /\ UNCHANGED <<jobs, nJobs>>
    BY <1>2 DEF Crash, Workers, At, db
  <2>2. ASSUME NEW k \in survivors' PROVE Over(k)' \/ jobs'[k].state = "running"
    <3>1. Over(k) \/ jobs[k].state = "running"
      BY <2>1 DEF SurvivorInv, RowsInv, RunningInv
    <3>2. Over(k) => Over(k)'
      BY <2>1 DEF Over, ChainLive, Live, Paused, HasSuccessor
    <3> QED
      BY <2>1, <3>1, <3>2
  <2> QED
    BY <2>1, <2>2 DEF SurvivorInv, ResetPcs, JobPcs
<1>3. ASSUME NEW j \in JobIds, WorkerExits(j) \/ TreeLost(j) PROVE SurvivorInv'
  BY <1>3, SameRows, SurvivorsCalm DEF WorkerExits, TreeLost, db
<1> QED
  BY <1>1, <1>2, <1>3 DEF Environment

LEMMA SurvivorsStep ==
  ASSUME TypeInv, RowsInv, SurvivorInv, [Next]_vars PROVE SurvivorInv'
<1>1. CASE UNCHANGED vars
  BY <1>1, SameRows, SurvivorsCalm DEF vars, db, disk
<1> QED
  BY <1>1, SurvivorsBetweenCycles, SurvivorsSelect, SurvivorsOpening, SurvivorsWorker,
     SurvivorsSettling, SurvivorsOthers DEF Next

(* A worker that outlived its daemon is either still on a row the           *)
(* reconciliation has to look at, or its chain is over for good.            *)
THEOREM SurvivorsInvariant == Spec => []SurvivorInv
<1>1. TypeInv /\ RowsInv /\ SurvivorInv /\ [Next]_vars => SurvivorInv'
  BY SurvivorsStep
<1> QED
  BY <1>1, TypeInvariant, RowsInvariant, SurvivorsInit, PTL DEF Spec

(* No worker is started in a tree another worker is alive in, whatever died  *)
(* and was restarted in between: what the reconciliation leaves alone        *)
(* because its worker lives is killed by the pass that follows, and a chain  *)
(* with nothing alive is never resumed (orphan_work, tree_in_use).           *)
THEOREM TreesHaveOneWorker == Spec => []OneWorkerPerTree
<1>1. SurvivorInv => OneWorkerPerTree
  BY DEF SurvivorInv, OneWorkerPerTree, At, JobPcs
<1> QED
  BY <1>1, SurvivorsInvariant, PTL

-----------------------------------------------------------------------------
(* Trees: what is removed, and by whom *)

TreeKeptStep ==
  \A o \in JobIds :
    /\ tree[o].present /\ ~tree'[o].present
    => ~ChainLive(o)' \/ TreeLost(o)

LEMMA TreeSame == ASSUME UNCHANGED tree PROVE TreeKeptStep
BY DEF TreeKeptStep

(* One file of a tree is written or removed, the tree stays. *)
LEMMA TreeMarked ==
  ASSUME TypeOK, NEW o, NEW file \in {"blocked", "declined", "ready"}, NEW b,
         tree' = [tree EXCEPT ![o][file] = b]
  PROVE  TreeKeptStep
<1>1. ASSUME NEW t \in Tree PROVE [t EXCEPT ![file] = b].present = t.present
  BY DEF Tree
<1>2. tree \in [JobIds -> Tree]
  BY DEF TypeOK
<1>3. ASSUME NEW i \in JobIds PROVE tree'[i].present = tree[i].present
  <2>1. CASE i = o
    BY <1>1, <1>2, <2>1
  <2>2. CASE i # o
    BY <1>2, <2>2
  <2> QED
    BY <2>1, <2>2
<1> QED
  BY <1>3 DEF TreeKeptStep

(* The daemon removes trees of chains that are over only. *)
LEMMA TreeReleased ==
  ASSUME TypeOK, Calm, NEW S,
         \A o \in JobIds : tree'[o] = ReleaseIdle(S)[o] \/ tree'[o].present
  PROVE  TreeKeptStep
<1> SUFFICES ASSUME NEW o \in JobIds, tree[o].present, ~tree'[o].present
             PROVE  ~ChainLive(o)'
  BY DEF TreeKeptStep
<1>1. ~ChainLive(o)
  BY DEF ReleaseIdle
<1> QED
  BY <1>1, CalmChain

LEMMA TreeStep ==
  ASSUME TypeInv, RowsInv, [Next]_vars PROVE TreeKeptStep
<1> USE DEF At, Goto, disk
<1>1. TypeOK
  BY DEF TypeInv
<1>2. CASE ReleaseTrees("boot_trees", "reconcile") \/ ReleaseTrees("trees", "pick")
  BY <1>1, <1>2, SameRows, TreeReleased DEF ReleaseTrees, db
<1>3. CASE Prepare
  <2>1. tree' = tree \/ tree' = [tree EXCEPT ![jobs[run.from].origin]["blocked"] = FALSE]
    BY <1>3 DEF Prepare, FailClaimed
  <2> QED
    BY <1>1, <2>1, TreeSame, TreeMarked
<1>4. CASE OpenFresh
  <2>1. \A o \in JobIds : tree'[o] = Released[o] \/ tree'[o].present
    BY <1>4 DEF OpenFresh, Released, ReleaseIdle, FreshTree, NoTree
  <2> QED
    BY <1>1, <1>4, <2>1, SameRows, TreeReleased DEF OpenFresh, Released
<1>5. CASE TreeNotMade
  <2>1. Calm
    BY <1>1, <1>5, OwnRow, UnmadeRows DEF TreeNotMade, OwnJobPcs
  <2> QED
    BY <1>1, <1>5, <2>1, TreeReleased DEF TreeNotMade, Released
<1>6. CASE Clean
  <2>1. tree' = tree \/ tree' = [tree EXCEPT ![jobs[run.job].origin]["blocked"] = FALSE]
    BY <1>6 DEF Clean
  <2> QED
    BY <1>1, <2>1, TreeSame, TreeMarked
<1>7. CASE Close
  BY <1>1, <1>7, SameRows, TreeReleased DEF Close, db
<1>8. ASSUME NEW j \in JobIds, WorkerWrites(j) PROVE TreeKeptStep
  BY <1>1, <1>8, TreeMarked DEF WorkerWrites
<1>9. ASSUME NEW j \in JobIds, TreeLost(j) PROVE TreeKeptStep
  <2>1. ASSUME NEW o \in JobIds, tree[o].present, ~tree'[o].present PROVE o = j
    BY <1>1, <1>9, <2>1 DEF TreeLost, TypeOK
  <2> QED
    BY <1>9, <2>1 DEF TreeKeptStep
<1>10. ASSUME FailClaimed PROVE UNCHANGED tree
  BY <1>10 DEF FailClaimed
<1>11. CASE Startup \/ BetweenCycles
  BY <1>2, <1>11, TreeSame
     DEF Startup, BetweenCycles, Boot, RetireStranded, SuspendOrphans, RequeueStuck
<1>12. CASE Select
  BY <1>12, TreeSame
     DEF Select, PickFix, NothingQueued, WorkdirGone, ResumeChain, GiveUpChain,
         StartFresh, CountGaveUp, HoldGaveUp
<1>13. CASE Opening
  BY <1>3, <1>4, <1>5, <1>10, <1>13, TreeSame
     DEF Opening, StartGranted, StartDenied, Claim, Create, OpenResumed
<1>14. CASE Worker
  BY <1>8, <1>14, TreeSame DEF Worker, WorkerSpends, WorkerReturns, WorkerNotRun
<1>15. CASE Settling
  BY <1>6, <1>7, <1>10, <1>15, TreeSame
     DEF Settling, Record, Conclude, WriteBlocked, WriteDeclined, WriteShipped, Settle,
         WriteOther, Count, Hold, Release, RetireConcluded
<1>16. CASE Operator
  BY <1>16, TreeSame DEF Operator, Verdict, Unqueue, Answer
<1>17. CASE Environment
  BY <1>9, <1>17, TreeSame DEF Environment, Crash, WorkerExits
<1>18. CASE UNCHANGED vars
  BY <1>18, TreeSame DEF vars
<1> QED
  BY <1>11, <1>12, <1>13, <1>14, <1>15, <1>16, <1>17, <1>18 DEF Next

(* The daemon never removes the tree of a chain that has an attempt running  *)
(* or waiting to be resumed, at any step of any interleaving; only someone   *)
(* by hand does (release_if_idle, sweep_chains, open_workspace).             *)
THEOREM LiveTreesAreKept == Spec => LiveTreeKept
<1>1. TypeInv /\ RowsInv /\ [Next]_vars => [TreeKeptStep]_vars
  BY TreeStep
<1>2. LiveTreeKept <=> [][TreeKeptStep]_vars
  BY PTL DEF LiveTreeKept, TreeKeptStep
<1> QED
  BY <1>1, <1>2, TypeInvariant, RowsInvariant, PTL DEF Spec

-----------------------------------------------------------------------------
(* Resumable attempts: which steps retire them *)

CheckpointKeptStep ==
  \A j \in JobIds :
    /\ Paused(j) /\ jobs'[j].state = "killed"
    /\ pc \notin {"plan", "create", "retire"}
    => status[jobs[j].finding] \notin {"queued", "fixing", "blocked"}

LEMMA PausedSame == ASSUME UNCHANGED jobs PROVE CheckpointKeptStep
BY DEF CheckpointKeptStep, Paused

LEMMA PausedHeld ==
  ASSUME TypeOK, NEW f \in Findings, NEW j \in JobIds, BlockFixJob(f, j)
  PROVE  CheckpointKeptStep
BY HeldRows DEF CheckpointKeptStep, Paused

LEMMA PausedStep ==
  ASSUME TypeInv, RowsInv, [Next]_vars PROVE CheckpointKeptStep
<1> USE DEF At, Goto, db
<1>1. TypeOK
  BY DEF TypeInv
<1>2. ASSUME NEW here, NEW next, RetireStranded(here, next) PROVE CheckpointKeptStep
  BY <1>1, <1>2 DEF RetireStranded, CheckpointKeptStep, Stranded, Paused, TypeOK
<1>3. CASE SuspendOrphans
  BY <1>1, <1>3 DEF SuspendOrphans, CheckpointKeptStep, Salvageable, Paused, TypeOK
<1>4. CASE RequeueStuck
  BY <1>4 DEF RequeueStuck, CheckpointKeptStep, Paused
<1>5. CASE HoldGaveUp
  <2>1. run.f \in Findings /\ run.job \in JobIds
    BY <1>5 DEF HoldGaveUp, TypeInv, Locals, FindingPcs, JobPcs
  <2> QED
    BY <1>1, <1>5, <2>1, PausedHeld, PausedSame DEF HoldGaveUp
<1>6. ASSUME FailClaimed PROVE CheckpointKeptStep
  BY <1>6, PausedSame DEF FailClaimed
<1>7. CASE Prepare
  <2>1. run.f \in Findings /\ run.from \in JobIds
    BY <1>7, RunFields, FixChainAssumption
       DEF Prepare, TypeInv, TypeOK, Locals, FindingPcs, JobIds
  <2> QED
    BY <1>1, <1>6, <1>7, <2>1, PausedHeld, PausedSame DEF Prepare
<1>8. CASE TreeNotMade
  <2>1. \A k \in JobIds : jobs'[k] = jobs[k] \/ jobs'[k].state = "failed"
    BY <1>1, <1>8 DEF TreeNotMade, TypeOK, Job
  <2> QED
    BY <2>1 DEF CheckpointKeptStep, Paused
<1>9. CASE Record
  <2>1. jobs[run.job].state = "running"
    BY <1>9 DEF Record, RowsInv, RunningInv
  <2> QED
    BY <1>9, <2>1, RecordRows DEF CheckpointKeptStep, Paused
<1>10. ASSUME BlockFixJob(run.f, run.job), pc \in OwnJobPcs PROVE CheckpointKeptStep
  BY <1>1, <1>10, OwnRow, PausedHeld
<1>11. CASE pc \in {"plan", "create", "retire"}
  BY <1>11 DEF CheckpointKeptStep
<1>12. CASE Startup \/ BetweenCycles
  BY <1>2, <1>3, <1>4, <1>12, PausedSame DEF Startup, BetweenCycles, Boot, ReleaseTrees
<1>13. CASE Select
  BY <1>5, <1>11, <1>13, PausedSame
     DEF Select, PickFix, NothingQueued, WorkdirGone, ResumeChain, GiveUpChain, Offered,
         StartFresh, CountGaveUp
<1>14. CASE Opening
  BY <1>6, <1>7, <1>8, <1>11, <1>14, PausedSame
     DEF Opening, StartGranted, StartDenied, Claim, Create, OpenResumed, OpenFresh
<1>15. CASE Worker
  BY <1>6, <1>10, <1>15, PausedSame
     DEF Worker, WorkerSpends, WorkerWrites, WorkerReturns, WorkerNotRun, OwnJobPcs
<1>16. CASE Settling
  BY <1>6, <1>9, <1>10, <1>11, <1>16, PausedSame
     DEF Settling, Conclude, WriteBlocked, WriteDeclined, WriteShipped, Settle,
         WriteOther, Clean, Count, Hold, Release, RetireConcluded, Close, OwnJobPcs
<1>17. CASE Operator \/ Environment
  BY <1>17, PausedSame
     DEF Operator, Verdict, Unqueue, Answer, Environment, Crash, WorkerExits, TreeLost
<1>18. CASE UNCHANGED vars
  BY <1>18, PausedSame DEF vars
<1> QED
  BY <1>12, <1>13, <1>14, <1>15, <1>16, <1>17, <1>18 DEF Next

(* A resumable attempt is retired by a pass, a restart or an outcome only    *)
(* when its finding is neither queued, nor claimed, nor held: a death        *)
(* between the claim and the row of the resume loses no work                 *)
(* (retire_stranded_suspensions, reconcile_orphaned_jobs, record_job).       *)
THEOREM CheckpointsAreKept == Spec => CheckpointKept
<1>1. TypeInv /\ RowsInv /\ [Next]_vars => [CheckpointKeptStep]_vars
  BY PausedStep
<1>2. CheckpointKept <=> [][CheckpointKeptStep]_vars
  BY PTL DEF CheckpointKept, CheckpointKeptStep
<1> QED
  BY <1>1, <1>2, TypeInvariant, RowsInvariant, PTL DEF Spec

=============================================================================
