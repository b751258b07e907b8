------------------------------ MODULE FixChain ------------------------------
(***************************************************************************)
(* The fix tier of the scheduler: how a queued finding is claimed, worked  *)
(* on by a chain of resumable jobs in one working tree, and settled, while *)
(* an operator gives verdicts and the daemon may die between any two       *)
(* steps (hunter-rs/src/scheduler.rs, store.rs, workspace.rs, daemon.rs).  *)
(*                                                                         *)
(* One scheduler task runs one job at a time; pc is where it is.  A step   *)
(* is what happens between two awaits whose order matters: one store       *)
(* transaction, one change of the tree, one answer of the worker.  The     *)
(* operator's HTTP handlers run between any two of them.                   *)
(***************************************************************************)
EXTENDS Naturals, FiniteSets

CONSTANTS
  Findings,       \* the findings a fix can be queued for
  NoFinding,      \* what a row or a local that names no finding holds
  WorkFailures,   \* the texts a worker's unfinished fix is counted under
  WorkerEnds,     \* the ways a worker run can end, a subset of AllEnds
  MaxAttempts,    \* MAX_RESUME_ATTEMPTS
  MaxSameFailure, \* MAX_CONSECUTIVE_SAME_FAILURE
  MaxJobs,        \* bound: job rows ever created
  MaxCrashes,     \* bound: times the daemon dies
  MaxFaults,      \* bound: store writes and system calls that fail
  MaxVerdicts     \* bound: operator requests

AllEnds == {"done", "cap", "wallclock", "exited", "unmetered", "unavailable",
            "error"}

ASSUME FixChainAssumption ==
  /\ NoFinding \notin Findings
  /\ WorkFailures \cap {"none", "tree", "gaveup"} = {}
  /\ WorkerEnds \subseteq AllEnds
  /\ MaxAttempts \in Nat /\ MaxSameFailure \in Nat /\ MaxJobs \in Nat
  /\ MaxCrashes \in Nat /\ MaxFaults \in Nat /\ MaxVerdicts \in Nat

VARIABLES
  status,     \* findings.status
  streak,     \* findings.fix_attempts and last_fix_failure
  jobs,       \* the jobs table, fix rows
  nJobs,      \* the last job id handed out
  tree,       \* jobs/<origin>/tree of every chain
  ledger,     \* the jobs with metered work of their own in the transcript
  survivors,  \* the jobs whose worker outlived its daemon and still runs
  pc,         \* where the scheduler task is
  run,        \* its locals: the candidate, the job, the outcome so far
  crashes, faults, verdicts   \* what the bounds count

db     == <<status, streak, jobs, nJobs>>
disk   == <<tree, ledger, survivors>>
bounds == <<crashes, faults, verdicts>>
vars   == <<db, disk, pc, run, bounds>>

-----------------------------------------------------------------------------
(* Rows, trees and locals *)

JobIds   == 1..MaxJobs
Status   == {"new", "queued", "fixing", "blocked", "pr_open", "superseded",
             "rejected", "wontfix", "note"}
Failures == WorkFailures \cup {"none", "tree", "gaveup"}
States   == {"running", "done", "failed", "killed", "suspended"}
Reasons  == {"none", "cap", "give-up", "other"}
Outcomes == {"none", "blocked", "reblocked", "declined", "shipped",
             "suspended", "failed", "unmade"}

Job == [state   : States \cup {"absent"},
        finding : Findings \cup {NoFinding},
        from    : 0..MaxJobs,   \* resumed_from, 0 for NULL
        origin  : 0..MaxJobs,   \* resume_origin_job: the chain's first job
        session : BOOLEAN,      \* session_file IS NOT NULL
        blocker : BOOLEAN,      \* blocker IS NOT NULL
        reason  : Reasons,      \* killed_reason
        tokens  : BOOLEAN]      \* tokens_new > 0

NoJob == [state |-> "absent", finding |-> NoFinding, from |-> 0, origin |-> 0,
          session |-> FALSE, blocker |-> FALSE, reason |-> "none",
          tokens |-> FALSE]

Tree == [present  : BOOLEAN,
         blocked  : BOOLEAN,    \* BLOCKED.md
         declined : BOOLEAN,    \* NOT-A-BUG.md or DECLINED.md
         ready    : BOOLEAN]    \* commits and PR-DESCRIPTION.md

NoTree    == [present |-> FALSE, blocked |-> FALSE, declined |-> FALSE,
              ready |-> FALSE]
FreshTree == [NoTree EXCEPT !.present = TRUE]

Run == [f       : Findings \cup {NoFinding},
        from    : 0..MaxJobs,         \* the job a resume continues
        job     : 0..MaxJobs,
        old     : SUBSET JobIds,      \* CreatedJob.superseded
        held    : BOOLEAN,            \* previous_blocker
        end     : AllEnds \cup {"none"},
        state   : States \cup {"absent"},
        outcome : Outcomes,
        failure : Failures]

NoRun == [f |-> NoFinding, from |-> 0, job |-> 0, old |-> {}, held |-> FALSE,
          end |-> "none", state |-> "absent", outcome |-> "none",
          failure |-> "none"]

Pcs == {"down", "boot_stranded", "boot_trees", "reconcile", "requeue",
        "stranded", "trees", "pick", "plan", "gaveup", "gaveup_hold",
        "start", "claim", "prepare", "create", "open", "work", "record",
        "conclude", "write", "clean", "count", "hold", "release", "retire",
        "close"}

TypeOK ==
  /\ status \in [Findings -> Status]
  /\ streak \in [Findings -> [n : Nat, why : Failures]]
  /\ jobs \in [JobIds -> Job]
  /\ nJobs \in 0..MaxJobs
  /\ tree \in [JobIds -> Tree]
  /\ ledger \subseteq JobIds
  /\ survivors \subseteq JobIds
  /\ pc \in Pcs
  /\ run \in Run
  /\ crashes \in Nat /\ faults \in Nat /\ verdicts \in Nat

-----------------------------------------------------------------------------
(* What the store's queries read *)

HasSuccessor(j) == \E k \in JobIds : jobs[k].from = j

(* Suspended and not continued: what every query means by a suspension. *)
Paused(j) == jobs[j].state = "suspended" /\ ~HasSuccessor(j)

Live(j) == jobs[j].state = "running" \/ Paused(j)

(* chain_status(o).live > 0 *)
ChainLive(o) == \E j \in JobIds : jobs[j].origin = o /\ Live(j)

Resumable(f) ==
  {j \in JobIds : /\ Paused(j) /\ jobs[j].session
                  /\ jobs[j].finding = f /\ status[f] = "queued"}

(* mutants: a status a suspension waits at is forgotten, or one too many *)
StrandedUnlessClaimed(j) ==
  Paused(j) /\ status[jobs[j].finding] \notin {"queued", "blocked"}
StrandedUnlessHeld(j) ==
  Paused(j) /\ status[jobs[j].finding] \notin {"queued", "fixing"}
StrandedUnlessRejected(j) ==
  /\ Paused(j)
  /\ status[jobs[j].finding] \notin {"queued", "blocked", "fixing", "rejected"}

(* Not offered again and not held: retire_stranded_suspensions' rows. *)
Stranded(j) ==
  Paused(j) /\ status[jobs[j].finding] \notin {"queued", "blocked", "fixing"}

(* resume_chain_stats(j).attempts, over the fix rows of j's chain *)
Attempts(j) ==
  Cardinality({k \in JobIds :
                 /\ jobs[k].origin = jobs[j].origin
                 /\ \/ jobs[k].from = 0
                    \/ jobs[k].reason = "cap"
                    \/ jobs[k].tokens})

(* mutant: a cold start leaves an attempt that could be resumed as it is *)
SupersedableNone(f) == {}

(* What create_job supersedes when it inserts a cold fix of f. *)
Supersedable(f) == {j \in JobIds : Paused(j) /\ jobs[j].finding = f}

(* tree_in_use: a live process has its working directory in the tree. *)
TreeInUse(o) == \E k \in survivors : jobs[k].origin = o

(* A transcript is in session/, which all attempts of a chain share. *)
Transcript(j) == \E k \in ledger : jobs[k].origin = jobs[j].origin

(* job_state, of a run with or without metered work of its own *)
JobState(end, metered) ==
  CASE end = "cap"                      -> "suspended"
    [] end = "wallclock" /\ metered     -> "suspended"
    [] end = "wallclock" /\ ~metered    -> "killed"
    [] end = "unmetered"                -> "killed"
    [] end = "unavailable"              -> "failed"
    [] end = "done"                     -> "done"
    [] end = "exited" /\ metered        -> "suspended"
    [] OTHER                            -> "failed"

(* Ended by the store, with a reason of its own: retire_job, orphan_job *)
Killed(row) == [row EXCEPT !.state = "killed", !.reason = "other"]

Retire(js, j, state, reason) ==
  [js EXCEPT ![j].state = state,
             ![j].reason = IF reason = "none" THEN @ ELSE reason]

(* mutant: the job table is not read *)
ReleaseBusy(S) == [o \in JobIds |-> IF o \in S THEN NoTree ELSE tree[o]]

ReleaseIdle(S) ==
  [o \in JobIds |-> IF o \in S /\ ~ChainLive(o) THEN NoTree ELSE tree[o]]

-----------------------------------------------------------------------------
(* Control *)

At(p)    == pc = p
Goto(p)  == pc' = p /\ UNCHANGED run
EndCycle == pc' = "reconcile" /\ run' = NoRun
Fault    == faults < MaxFaults /\ faults' = faults + 1
           /\ UNCHANGED <<crashes, verdicts>>

(* mutant: the finding goes back to the queue whatever it is now *)
UnclaimAlways(f) == [status EXCEPT ![f] = "queued"]

(* release_claim: only while the fix still owns the finding *)
Unclaim(f) == [status EXCEPT ![f] = IF @ = "fixing" THEN "queued" ELSE @]

(* mutant: the row keeps the state it had *)
BlockFindingOnly(f, j) ==
  /\ jobs' = [jobs EXCEPT ![j].blocker = TRUE]
  /\ status' = [status EXCEPT ![f] = "blocked"]
  /\ streak' = [streak EXCEPT ![f] = [n |-> 0, why |-> "none"]]
  /\ UNCHANGED nJobs

(* COALESCE of its own transcript and the one of the attempt it continues *)
HasSession(j) ==
  jobs[j].session \/ (jobs[j].from # 0 /\ jobs[jobs[j].from].session)

(* block_fix_job: the row and the finding in one transaction *)
BlockFixJob(f, j) ==
  /\ jobs' = [jobs EXCEPT
       ![j].state = "suspended", ![j].blocker = TRUE,
       ![j].session = HasSession(j)]
  /\ status' = [status EXCEPT ![f] = "blocked"]
  /\ streak' = [streak EXCEPT ![f] = [n |-> 0, why |-> "none"]]
  /\ UNCHANGED nJobs

ClearStreak(f) == streak' = [streak EXCEPT ![f] = [n |-> 0, why |-> "none"]]

(* mutant: every failure starts a new streak *)
CountedAnew(f, why) == [n |-> 1, why |-> why]

(* mutant: a failure is filed under how the worker ended *)
CountedByEnd(f, why) == [n |-> streak[f].n + 1, why |-> run.end]

Counted(f, why) ==
  [n |-> IF streak[f].why = why THEN streak[f].n + 1 ELSE 1, why |-> why]

Init ==
  /\ status = [f \in Findings |-> "new"]
  /\ streak = [f \in Findings |-> [n |-> 0, why |-> "none"]]
  /\ jobs = [j \in JobIds |-> NoJob]
  /\ nJobs = 0
  /\ tree = [o \in JobIds |-> NoTree]
  /\ ledger = {} /\ survivors = {}
  /\ pc = "reconcile"
  /\ run = NoRun
  /\ crashes = 0 /\ faults = 0 /\ verdicts = 0

-----------------------------------------------------------------------------
(* Startup and the passes before every cycle *)

Boot == At("down") /\ Goto("boot_stranded") /\ UNCHANGED <<db, disk, bounds>>

(* sweep, first half: one transaction over the jobs table *)
RetireStranded(here, next) ==
  /\ At(here) /\ Goto(next)
  /\ jobs' = [j \in JobIds |->
               IF jobs[j].finding \in Findings /\ Stranded(j)
                 THEN Killed(jobs[j]) ELSE jobs[j]]
  /\ UNCHANGED <<status, streak, nJobs, disk, bounds>>

(* sweep, second half: every chain with no live attempt loses its tree *)
ReleaseTrees(here, next) ==
  /\ At(here) /\ Goto(next)
  /\ tree' = ReleaseIdle(JobIds)
  /\ UNCHANGED <<db, ledger, survivors, bounds>>

(* reconcile_and_log, first half: orphans that did work are suspended *)
(* mutant: a worker that outlived its daemon is not looked for *)
SalvageableInUse(j) == jobs[j].state = "running" /\ j \in ledger

Salvageable(j) ==
  jobs[j].state = "running" /\ j \in ledger /\ ~TreeInUse(jobs[j].origin)

SuspendOrphans ==
  /\ At("reconcile") /\ Goto("requeue")
  /\ jobs' = [j \in JobIds |->
               IF Salvageable(j)
                 THEN [jobs[j] EXCEPT !.state = "suspended", !.reason = "other",
                                      !.session = TRUE, !.tokens = TRUE]
                 ELSE jobs[j]]
  /\ UNCHANGED <<status, streak, nJobs, disk, bounds>>

(* mutant: one of the two tables is not reconciled *)
RequeueJobsOnly ==
  /\ At("requeue") /\ Goto("stranded")
  /\ jobs' = [j \in JobIds |->
               IF jobs[j].state = "running" THEN Killed(jobs[j]) ELSE jobs[j]]
  /\ UNCHANGED <<status, streak, nJobs, disk, bounds>>

(* reconcile_orphaned_jobs *)
RequeueStuck ==
  /\ At("requeue") /\ Goto("stranded")
  /\ status' = [f \in Findings |->
                 IF status[f] = "fixing" THEN "queued" ELSE status[f]]
  /\ jobs' = [j \in JobIds |->
               IF jobs[j].state = "running" THEN Killed(jobs[j]) ELSE jobs[j]]
  /\ UNCHANGED <<streak, nJobs, disk, bounds>>

-----------------------------------------------------------------------------
(* Selection: the fix tier of select, finding_pick and resume_plan *)

(* A budget override lets any queued finding jump the queue. *)
PickFix(f) ==
  /\ At("pick") /\ status[f] = "queued"
  /\ pc' = "plan" /\ run' = [NoRun EXCEPT !.f = f]
  /\ UNCHANGED <<db, disk, bounds>>

NothingQueued ==
  /\ At("pick") /\ \A f \in Findings : status[f] # "queued"
  /\ EndCycle
  /\ UNCHANGED <<db, disk, bounds>>

(* The one list_resumable_jobs offers first for the picked finding *)
Offered(j) ==
  /\ At("plan") /\ j \in Resumable(run.f)
  /\ \A k \in Resumable(run.f) : k <= j

WorkdirGone(j) ==
  /\ Offered(j) /\ ~tree[jobs[j].origin].present
  /\ jobs' = Retire(jobs, j, "killed", "other")
  /\ UNCHANGED <<status, streak, nJobs, pc, run, disk, bounds>>

(* The two ceilings.  What an attempt costs is not modelled, so from two *)
(* attempts on a chain may or may not be too costly.                     *)
TooMany(j)        == Attempts(j) >= MaxAttempts
MayCostTooMuch(j) == Attempts(j) >= 2

(* A chain with a blocker is an operator's requeue: no ceiling applies. *)
ResumeChain(j) ==
  /\ Offered(j) /\ tree[jobs[j].origin].present
  /\ ~TooMany(j) \/ jobs[j].blocker
  /\ pc' = "start" /\ run' = [run EXCEPT !.from = j]
  /\ UNCHANGED <<db, disk, bounds>>

GiveUpChain(j) ==
  /\ Offered(j) /\ tree[jobs[j].origin].present
  /\ TooMany(j) \/ MayCostTooMuch(j)
  /\ ~jobs[j].blocker
  /\ \/ /\ jobs' = Retire(jobs, j, "failed", "give-up")
        /\ pc' = "gaveup" /\ run' = [run EXCEPT !.job = j]
        /\ UNCHANGED bounds
     \/ (* the retirement did not land: a fresh start, uncounted *)
        /\ Fault /\ Goto("start") /\ UNCHANGED jobs
  /\ UNCHANGED <<status, streak, nJobs, disk>>

StartFresh ==
  /\ At("plan") /\ Resumable(run.f) = {}
  /\ Goto("start")
  /\ UNCHANGED <<db, disk, bounds>>

(* count_given_up_chain: the finding is read at selection, not again here *)
CountGaveUp ==
  /\ At("gaveup")
  /\ \/ /\ streak' = [streak EXCEPT ![run.f] = Counted(run.f, "gaveup")]
        /\ IF Counted(run.f, "gaveup").n < MaxSameFailure
             THEN pc' = "start" /\ run' = [run EXCEPT !.job = 0]
             ELSE Goto("gaveup_hold")
        /\ UNCHANGED bounds
     \/ /\ Fault /\ UNCHANGED streak
        /\ pc' = "start" /\ run' = [run EXCEPT !.job = 0]
  /\ UNCHANGED <<status, jobs, nJobs, disk>>

HoldGaveUp ==
  /\ At("gaveup_hold")
  /\ \/ /\ BlockFixJob(run.f, run.job)
        /\ pc' = "pick" /\ run' = NoRun
        /\ UNCHANGED bounds
     \/ /\ Fault
        /\ status' = Unclaim(run.f) /\ UNCHANGED <<streak, jobs, nJobs>>
        /\ pc' = "start" /\ run' = [run EXCEPT !.job = 0]
  /\ UNCHANGED disk

-----------------------------------------------------------------------------
(* start_fix: everything before the worker runs *)

(* run_fix reads the finding again; the budget gate may deny it. *)
StartGranted ==
  /\ At("start") /\ status[run.f] = "queued" /\ nJobs < MaxJobs
  /\ Goto("claim")
  /\ UNCHANGED <<db, disk, bounds>>

StartDenied ==
  /\ At("start") /\ EndCycle
  /\ UNCHANGED <<db, disk, bounds>>

Claim ==
  /\ At("claim")
  /\ IF status[run.f] = "queued"
       THEN /\ status' = [status EXCEPT ![run.f] = "fixing"]
            /\ Goto(IF run.from # 0 THEN "prepare" ELSE "create")
       ELSE EndCycle /\ UNCHANGED status
  /\ UNCHANGED <<streak, jobs, nJobs, disk, bounds>>

(* A step after the claim fails: the claim is released, if that write does *)
(* not fail as well, and the cycle ends.                                   *)
FailClaimed ==
  /\ Fault /\ EndCycle
  /\ status' \in {status, Unclaim(run.f)}
  /\ UNCHANGED <<streak, jobs, nJobs, disk>>

(* prepare_blocked_resume *)
Prepare ==
  LET held == jobs[run.from].blocker
      o    == jobs[run.from].origin
  IN /\ At("prepare")
     /\ \/ /\ pc' = "create" /\ run' = [run EXCEPT !.held = held]
           /\ tree' = IF held THEN [tree EXCEPT ![o].blocked = FALSE] ELSE tree
           /\ UNCHANGED <<db, ledger, survivors, bounds>>
        \/ (* the stale report cannot be removed *)
           /\ held /\ tree[o].blocked
           /\ Fault /\ EndCycle
           /\ BlockFixJob(run.f, run.from) /\ UNCHANGED disk
        \/ FailClaimed

(* create_job, with the supersession in the same transaction *)
Create ==
  /\ At("create")
  /\ \/ LET j    == nJobs + 1
            cold == run.from = 0
            old  == IF cold THEN Supersedable(run.f) ELSE {}
        IN /\ nJobs' = j
           /\ jobs' = [k \in JobIds |->
                CASE k = j -> [NoJob EXCEPT
                       !.state = "running", !.finding = run.f, !.from = run.from,
                       !.origin = IF cold THEN j ELSE jobs[run.from].origin,
                       !.blocker = ~cold /\ jobs[run.from].blocker]
                  [] k \in old -> Killed(jobs[k])
                  [] OTHER -> jobs[k]]
           /\ run' = [run EXCEPT !.job = j, !.old = old]
           /\ pc' = "open"
           /\ UNCHANGED <<status, streak, disk, bounds>>
     \/ FailClaimed

(* What open_workspace has released before it adds a cold chain's tree. *)
Released == ReleaseIdle({jobs[k].origin : k \in run.old})
BranchFree ==
  \A o \in JobIds : jobs[o].finding = run.f => ~Released[o].present

OpenResumed ==
  /\ At("open") /\ run.from # 0 /\ Goto("work")
  /\ UNCHANGED <<db, disk, bounds>>

OpenFresh ==
  /\ At("open") /\ run.from = 0 /\ BranchFree
  /\ tree' = [Released EXCEPT ![run.job] = FreshTree]
  /\ \/ Goto("work") /\ UNCHANGED <<status, bounds>>
     \/ (* set_pinned_sha fails: the tree is made, the row stays running *)
        Fault /\ EndCycle /\ status' \in {status, Unclaim(run.f)}
  /\ UNCHANGED <<streak, jobs, nJobs, ledger, survivors>>

(* workspace::create fails, always when the branch is checked out elsewhere *)
TreeNotMade ==
  /\ At("open") /\ run.from = 0
  /\ IF BranchFree THEN Fault ELSE UNCHANGED bounds
  /\ tree' = Released
  /\ jobs' = [jobs EXCEPT ![run.job].state = "failed"]
  /\ pc' = "count"
  /\ run' = [run EXCEPT !.outcome = "unmade", !.failure = "tree"]
  /\ UNCHANGED <<status, streak, nJobs, ledger, survivors>>

-----------------------------------------------------------------------------
(* The worker, a child process of the scheduler or one that outlived it *)

Workers == survivors \cup (IF At("work") THEN {run.job} ELSE {})

(* A metered answer: the transcript in session/ now holds spend of j's own. *)
WorkerSpends(j) ==
  /\ j \in Workers /\ j \notin ledger
  /\ ledger' = ledger \cup {j}
  /\ UNCHANGED <<db, tree, survivors, pc, run, bounds>>

WorkerWrites(j) ==
  LET o == jobs[j].origin
  IN /\ j \in Workers \cap ledger /\ tree[o].present
     /\ \E file \in {"blocked", "declined", "ready"} :
          /\ ~tree[o][file]
          /\ tree' = [tree EXCEPT ![o][file] = TRUE]
     /\ UNCHANGED <<db, ledger, survivors, pc, run, bounds>>

(* Backend::run returns.  A cap is only ever reached by metering, a worker  *)
(* that leaves no ledger is `unmetered` however it exits, and a resume      *)
(* whose transcript is gone spawns nothing.                                 *)
WorkerReturns(end) ==
  /\ At("work") /\ end \in WorkerEnds \ {"error"}
  /\ end \in {"done", "cap"} => run.job \in ledger
  /\ end = "unmetered" => run.job \notin ledger
  /\ end = "unavailable" => run.from # 0 /\ run.job \notin ledger
  /\ pc' = "record" /\ run' = [run EXCEPT !.end = end]
  /\ UNCHANGED <<db, disk, bounds>>

(* The prompt cannot be built, or Backend::run itself is an error: the row *)
(* stays running, and a held chain is held again in the second case only.  *)
WorkerNotRun ==
  /\ At("work") /\ run.job \notin ledger /\ "error" \in WorkerEnds
  /\ \/ FailClaimed
     \/ run.held /\ Fault /\ EndCycle /\ BlockFixJob(run.f, run.job)
  /\ UNCHANGED disk

-----------------------------------------------------------------------------
(* record_job, conclude_fix *)

Record ==
  LET j     == run.job
      spent == j \in ledger
      state == JobState(run.end, spent)
      row   == [jobs EXCEPT
                 ![j].state = state, ![j].tokens = spent,
                 ![j].session = run.end # "unavailable" /\ Transcript(j),
                 ![j].reason = CASE run.end = "cap" -> "cap"
                                 [] run.end \in {"done", "exited"} -> "none"
                                 [] OTHER -> "other"]
  IN /\ At("record")
     /\ pc' = "conclude"
     /\ \/ /\ jobs' = IF run.end = "unavailable"
                      THEN [row EXCEPT ![run.from].state = "killed"] ELSE row
           /\ run' = [run EXCEPT !.state = state]
           /\ UNCHANGED bounds
        \/ (* the outcome is not recorded: the row stays running *)
           /\ Fault /\ run' = [run EXCEPT !.state = "failed"] /\ UNCHANGED jobs
     /\ UNCHANGED <<status, streak, nJobs, disk>>

(* What conclude_fix makes of the tree, with the failure it counts.  Pushing *)
(* a finished branch and opening its PR may fail like any other attempt.     *)
Conclusions ==
  LET t == tree[jobs[run.job].origin]
      nothing ==
        IF run.state = "suspended"
          THEN {<<"suspended", "none">>}
          ELSE {"failed"} \X WorkFailures
  IN CASE t.declined -> {<<"declined", "none">>}
       [] ~t.declined /\ t.blocked -> {<<"blocked", "none">>}
       [] ~t.declined /\ ~t.blocked /\ run.state # "done" /\ run.held ->
            {<<"reblocked", "none">>}
       [] OTHER -> nothing \cup (IF t.ready THEN {<<"shipped", "none">>} ELSE {})

Conclude ==
  /\ At("conclude")
  /\ \/ /\ \E c \in Conclusions :
             run' = [run EXCEPT !.outcome = c[1], !.failure = c[2]]
        /\ pc' = "write"
        /\ UNCHANGED <<db, disk, bounds>>
     \/ (* the worker's report cannot be read *)
        /\ \/ tree[jobs[run.job].origin].declined
           \/ tree[jobs[run.job].origin].blocked
        /\ FailClaimed

-----------------------------------------------------------------------------
(* record_fix_outcome *)

WriteBlocked ==
  /\ At("write") /\ run.outcome \in {"blocked", "reblocked"}
  /\ \/ /\ BlockFixJob(run.f, run.job)
        /\ Goto(IF run.outcome = "blocked" THEN "clean" ELSE "close")
        /\ UNCHANGED <<disk, bounds>>
     \/ FailClaimed

(* The verdicts ClosureClass::status and an unclassified decline can give. *)
DeclineVerdicts == {"superseded", "rejected", "wontfix", "new"}

(* Both writes go on past a failure: a verdict that does not land leaves *)
(* the claim, which the release then returns to queued.                  *)
Settle(verdict) ==
  /\ \/ status' = [status EXCEPT ![run.f] = verdict] /\ UNCHANGED bounds
     \/ Fault /\ UNCHANGED status
  /\ ClearStreak(run.f)
  /\ Goto("release")
  /\ UNCHANGED <<jobs, nJobs, disk>>

WriteDeclined ==
  At("write") /\ run.outcome = "declined" /\ \E v \in DeclineVerdicts : Settle(v)

WriteShipped == At("write") /\ run.outcome = "shipped" /\ Settle("pr_open")

WriteOther ==
  /\ At("write") /\ run.outcome \in {"suspended", "failed"}
  /\ Goto(IF run.outcome = "failed" THEN "count" ELSE "release")
  /\ UNCHANGED <<db, disk, bounds>>

(* hold_blocked_fix removes the recorded report from the tree *)
Clean ==
  /\ At("clean")
  /\ \/ /\ tree' = [tree EXCEPT ![jobs[run.job].origin].blocked = FALSE]
        /\ Goto("close") /\ UNCHANGED bounds
     \/ Fault /\ EndCycle /\ UNCHANGED tree
  /\ UNCHANGED <<db, ledger, survivors>>

(* record_fix_failure: record_fix_attempt, then the hold *)
Count ==
  /\ At("count")
  /\ \/ /\ streak' = [streak EXCEPT ![run.f] = Counted(run.f, run.failure)]
        /\ Goto(IF Counted(run.f, run.failure).n < MaxSameFailure
                  THEN "release" ELSE "hold")
        /\ UNCHANGED bounds
     \/ Fault /\ Goto("release") /\ UNCHANGED streak
  /\ UNCHANGED <<status, jobs, nJobs, disk>>

Hold ==
  /\ At("hold")
  /\ \/ BlockFixJob(run.f, run.job) /\ Goto("release") /\ UNCHANGED <<disk, bounds>>
     \/ FailClaimed

(* release_claim: a write that fails is logged, and the cycle goes on; the *)
(* finding stays `fixing` until the next reconciliation.                   *)
Release ==
  /\ At("release")
  /\ \/ status' = Unclaim(run.f) /\ UNCHANGED bounds
     \/ Fault /\ UNCHANGED status
  /\ CASE run.outcome = "unmade" -> EndCycle
       [] run.state = "suspended" /\ run.outcome \in {"declined", "shipped"} ->
            Goto("retire")
       [] OTHER -> Goto("close")
  /\ UNCHANGED <<streak, jobs, nJobs, disk>>

(* retire_concluded *)
RetireConcluded ==
  /\ At("retire") /\ Goto("close")
  /\ \/ jobs' = Retire(jobs, run.job, "killed", "none") /\ UNCHANGED bounds
     \/ Fault /\ UNCHANGED jobs
  /\ UNCHANGED <<status, streak, nJobs, disk>>

(* close_workspace *)
Close ==
  /\ At("close") /\ EndCycle
  /\ tree' = ReleaseIdle({jobs[run.job].origin})
  /\ UNCHANGED <<db, ledger, survivors, bounds>>

-----------------------------------------------------------------------------
(* The operator's handlers, each a compare-and-set on the status it read *)

(* mutant: a verdict is also taken while a job owns the finding *)
AwaitingClaimed == {"new", "blocked", "note", "fixing"}
Awaiting == {"new", "blocked", "note"}
Given    == {"queued", "rejected", "wontfix", "note"}

Answer(f, from, to) ==
  /\ ~At("down") /\ verdicts < MaxVerdicts /\ verdicts' = verdicts + 1
  /\ status[f] = from /\ from # to
  /\ status' = [status EXCEPT ![f] = to]
  /\ UNCHANGED <<streak, jobs, nJobs, disk, pc, run, crashes, faults>>

Verdict(f) == \E from \in Awaiting, to \in Given : Answer(f, from, to)
Unqueue(f) == Answer(f, "queued", "new")

-----------------------------------------------------------------------------
(* The environment *)

(* The daemon dies between two steps.  Its worker dies with it under the *)
(* systemd unit, and lives on when the daemon was started by hand.       *)
Crash ==
  /\ ~At("down") /\ crashes < MaxCrashes /\ crashes' = crashes + 1
  /\ pc' = "down" /\ run' = NoRun
  /\ survivors' \in {survivors, Workers}
  /\ UNCHANGED <<db, tree, ledger, faults, verdicts>>

WorkerExits(j) ==
  /\ j \in survivors
  /\ survivors' = survivors \ {j}
  /\ UNCHANGED <<db, tree, ledger, pc, run, bounds>>

(* Somebody removes a tree by hand; never under a live worker. *)
TreeLost(o) ==
  /\ tree[o].present /\ \A j \in Workers : jobs[j].origin # o
  /\ Fault
  /\ tree' = [tree EXCEPT ![o] = NoTree]
  /\ UNCHANGED <<db, ledger, survivors, pc, run>>

-----------------------------------------------------------------------------
Startup == Boot \/ RetireStranded("boot_stranded", "boot_trees")
                \/ ReleaseTrees("boot_trees", "reconcile")

BetweenCycles == SuspendOrphans \/ RequeueStuck
                   \/ RetireStranded("stranded", "trees")
                   \/ ReleaseTrees("trees", "pick")

Select == (\E f \in Findings : PickFix(f)) \/ NothingQueued
            \/ (\E j \in JobIds : WorkdirGone(j) \/ ResumeChain(j) \/ GiveUpChain(j))
            \/ StartFresh \/ CountGaveUp \/ HoldGaveUp

Opening == StartGranted \/ StartDenied \/ Claim \/ Prepare \/ Create
             \/ OpenResumed \/ OpenFresh \/ TreeNotMade

Settling == Record \/ Conclude \/ WriteBlocked \/ WriteDeclined \/ WriteShipped
              \/ WriteOther \/ Clean \/ Count \/ Hold \/ Release
              \/ RetireConcluded \/ Close

Worker == \/ \E j \in JobIds : WorkerSpends(j) \/ WorkerWrites(j)
          \/ \E end \in AllEnds : WorkerReturns(end)
          \/ WorkerNotRun

Operator == \E f \in Findings : Verdict(f) \/ Unqueue(f)

Environment == Crash \/ \E j \in JobIds : WorkerExits(j) \/ TreeLost(j)

Next == Startup \/ BetweenCycles \/ Select \/ Opening \/ Worker
          \/ Settling \/ Operator \/ Environment

Spec == Init /\ [][Next]_vars

(* The daemon is one loop under a supervisor that restarts it, a worker is  *)
(* stopped at its wall-clock limit, and the budget window refills, so a fix *)
(* asked for again and again is granted.  Nobody is fair beyond that.       *)
Fairness ==
  /\ WF_vars(Startup \/ BetweenCycles \/ Select \/ Opening \/ Settling)
  /\ WF_vars(\E end \in AllEnds : WorkerReturns(end))
  /\ SF_vars(StartGranted)

LiveSpec == Spec /\ Fairness

-----------------------------------------------------------------------------
(* Safety *)

ClaimedPcs == {"prepare", "create", "open", "work", "record", "conclude",
               "write", "count", "hold"}

(* A finding is `fixing` only while the scheduler works on it, or until the  *)
(* reconciliation that follows the death, the abandoned cycle or the failed  *)
(* release that left it so: no finding is stranded where neither tier nor    *)
(* operator can reach it (claim_in_progress, release_claim,                  *)
(* reconcile_orphaned_jobs).                                                 *)
NoStrandedClaim ==
  \A f \in Findings : status[f] = "fixing" =>
    \/ f = run.f /\ pc \in ClaimedPcs \cup {"release", "retire", "close"}
    \/ pc \in {"down", "boot_stranded", "boot_trees", "reconcile", "requeue"}

(* From the claim until its outcome is written a fix owns its finding: no    *)
(* handler and no pass takes it away, so the unguarded writes of             *)
(* record_fix_outcome never overwrite anybody's status.                      *)
ClaimKept == pc \in ClaimedPcs => status[run.f] = "fixing"

(* No finding ever has two attempts that are running or waiting to be        *)
(* resumed: the supersession in create_job and the links keep one chain.     *)
OneLiveAttempt ==
  \A j, k \in JobIds :
    /\ Live(j) /\ Live(k)
    /\ jobs[j].finding = jobs[k].finding
    => j = k

(* A blocked finding has exactly the checkpoint block_fix_job promises: one  *)
(* suspended attempt nothing continues, carrying the report.                 *)
BlockedHasCheckpoint ==
  \A f \in Findings : status[f] = "blocked" =>
    \E j \in JobIds : jobs[j].finding = f /\ Paused(j) /\ jobs[j].blocker

(* No worker is ever started in a tree another worker is still alive in,     *)
(* whatever the daemon did in between (orphan_work, tree_in_use).            *)
OneWorkerPerTree ==
  At("work") => ~TreeInUse(jobs[run.job].origin)

(* The daemon never removes the tree of a chain with a running or resumable  *)
(* attempt (release_if_idle, sweep_chains); only someone by hand does.       *)
LiveTreeKept ==
  [][\A o \in JobIds :
       /\ tree[o].present /\ ~tree'[o].present
       => ~ChainLive(o)' \/ TreeLost(o)]_vars

(* A pass between cycles or at startup retires a resumable attempt only when *)
(* its finding has left the statuses a fix can be resumed or held at, also   *)
(* when the daemon died between the claim and the row of the resume.         *)
CheckpointKept ==
  [][\A j \in JobIds :
       /\ Paused(j) /\ jobs'[j].state = "killed"
       /\ pc \notin {"plan", "create", "retire"}
       => status[jobs[j].finding] \notin {"queued", "fixing", "blocked"}]_vars

(* Once the operator, or an outcome, took a finding out of the fix tier only *)
(* the operator puts it back.  The exception is the hold of a given-up       *)
(* chain: block_fix_job writes without comparing the status it was read at.  *)
OperatorVerdictKept ==
  [][\A f \in Findings :
       /\ status[f] \notin {"queued", "fixing"} /\ status'[f] # status[f]
       => verdicts' > verdicts \/ pc = "gaveup_hold"]_vars

-----------------------------------------------------------------------------
(* Liveness *)

(* A queued fix leaves the tier: shipped, declined, held or taken back. *)
QueuedFixEnds ==
  \A f \in Findings :
    status[f] = "queued" ~> status[f] \notin {"queued", "fixing"}

(* The tree of a finding that is settled is reclaimed, unless the finding is *)
(* queued again, however the daemon died on the way (sweep).                 *)
Settled(f) == status[f] \in {"pr_open", "superseded", "rejected", "wontfix"}

TreesReclaimed ==
  \A f \in Findings, o \in JobIds :
    (tree[o].present /\ jobs[o].finding = f /\ Settled(f))
      ~> ~(tree[o].present /\ Settled(f))

-----------------------------------------------------------------------------
(* What the comments and the documentation say *)

(* open_workspace on the branch of the finding: "any chain still using it    *)
(* was superseded and had its tree released before this one was created".    *)
FixBranchIsFree == At("open") /\ run.from = 0 => BranchFree

-----------------------------------------------------------------------------
(* What the tier promises, and what of it the rows amount to *)

Work(f) ==
  IF \E j \in JobIds : jobs[j].finding = f /\ jobs[j].state = "running"
    THEN "running"
    ELSE IF \E j \in JobIds : jobs[j].finding = f /\ Paused(j) THEN "saved" ELSE "none"

Promise == INSTANCE FixTier WITH work <- [f \in Findings |-> Work(f)]

(* Seen from the finding, all the steps of an attempt, of its failures and   *)
(* of a daemon's death and restart are the few FixTier has: a claim is taken *)
(* from the queue only, when no attempt of any finding is left open; a hold  *)
(* always has work to go on with, and that work is never thrown away         *)
(* (start_fix, record_fix_outcome, block_fix_job, reconcile_and_log, sweep). *)
FixesAsPromised == Promise!Spec

=============================================================================
