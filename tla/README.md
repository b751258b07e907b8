# hunter-rs in TLA+

A verification project for the bug hunter daemon (`src/hunter-rs`): TLA+ models
of its scheduler and store, TLC configurations that check them on small
instances, and TLAPS proofs for every value of the constants.

Paths in this file are relative to `src/`; line numbers are those of the commit
under `src/`.

## 1. The system

One daemon process runs one scheduler loop, an HTTP server for the dashboard,
and a capacity prober. All durable state is in one SQLite database, in the
clones and working trees under the work root, and in the PRs on the forge. The
scheduler picks one job at a time by strict priority, runs an LLM worker as a
child process in a git worktree, and records what it did. Findings move through
a lifecycle (`new`, `queued`, `fixing`, `blocked`, `pr_open`, `merged`,
`closed`, verdicts), PRs through theirs, repositories are hunted in rotation.

| Component | State it keeps | Operations | Interacts with |
|---|---|---|---|
| Fix tier and resume chains (`scheduler.rs`, `store.rs`, `workspace.rs`) | `findings.status`, the fix streak, `jobs` rows with their links, `jobs/<origin>/tree` and `session/` | select, resume or give up, claim, create, open, run, record, conclude, hold, release, retire | operator handlers on the same rows, worker through the tree, the sweeps |
| Daemon loop and startup (`daemon.rs`, `main.rs`) | scheduler state row, pause flag, wake permit, shutdown latch | sweep, reconcile, cycle, sleep | signals, server (`Notify`, pause flag) |
| Operator API (`server.rs`) | none of its own | verdict, unqueue, requeue, budget override, notes, repos, pause, re-hunt | the store, concurrently with the scheduler |
| Worker harness (`backends/omp_scavenge/harness.rs`, `facade.rs`) | child process, its transcript, metering | run, cap, wall clock, kill | tree, ledger, provider |
| PR lifecycle (`scheduler.rs`, `forge.rs`) | `pr_state`, `findings.pr_url`, harvest streak | ship, sync_prs, engage, withdraw, harvest, hand-off | forge, reviewers, fix tier |
| Recheck tier (`scheduler.rs`) | `findings` in `rechecking`, its streak | claim, resume, classify | same chain machinery as fix |
| Hunt and full re-hunt (`scheduler.rs`, `store.rs`) | watermark per repo, `full_hunt_requested_at`, `_attempted` | cold and incremental hunts, settling a request | API, rotation, ingest |
| Repository deletion (`server.rs`, `store.rs`) | `repos.deleted_at`, the directory, the notes lock | soft delete, reap, append notes | jobs being created, the hunt in progress |
| Budget gate (`scheduler.rs`, `facade.rs`, `provider.rs`, `capacity.rs`) | window readings, history of spend | anticipate, reserve, ramp | every job start |
| Rotation (`scheduler.rs`) | last scan per repo | next hunt or scan | hunts, dep updates |
| Dependency updates (`dep_scan.rs`) | queued `dep_update` findings | scan, hand over | fix tier |
| Ingest, suppression (`ingest.rs`, `suppression.rs`) | fingerprints, verdict anchors | file or suppress reports | hunts, harvests |
| Sessions (`auth.rs`) | users, sessions | login, expiry | server |
| Forge clients, configuration, playbooks, migrations, dashboard | – | external commands, text, start-up, client | – |

### What is hard, and what makes each part correct

* **Crashes anywhere.** A claim, the row of the attempt, the tree, the worker's
  report, the outcome and the release are separate writes; the daemon can die
  between any two, and its worker can live on. Correct means: no finding is left
  `fixing`, no row is left `running`, no checkpoint or tree is thrown away that a
  later attempt needs, and no two workers share a tree.
* **The operator acts between any two steps.** Verdicts and unqueues compare the
  status they read; outcomes are written without comparing. Correct means the
  claim really excludes them.
* **Partial failure.** A database write, a push, a comment, a removal fails after
  earlier ones landed. Correct means that the next cycle reaches the same end.
* **Chains.** A resume links a new row to its predecessor; queries decide by the
  links what is live, resumable, superseded, stranded or held. Correct means one
  live attempt per finding and one checkpoint per hold.
* **Ends.** Streaks, ceilings, attention flags and harvest stamps are what stops
  the scheduler from doing the same thing for ever.
* **Time.** Budget windows, wall clocks, wake-ups, retries after sleep.

`PROJECT.json` lists these as hazards, each at the line where it bites.
`hunter-rs/WORK-MODEL.md` names some of them as known problems.

## 2. Plan

| # | Module | What | State |
|---|---|---|---|
| 1 | `FixChain` | fix tier, chains, trees, sweeps, reconciliation, verdicts, crashes | done |
| 1a | `FixTier` | what the fix tier promises of a finding, without rows and trees; `FixChain` implements it (`FixesAsPromised`) | done |
| 1p | `FixChainProofs`, `FixChainRows` | typing and every safety property of `FixChain` | done |
| 1q | `FixTierProofs` | `FixChain` implements `FixTier` | done |
| 2 | `PRLifecycle` | ship, sync, engage, withdraw, hand-off, harvest, with the forge as environment | done |
| 2p | `PRLifecycleProofs` | typing and every safety property of `PRLifecycle` | done |
| 3 | `Recheck` | the recheck tier: request, chains, verdict file, settling, streak, override | done |
| 4, 5 | `Hunts` | order of the repositories, clone, watermark, full re-hunt requests and the hunts that settle them; soft delete, reap, notes lock, job creation against a deleted repository | done |
| 4p | `HuntsProofs` | typing and every safety property of `Hunts` | done |
| 6 | `DaemonLoop` | pause, wake permit, sleep, shutdown, overdrive, the walk of the budget gate over the windows | done |
| 7 | `DepUpdates` | scans of dependencies, filing, retiring, handing over of queued updates | done |
| 3p, 6p, 7p | `RecheckProofs`, `DaemonLoopProofs`, `DepUpdatesProofs` | typing and every safety property of the three | done |
| 8 | reservations, anchors, sessions | arithmetic of the ramps over bounded inputs; verdict anchors against moving code | planned |

Recursion is avoided in every module proofs are about; parameters are constants
with named assumptions; the actions are one per store transaction or change of
a tree.

## 3. FixChain

One scheduler task runs one job at a time; `pc` says between which two steps it
is, `run` holds its locals. A step is one transaction, one change of the tree or
one answer of the worker: what lies between two awaits whose order matters. The
operator's handlers and the environment interleave with every step.

| Variable | Code |
|---|---|
| `status`, `streak` | `findings.status`; `fix_attempts` and `last_fix_failure` |
| `jobs`, `nJobs` | rows of `jobs` with kind fix; `resumed_from` is `from`, the first job of the chain (`resume_origin_job`) is `origin` |
| `tree` | `jobs/<origin>/tree`: present, and the report files and commits a worker left |
| `ledger` | jobs that have metered answers in the transcript of `session/` |
| `survivors` | workers whose daemon died; `tree_in_use` finds them by working directory |
| `run` | candidate, predecessor, job row, superseded rows, previous blocker, how the run ended, outcome |

| Step | Code |
|---|---|
| `Boot`, `RetireStranded`, `ReleaseTrees` | `run_daemon` startup, `workspace::sweep`: `retire_stranded_suspensions`, then `sweep_chains`; also the sweep of every cycle |
| `SuspendOrphans`, `RequeueStuck` | `reconcile_and_log`: orphans with work in their ledger are suspended, then `reconcile_orphaned_jobs` |
| `PickFix` … `HoldGaveUp` | `select`, `finding_pick`, `resume_plan`, `count_given_up_chain` |
| `StartGranted` … `TreeNotMade` | `start_fix`, `prepare_blocked_resume`, `create_job`, `open_workspace` |
| `WorkerSpends`, `WorkerWrites`, `WorkerReturns`, `WorkerNotRun` | the worker, `Backend::run`, and what fails before it |
| `Record` … `Close` | `record_job`, `conclude_fix`, `record_fix_outcome`, `retire_concluded`, `close_workspace` |
| `Verdict`, `Unqueue` | the two handlers, each a compare-and-set on the status it read |
| `Crash`, `WorkerExits`, `TreeLost` | the environment |

Abstracted: what an attempt costs (from two attempts on, a chain may or may not
be over the token ceiling), the order of the queue (any queued finding may be
picked, as a budget override allows), prompts, pushes and their errors (a failed
push is one of the failures of a finished attempt), the other job kinds. A
finding at `pr_open` has left the tier: merging and closing belong to
`PRLifecycle`.

### Runs

| Run | What it shows |
|---|---|
| `fix_one` | one finding, every way a worker can end, one crash, one fault, three operator requests, three rows; `FixChain` implements `FixTier` |
| `fix_two` | two findings, four rows and a fault: two chains can be given up and the second give-up holds the finding (`HoldGaveUp`); work on one never supersedes the other's attempt or takes its checkpoint; findings are interchangeable, so symmetry |
| `fix_live` | liveness with workers that end an attempt for good |
| `fix_branch` | a statement of a comment that the code does not keep; see section 9 |

Bounds: `MaxAttempts` and `MaxSameFailure` are 2 where the code has 4 and 3: the
smallest values at which a chain has a first and a last attempt and a streak a
first and a last count. Three rows give a chain of three or a given-up chain and
a fresh start; four, two given-up chains. One crash and one fault can fall
between any two steps; a second of each adds repetitions. `MaxVerdicts` bounds
the operator: three requests queue a finding, take it back and queue it again.
The scheduler stops by itself at no state, so deadlock is checked everywhere.

### What the properties say

* `NoStrandedClaim`, `ClaimKept`: the claim is exclusive while it lasts, and is
  undone however the attempt ends; a release that cannot be written is only
  logged, and the reconciliation before the next cycle undoes the claim.
* `OneLiveAttempt`: supersession and links leave one running or resumable
  attempt per finding.
* `BlockedHasCheckpoint`: a held finding has a suspended row for *Resume fix* to
  continue. The row need not have a transcript or a tree: a hold after a tree that
  was not made has neither.
* `OneWorkerPerTree`: also when a worker outlives its daemon.
* `LiveTreeKept`, `CheckpointKept`: sweeps, supersession and releases throw away
  no tree and no attempt that can still be resumed.
* `OperatorVerdictKept`: once out of the tier only the operator brings a finding
  back.
* `QueuedFixEnds`, `TreesReclaimed`: a queued fix leaves the tier; trees of
  settled findings are reclaimed.
* `FixesAsPromised`: seen from the finding, `FixChain` does what `FixTier` allows
  and nothing else.

### FixTier

`FixTier` has two variables, a finding's status and its work (`running`, `saved`
or none), and ten steps: a decision of the operator, a claim, the start and the
end of an attempt, the outcome, the return to the queue, the hold, the loss of
saved work, the drop of an attempt whose conclusion could not be written, and the
reconciliation. Its guards are the promise: a claim is taken from the queue only
and while no attempt of any finding is open; a hold saves the work in the same
step; saved work of a finding that is held is never thrown away, and of one that
is being worked on only together with its conclusion (`Drop`, one finding at a
time). `Promise` maps `FixChain` to it: `status` is itself, and
`Work(f)` is read off the job rows (a running row; else a suspended one nothing
continues). Every other step of `FixChain`, each of the two halves of a write
that the daemon may die between included, is a stutter. `Hold` has no guard on the
status, as `block_fix_job` has none: that is what a given-up chain's hold relies
on (see the first of the hazards without a property).

### Fairness

`LiveSpec` assumes weak fairness of the scheduler's own steps (one loop in one
process under a supervisor that restarts it), weak fairness of the worker's
return (`run_worker` kills it at its wall-clock limit), and strong fairness of
`StartGranted`: the budget gate denies again and again while the window is used
up, and the window refills. The operator, crashes, faults and the exit of a
surviving worker are not fair. `QueuedFixEnds` is checked for workers that end
for good (`FinalEnds`): with suspending ends the streak labels can alternate
between a give-up and an unmade tree (finding 1 below), so nothing would end it.

## 4. PRLifecycle

What happens to a finding once its fix ships. The forge is the environment: a
reviewer may comment, push, change the verdict of the review or the checks,
merge, close or reopen between any two steps of the scheduler, which sees the PR
only when it syncs, engages or pushes.

| Variable | Code |
|---|---|
| `status` | `findings.status`; `settled` stands for every final status |
| `row` | the finding's `pr_state` row: number, state, head, latest activity, engaged mark, flag, fingerprint and what was addressed, harvest stamp and streak |
| `paused` | the suspended engage or harvest chain: its kind, attempts, the head its tree was made at |
| `forge` | the finding's newest PR: state, head, reviewers' commits, time of the latest comment |
| `reviewed` | history, read by no action's guard: the PRs whose harvest ended |

| Step | Code |
|---|---|
| `Sweep` | reconciliation and sweep before the cycle |
| `SyncOpen`, `SyncMergedFinding`, `SyncMergedRow`, `SyncClosedRow`, `SyncClosedFinding` | `sync_prs`, one step per write; a write that fails is logged and the next one is made, except where the code returns |
| `StartFix` … `Shipped` | the end of a fix: `ship_pr` forces the branch without a lease (`ShipPush`), then makes a PR or takes the open one of the branch over (`CreatePR`); then `set_finding_pr_open` |
| `StartEngage` … `Mark` | `start_engage`, `push_and_reply` (push under a lease on the pinned head), `record_engage` |
| `Withdraw` … `WithdrawnFinding` | `close_pr` (comment, then close), `withdraw_pr`, `continue_into_harvest` |
| `StartHarvest` … `GiveUpPR` | `run_harvest`, `record_closed_harvest`, `record_harvest_failure` |

Time stamps and heads are small numbers; a comment of the daemon's own counts as
activity, since its account may push. The static reasons for attention (changes
requested, conflict, failing checks) are one Boolean, and so is their
fingerprint. The view and the fetch at the start of an engage are one step.

| Run | What it shows |
|---|---|
| `pr_one` | two PRs of one finding, every way a worker can end, two things reviewers do, one fault, one crash, one operator request |
| `pr_live` | attention, ends of PRs and harvests, with engages that answer or withdraw, harvests that pause or fail in two ways, and a crash |

Bounds: a second PR is what a stamp can be confused with; three heads are the
first, the daemon's and a reviewer's, or the ones of two ships with a reviewer's
between them (`pr_live` has two); `MaxAttempts` 1 and `MaxSameFailure` 2
(4 and 3 in the code) give a pause, a given-up chain and a counted failure before
the last. `MaxHead` and `MaxClock` also end what a worker may push and say: a
worker that pushes a new failing head for ever would be engaged for ever, and
the code has no counter against that.

* `StampIsForItsPR`, `HarvestedOnce`: a harvest stamp is neither inherited by the
  next PR nor lost by its own, also when a PR is reopened and ends again.
* `ClosedIsRecorded`: a `closed` finding is one `list_pending_harvest` finds.
* `ReviewersCommitsKept`: while a finding is `pr_open` nothing deletes a reviewer's
  commit, however old the tree an engage pushes from. It says nothing of a finding
  that is `fixing` again: `ship_pr` pushes with plain `--force`
  (`scheduler.rs:3694`, as `hunter/future.md:613-616` has it for every push but the
  engage's). When the PR exists although the finding does not have it (the daemon
  died or a write failed before `set_finding_pr_open`), or a closed PR was reopened
  while its finding is fixed again, that push drops what reviewers have pushed. The
  model has the step.
* `OperatorVerdictKept`: neither sync nor a running harvest overwrites a verdict
  (a theorem; no run checks it).
* `AttentionEnds`, `EndIsNoticed`, `PendingEnds`: flags, ends and pending
  harvests do not stay. `PendingEnds` is restricted to harvests whose failures are
  in the end all alike (`FailsAlike`). The streak counts identical keys (`Keys`: a
  worker that failed, one that was killed, no `CLOSE-REASON.json`, an invalid one,
  a view or a diff that does not load, a chain that was given up), and another key
  starts it anew, so a harvest that fails in alternating ways is retried for ever.
  Without the restriction TLC finds that behaviour.

Fairness: weak for the scheduler as a whole (one supervised loop, workers have a
wall-clock limit) and strong for starting on a given finding: attention and
pending harvests rank before fixes and scans and are taken oldest first
(`pick_next`), and the budget window refills. Reviewers, the operator, faults and
crashes are not fair.

## 5. Hunts

The last tier of the scheduler: the rotation of the repositories. It is where a
hunt is picked, cloned, scoped and concluded, and where a deleted repository's
files are reclaimed before the next cycle. The HTTP handlers (`request_rehunt`,
`update_repo`, `delete_repo`, `add_repo_note`) interleave with every step; only
the reapers, `delete_repo`'s flagging and `add_repo_note` exclude each other, by
the `repo_notes` mutex (`LockFree`).

| Variable | Code |
|---|---|
| `repo` | a row of `repos`: live, flagged (`deleted_at`) or dropped; watermark; whether the scan interval and the re-hunt interval have passed; request and attempted request; whether a job references it |
| `ahead` | the order of `last_hunt_at`, the name between repositories that were never hunted: by repository, those before it |
| `disk` | `repos/repo-<id>`: absent, being cloned, a clone; whether there is a notes file |
| `chain` | the repository's newest chain of hunt jobs: state, attempts, pinned commit, `full_history`, `full_hunt_request`; the range its first prompt named |
| `pc`, `job`, `todo`, `reaper`, `noting` | the cycle, the locals of `run_hunt`, the flagged rows still to reap, `reap_repo` as the cycle and as the handler run it, the note being appended |
| `fresh`, `wanted`, `swept`, `reviewed` | history, read by no guard: a request no hunt has read, the tip when the operator asked last, how far finished full hunts went, what finished hunts reviewed |

| Step | Code |
|---|---|
| `StartCycle`, `ReapFlagged`, `RemoveDir` … `DropRow`, `RemovalFails` | `reconcile_and_log`, `reap_deleted_repos`, `reap_repo` |
| `GiveUp`, `Resume`, `Pick`, `PickOther` | `pick_resume`, `resume_plan`, the rotation of `select` |
| `ReadRow`, `Sync` … `FetchFails` | `run_repo_job`, `sync_repo`, `fetch_tip` |
| `Skip`, `Scope`, `Granted`, `Denied`, `Create`, `Refused`, `Mark` | `run_hunt` up to the job: nothing new, the diff range, the gate, `create_job`, scope and request on the job |
| `Launch`, `TreeNotMade`, `RunBreaks`, `Worker…` | `open_workspace`, `Backend::run`, `record_job`, ingest |
| `SetLastHunt`, `SetLastFull`, `Settle` | the three writes of a hunt that finished; `Settle` includes the bump of `run_cycle_inner` |
| `Ask` … `AppendNote` | the handlers |
| `Push`, `ScanFallsDue`, `FullFallsDue`, `Crash` | other committers, time, the death of the process |

Abstracted: a cycle that runs a finding's job or another kind of scan is a
stutter, so what is said of the order of repositories is said of cycles that reach
the hunts. Commits of a default branch are numbered as they land and a first
hunt's bounded range is taken to start before commit 1 (it may leave older
commits out on purpose). Where the code measures the range of a first hunt
("full history" or bounded), and whether a chain costs too much to be resumed
again, either answer is possible. Several suspended chains are resumed in any
order. Left out: failing database writes, a chain whose tree is gone, a directory
that is somebody else's clone.

| Run | What it shows |
|---|---|
| `hunts_one` | one repository, two requests (the clock may not have moved between them), a push, a crash, failures of git and of the file system, pausing, notes and a deletion at any step |
| `hunts_live` | two repositories, hunts that fail, suspend, are denied or are asked for, and a crash |

Bounds: two requests and two commits are what one can be taken for the other;
`MaxTries` 2 (the code has 4) has a first and a last attempt; one crash can fall
between any two steps. `hunts_live` needs two repositories, for one to starve the
other, and no failing fetches: a fetch that fails every time settles no request.

* `ReviewedToMark`: a watermark vouches for every commit below it, though the
  branch moves while a chain is paused and a full re-hunt clears the mark.
* `RequestIsAnswered`, `NewRequestIsUrgent`, `RequestIsSettled`: a request is not
  taken for one an earlier hunt has read (a theorem only), is settled by no hunt of
  an older tree, and is lost neither by a failed hunt nor by a crash.
* `ScopeSurvivesResume`: a resumed attempt knows what its chain reviews. It is
  stated for repositories that had a full hunt: until then a bounded first hunt
  may find, when resumed three weeks later, that its range is now the whole
  history, and records it, which changes nothing as any first hunt is recorded.
* `DeletedHasNoJobs` (a theorem only), `NoNotesWithoutRow`, `DeletedIsReclaimed`: a
  deletion is complete. The lock matters for the notes in two places, and either suffices:
  `delete_repo` holds it to flag the row, `reap_repo` to remove the files.
* `EveryRepoIsHunted`: every ended attempt takes the repository's turn.

One thing the code does not keep and no property claims: a repository deleted
and reclaimed between `sync_repo`'s look at the directory and the start of `git
clone` leaves a clone that belongs to no row, which no pass revisits. The model
has the steps.

`ReapFairness`: weak for the loop and each reaper's next step, weak for the note
under way (a synchronous write), strong for the cycle's turn at the lock (tokio's
mutex is a queue) and for its removals, which thus do not fail every time.
`HuntFairness`: weak for the loop and the passage of time, strong for a grant of
the budget gate (the window refills) and for the end of a hunt of the complete
history. Incremental hunts may fail for ever: the turn they take is what
`EveryRepoIsHunted` is about.

## 6. Recheck

A finding the operator sends back is judged against the code as it is now. One
finding is followed through request after request. `FixChain` shows how the rows
of a chain are linked and that one is live, so here a chain is one record, and its
slot is used again once nothing is left of it: the behaviours are endless.

| Variable | Code |
|---|---|
| `finding` | `status`, the recheck streak (`recheck_attempts`, `last_recheck_failure`), `budget_override`, the commit a rejection is anchored at |
| `chain` | a chain of recheck jobs: running or suspended, attempts, whether the transcript has spend, its tree and the commit that is pinned, whether a worker of a dead daemon still works in it |
| `file` | `out/recheck<id>.json`: what it says, of which tree, who wrote it |
| `tip`, `habit` | commits of the default branch; how the workers of this behaviour end |
| `failed` | history: failures of the request under way |

| Step | Code |
|---|---|
| `Boot`, `Reconcile`, `Sweep` | `run_daemon`, `reconcile_and_log`, `workspace::sweep` |
| `PickRecheck` … `StartFresh` | `select`, `finding_pick`, `resume_plan`, `count_given_up_chain` |
| `Start` … `Unlink` | `run_recheck` up to the worker: the override is read, the clone synced, the gate passed, the row made, the tree opened, a cold run's old verdict file removed |
| `WorkerSpends` … `WorkerNotRun` | the worker and `Backend::run` |
| `Record`, `Close`, `Read`, `Settle`, `Count`, `Back`, `Clear`, `Spend` | `record_job`, `close_workspace`, the verdict file, the outcome with its anchor, `handle_recheck_failure` in its three writes, the override that is used up |
| `Ask`, `Override` | `recheck`, `override_` |

`recheck_one`: every habit (all endings, or one that repeats), two requests, an
override, a push, and one crash, failed write or failed call at any step; a worker
may outlive its daemon. Three chains are the live one, the one it supersedes and
one a stray worker is still in.

* `VerdictIsOfItsTree`: what is recorded, and anchored, was said of the tree the
  attempt was pinned to, though all attempts share one file.
* `GivenUpOnItsOwn`: a request is given up on its own failures, unless a crash or
  a failed write has left it the streak of the last one.
* `RecheckEnds`: the tier, which ranks before fixes and hunts, does not hold on to
  a finding.

Fairness: weak for the loop, for a worker (wall-clock limit) and for the exit of a
stray one; strong for a sync and for a grant: a clone that can never be synced is
picked for ever, and the code has no counter there. Workers that fail in turn in
different ways are not counted together and are left out of `RecheckEnds`.

## 7. DepUpdates

One repository's dependency scans. Renovate's answer is the set of branches it
would make: one per move (a package and a class of update), or one for the group
when the presets say so. A fingerprint is a unit and the versions its members
stand at, so a landed update changes it and a newly released target does not.

| Variable | Code |
|---|---|
| `row` | the `dep_update` findings: status by what the scan makes of it (`absent`, `new`, `queued`, `taken` by a fix, `declined`, superseded as `unproposed` or as `replaced`), override |
| `stand`, `ready`, `grouped` | the repository's versions, what upstream has released, the presets |
| `due` | whether the interval since `last_dep_update_at` has passed |
| `run` | the scan's candidates, whether a worker stood in, what is still to be ingested |

| Step | Code |
|---|---|
| `RenovateAnswers`, `ScanFails`, `WorkerFiles` | `scan_repo` (some dependencies may not be looked up), the error path of `run_dep_update`, the worker that stands in |
| `Ingest`, `Ingested`, `SettleFails` | `ingest`: one entry at a time through `refresh_dep_update` and `reopen_if_changed` |
| `RetireUnproposed`, `HandOver`, `Stamp`, `Bump` | `settle_dep_updates`: `supersede_unproposed_dep_updates`, `hand_over_queued_dep_updates`; the stamp of a success, the bump of `run_cycle_inner` |
| `FixTakes`, `FixReturns`, `Decide`, `Override` | the fix tier and the operator, on the same rows |
| `Released`, `Lands`, `Regrouped`, `ScanFallsDue`, `Crash` | the world |

`deps_one`: two moves, one of which can land once and which a worker may also
report; two changes of the world, two requests, one trouble. Two moves are what a
group can be made of; the run is endless because scans are.

* `QueueSurvivesScans`: a scan takes an update off the queue only by queueing one
  it proposes for the same move, under an override at least as strong; it touches
  nothing a worker has taken up and no verdict, but on a worker's word.
* `FileFollowsRenovate`: again and again everything Renovate proposes is on file,
  and nothing waits for the operator that it does not propose.

Fairness: weak for the scan's steps and for time, strong for a Renovate answer
that covers every dependency: with none, retiring never happens on purpose.

## 8. DaemonLoop

The loop, the handlers that steer it and the walk of the budget gate. The loop and
the handlers run in parallel; they share three atomics and a tokio `Notify`, whose
one permit is `permit`. Every store, load, notify and `select!` is a step.

| Variable | Code |
|---|---|
| `pc`, `last`, `nap` | where `run_daemon`'s loop is, how the cycle ended, the sleep (`compute_sleep_s`: none or some) |
| `running`, `paused`, `overdrive`, `permit` | `SchedulerHandle` |
| `told` | the shutdown latch (a `watch` channel) |
| `queued`, `windows` | findings to be worked on; the provider's windows: under the ramp, over it, exhausted |
| `calls` | handlers between their store and their `notify_one` |
| `unseen`, `begun` | history: requests no cycle has begun since, cycles begun since a pause |

| Step | Code |
|---|---|
| `Hold`, `GoOn`, `Begin`, `Resume`, `Wake`, `TimeIsUp`, `Rest` | the loop of `run_daemon` and its two `select!` |
| `Pick`, `DiskFull`, `Deny`, `Claim`, `Skip`, `WorkEnds`, `CycleFails` | `run_cycle_inner`, `disk_gate`, `budget_gate`, `decide_inner`, `start_fix`, `run_cycle` |
| `Queue` … `Cycle`, `Answer`, `CutOff` | the handlers; one that writes an event between its store and its notify may be cut off there |
| `WindowsMove`, `Signal`, `Crash`, `Boot` | the provider, systemd; a restart forgets the atomics |

`loop_one`: two findings, three requests, two changes of the windows and one crash,
signal, failed cycle or request cut off. Deadlock is not checked: a paused daemon
waits for the operator, who has a bounded number of requests.

* `AnsweredIsSeen`: no request that was answered is slept over, whenever in a cycle
  it came.
* `PauseHolds`: at most one more cycle begins, whatever wakes the loop.
* `StopEnds`: a signal stops the daemon wherever it is; the code's comments name
  the hangs this replaced.
* `QueueDrains`: what is queued is worked off while the windows admit it, or admit
  it under overdrive; no cut-off request, failed cycle or stale pick prevents it.

Fairness: weak for the loop, for the handlers as a whole and for the end of a sleep
(an hour at most). `gate_hardstop` states what the documentation says of overdrive
and exhausted windows; see section 9.

## 9. Disagreements found

Two are shown by runs:

1. `fix_branch`: `add_tree` says any chain on the finding's branch "was
   superseded and had its tree released before this one was created". The cold
   start that follows a give-up in the same cycle finds the given-up chain's tree
   still there: the row is `failed`, so nothing superseded it. The attempt is
   counted as a tree that could not be made; streak labels alternate.
2. `gate_hardstop`: "an exhausted provider window is still denied" under overdrive
   (`hunter/README.md:322`, `hunter-rs/src/server.rs:48`). `decide_inner` grants
   prioritized work at the first window, longest first, that is over its ramp and
   not exhausted; a shorter window that is exhausted is not looked at
   (`facade.rs:188`).

The others were met while modelling; the steps are in the modules, and the
properties are worded so that they hold, or the hazard has a note:

3. "any attempt of it that does not finish is held again" does not survive a crash
   during that attempt: the reconciliation queues the finding.
4. "new comments/reviews ... flag it `needs_attention`": the mark of an engage that
   replied is the time of its reply, not of the feedback its worker was shown, so a
   comment posted in between is never flagged (`scheduler.rs:4873`).
5. A failed withdrawal marks its reason addressed so that "the finding stops being
   re-picked until the PR sees genuinely new activity". The comment `close_pr`
   posted before the close failed is such activity (`forge.rs:1209`).
6. "`merged` → queued for a one-time harvest pass": the status is written before the
   row; a crash in between leaves no row to queue (`scheduler.rs:4225`).
7. "`Exempt` stays until cleared by hand" (`domain.rs:126-128`): a recheck that
   started under `once` clears whatever the row holds at its end, an exemption set
   meanwhile included (`scheduler.rs:2474`).
8. "Either failing fails the cycle, so the cadence stays put and the next cycle
   retries it" (`scheduler.rs:2816-2818`): the error reaches `run_cycle_inner`, whose
   error arm stamps the attempt (`scheduler.rs:6057`); the retry comes a whole
   interval later.

Two more are a matter of intent: an update handed over to a group and taken off the
queue there is superseded as replaced, and not revived when the group falls apart;
and an update of a group is retired although one of the group's dependencies could
not be looked up.

## 10. Proofs

`FixChainProofs` proves, from `FixChainAssumption` alone (types of the
constants; `NoFinding` is no finding; the reserved failure labels are no worker
text):

* `TypeCorrect`: `Spec => []TypeOK`. `TypeOK` is not inductive alone: a step that
  uses `run.f` or `run.job` needs it set. `TypeInv` adds `Locals`, which says at
  which steps they are, and that a row is free where one is about to be created.
* `NoClaimIsStranded`, `ClaimsAreKept`: `ClaimInv`, the conjunction of both, is
  inductive relative to `TypeInv`. Neither half is inductive alone: that nobody
  else is `fixing` at the claim is `NoStrandedClaim`, that the release ends the
  claim is `ClaimKept`. Each step is one of five kinds (`ClaimReset`, `ClaimFree`,
  `ClaimHeldOn`, `ClaimEnds`, `ClaimUntouched`).
* `VerdictsAreKept`: the action property `OperatorVerdictKept`, from the same two
  invariants: every scheduler write of a status is of the claimed finding.

`PRLifecycleProofs` proves every safety property `pr_one` checks, from
`PRLifecycleAssumption` alone (types of the constants). Five invariants, each
inductive given the ones before it:

* `TypeInv`: `TypeOK`, and that every step but the sweep, the sync and the
  selection works on a finding. Gives `TypeCorrect`.
* `WhereInv`: the status a finding has while a step works on it (`fixing` in
  `ship` and `create`, `pr_open` in an engage and in the steps that close it, `todo` only
  `pr_open` ones), that a closure is recorded when the next step writes `closed`,
  and `ClosedIsRecorded` itself, which is not inductive without the former.
  Gives `ClosuresAreRecorded`, and step by step `VerdictsStay`.
* `KnownInv`: a PR the forge has, and any PR of a `pr_open` or `merged` finding,
  has a number. With it every step moves a PR forward only (`ForgeMoves`): its
  number and its head grow, or its head and the reviewers' commits stay. A ship's
  unleased push is a new head, so a tree that was made before it fails its lease.
* `LeaseInv`: what a worker's or a pause's tree was made at is not ahead of the
  branch, and when it is the branch's head it has the reviewers' commits. This is
  what makes the lease sufficient; with `WhereInv`, by which a ship's push comes
  while the finding is `fixing`, it gives `ReviewersAreKept`.
* `NumberInv`: reviewed numbers are at most the row's, the row's at most the
  forge's, and a row is stamped exactly when its number was reviewed. A row that
  goes over to another PR thus goes over to one that was not reviewed. Gives
  `StampsAreOwn` and `ReviewsAreOnce`.

`HuntsProofs` proves every safety property `hunts_one` checks, from
`HuntsAssumption` alone (types of the constants, at least one repository). The
inductive invariant `Inv` has eight parts; the first half of the module says
field by field what each group of steps does to rows, chains and locals, so that
the second half is about the few fields each part needs.

* `TypeInv`: `TypeOK`, that every step of `run_hunt` works on a repository, that a
  resumed chain has a try left until its row is written, and how far the requests
  can have been counted. Gives `TypeCorrect`.
* `LifeInv`: a chain or a job under way means that the row has jobs, and a row with
  jobs is live. `SoftDelete` looks at the jobs and `Create` at the row, so neither
  can come between. Gives `NoJobOfDeleted`.
* `LockInv`: while a note is being appended its repository is live and nobody
  reaps; a reaper at its last step has removed the notes. Gives `NotesGoFirst`.
* `AskInv`: what a hunt has read or a chain has accepted is never later than the
  request on the row, and earlier while nobody has read that one. Gives
  `RequestUrgent`.
* `ReviewInv`: everything below the watermark, below the start of a chain's range
  and below what a hunt has read as its start was reviewed. Gives
  `WatermarkIsReviewed`.
* `ShapeInv`: the state of the chain at every step, that a worker has a pinned
  commit, and that a cold chain has none before its launch.
* `AnswerInv` (with `AskInv`, `ShapeInv`): a hunt or chain that carries the newest
  request is full and its commit is no older than that request; after it finished
  that commit was swept. Only then can `Settle` clear the request. Gives
  `RequestAnswered`.
* `ScopeInv` (with all three): the watermark of a live full chain is NULL, that of
  another is not, unless the repository had no full hunt yet; so what `run_hunt`
  concludes from the row at a resume agrees with the prompt. A NULL watermark of a
  repository whose re-hunt is not due has a request that explains it. Gives
  `ScopeSurvives`.

`FixChainRows` continues `FixChainProofs` with the rows, the checkpoints and the
trees, from the same assumption. Nearly every step of the fix tier is *calm*: it
creates no row, and a row keeps its state, ends, or is suspended while it runs. A
calm step brings nothing back to life, so each invariant below is shown once for
calm steps and then for the two that are not: the creation of a row and the hold
(`block_fix_job`, which makes an ended attempt resumable).

* `RowsInv`: a row links to an earlier one of its finding and chain, and unused
  rows are blank; a row is running only as the job under way or between a death
  and the reconciliation; beside the job under way (or the one just given up)
  nothing of its finding is alive, which is what the hold needs; what a resume was
  chosen to continue still waits when its row is made; `OneLiveAttempt`. The last
  is not inductive without the others. Gives `AttemptsAreSingle`.
* `BlockedHasCheckpoint` with `NotHeld` (a row about to be retired with its outcome
  is of no held finding), given `ClaimInv` and `RowsInv`: a hold is undone by the
  operator only, so no scheduler step touches the rows of a blocked finding. Gives
  `HoldsHaveCheckpoints`.
* `SurvivorInv`: a worker that outlived its daemon is on a row the reconciliation
  has still to look at, or its chain is over. What the reconciliation leaves alone
  because its worker lives is killed by the pass after it, before anything is
  resumed. Gives `TreesHaveOneWorker`.
* `LiveTreesAreKept`, `CheckpointsAreKept`: the action properties, from these
  invariants and the claims.

`FixTierProofs` proves `FixesArePromised`: `Spec => FixesAsPromised`. The mapping
takes a finding's status as it is and its rows to its work: `running` when one
runs, `saved` when one can be resumed, else `none`. `RowsInv` makes that one row,
so what happens to a row happens to the work of its finding and of no other. The
passes map to the steps in which the promise lets the work of several findings be
saved or lost at once; a step that moves trees, locals or counters only maps to a
stutter.

`RecheckProofs`, from `RecheckAssumption` (types of the constants, at least one commit):

* `TypeInv`: `TypeOK`, that the locals are reset between cycles, and that a step
  with a row of its own has a chain. Gives `TypeCorrect`.
* `StreakInv`: the streak is at most the failures of this request, and zero in the
  inbox, except between a status and its streak (`clear`) and after a trouble.
  Gives `StuckOnItsOwn`, of every habit of the workers and every ceiling.
* `LiveInv`: one chain at most is live, a running row is the scheduler's own or an
  orphan, and the chain that was given up is not the one that goes on. Gives
  `LiveInvariant`.
* `FileInv`: what the file says was written in the tree of every chain that may
  still go on with it (suspended, or running with something spent), and of the
  attempt under way from the removal of the old file on; a fresh chain has spent
  nothing before that. With one file for all attempts, `VerdictIsOfItsTree` is
  about the last write only, and needs all of this. Gives `VerdictsAreOfTheirTree`.

`DaemonLoopProofs`, from the types of the constants: `TypeCorrect`; `LoopInv` (a
loop in or after a cycle has seen every answered request or holds a permit; a held
loop is paused, has a permit, or a resume is under way; at most one cycle has begun
since the pause, none at the loop's head) gives `TriggersAreSeen` and `PausesHold`.

`DepUpdatesProofs`, from the types of the constants: `TypeCorrect`, for which the
versions packages stand at have to name fingerprints (`ProposedIsNamed`), and
`QueueIsKept`, the action property `QueueSurvivesScans`: every step of the loop is
shown to spare each finding (`Spared`); for the handover, that the heir stays
queued under the strongest override (`HandOverIs`, `StrongestIs`).

Every safety property the passing runs check is thereby a theorem, without the
bounds of the runs: for any number of findings, repositories, chains, attempts,
PRs, moves and troubles. The invariants above were first checked by TLC on the
instances of the runs.

Only model-checked: the liveness properties (`QueuedFixEnds`, `TreesReclaimed`,
`AttentionEnds`, `EndIsNoticed`, `PendingEnds`, `EveryRepoIsHunted`,
`RequestIsSettled`, `DeletedIsReclaimed`, `RecheckEnds`, `FileFollowsRenovate`,
`StopEnds`, `QueueDrains`): they need fairness and `ENABLED`, which the installed
provers do not reach. The violation runs state what does not hold, so nothing of
theirs is proved.

## 11. Not modelled

See the components with status `not_modelled` or `partly` in `PROJECT.json`.

* Reservations, ramps and caps are arithmetic on floating-point readings of an
  external service; the modules let the gate answer either way, and `DaemonLoop`
  keeps only the order in which it looks at the windows.
* Verdict anchors (`suppression.rs`) compare a report with the text of the code a
  verdict was given on; only the reopening of declined updates is modelled.
* A clone that appears while its repository is reclaimed (section 5), and the PR a
  crash leaves between its creation and its row (taken over by the next fix's
  `ShipPR`), are in the steps, with no property of their own.
* Forge clients, sessions, configuration, playbooks, migrations and the dashboard
  are input and output with no protocol of their own.
