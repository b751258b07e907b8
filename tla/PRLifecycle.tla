---------------------------- MODULE PRLifecycle ----------------------------
(***************************************************************************)
(* The life of a finding's pull request: shipped by a fix, synced every    *)
(* cycle, engaged when reviewers want something, withdrawn, merged or      *)
(* closed, and harvested once (scheduler.rs ship_pr, sync_prs, run_engage, *)
(* run_harvest; the pr_state rows of store.rs).                            *)
(*                                                                         *)
(* The forge is the environment: reviewers comment, push, merge and close  *)
(* between any two steps.  Of the job chains only what an engage or a      *)
(* harvest needs of its own is here: a pause keeps the tree and what the   *)
(* transcript has seen; FixChain is about the chains themselves.           *)
(***************************************************************************)
EXTENDS Naturals, FiniteSets

CONSTANTS
  Findings,
  NoFinding,      \* what the locals hold between jobs
  MaxAttempts,    \* MAX_RESUME_ATTEMPTS
  MaxSameFailure, \* MAX_CONSECUTIVE_SAME_FAILURE
  EngageEnds,     \* the ways a worker can end
  HarvestEnds,
  MaxPRs,         \* bound: pull requests opened for a finding
  MaxHead,        \* bound: commits that are ever a head of the branch
  MaxClock,       \* bound: time stamps of the forge
  MaxEvents,      \* bound: what reviewers do
  MaxFaults,      \* bound: writes and calls that fail
  MaxCrashes,     \* bound: times the daemon dies
  MaxVerdicts     \* bound: operator requests

AllEnds == {"done", "withdraw", "pause", "fail"}

(* How a review fails, as the streak tells failures apart: the state of its *)
(* worker's job; of a closed PR, no CLOSE-REASON.json or an invalid one.    *)
WorkerKeys  == {"failed", "killed"}
ReasonKeys  == {"unexplained", "invalid"}
ReviewFails == WorkerKeys \cup ReasonKeys

(* What record_harvest_failure is called with *)
Keys == ReviewFails \cup {"view", "diff", "gaveup"}

ASSUME PRLifecycleAssumption ==
  /\ NoFinding \notin Findings
  /\ EngageEnds \subseteq AllEnds /\ HarvestEnds \subseteq {"done", "pause"} \cup ReviewFails
  /\ MaxAttempts \in Nat /\ MaxSameFailure \in Nat
  /\ MaxPRs \in Nat /\ MaxHead \in Nat \ {0} /\ MaxClock \in Nat
  /\ MaxEvents \in Nat /\ MaxFaults \in Nat /\ MaxCrashes \in Nat
  /\ MaxVerdicts \in Nat

VARIABLES
  status,     \* findings.status
  row,        \* the pr_state row of every finding
  paused,     \* the suspended engage or harvest of every finding
  forge,      \* the newest PR of every finding, as the forge has it
  reviewed,   \* history: the PRs whose harvest was done or given up
  pc, run, todo,
  events, faults, crashes, verdicts   \* what the bounds count

db     == <<status, row, paused>>
bounds == <<events, faults, crashes, verdicts>>
vars   == <<db, forge, reviewed, pc, run, todo, bounds>>

-----------------------------------------------------------------------------
(* "settled" is every status a finding is done at: superseded, the verdicts *)
(* and, as one that may be acted on after all, note.                        *)
Status == {"new", "queued", "fixing", "pr_open", "merged", "closed", "settled"}

Stamps == 0..MaxClock
Heads  == 0..MaxHead     \* 0 for NULL

PR == [num   : 0..MaxPRs,
       state : {"none", "OPEN", "CLOSED", "MERGED"},
       head  : Heads,
       human : Nat,            \* commits of reviewers on the branch
       clock : Stamps,         \* updatedAt
       latest: Stamps,         \* latest comment or review, whoever wrote it
       bad   : BOOLEAN]        \* changes requested, conflict or failing checks

NoPR == [num |-> 0, state |-> "none", head |-> 0, human |-> 0, clock |-> 0,
         latest |-> 0, bad |-> FALSE]

Row == [num       : 0..MaxPRs,
        state     : {"none", "OPEN", "CLOSED", "MERGED"},  \* "none": no row
        head      : Heads,
        latest    : Stamps,
        based     : BOOLEAN,     \* last_engaged_activity_at IS NOT NULL
        engaged   : Stamps,      \* last_engaged_activity_at
        flagged   : BOOLEAN,     \* needs_attention IS NOT NULL
        bad       : BOOLEAN,     \* attention_fingerprint IS NOT NULL
        addrBad   : BOOLEAN,     \* addressed_fingerprint IS NOT NULL
        addrHead  : Heads,       \* addressed_head_sha
        harvested : BOOLEAN,
        attempts  : Nat,
        why       : Keys \cup {"none"}]

NoRow == [num |-> 0, state |-> "none", head |-> 0, latest |-> 0, based |-> FALSE,
          engaged |-> 0, flagged |-> FALSE, bad |-> FALSE, addrBad |-> FALSE, addrHead |-> 0,
          harvested |-> FALSE, attempts |-> 0, why |-> "none"]

Pause == [kind : {"none", "engage", "harvest"}, n : 0..MaxAttempts,
          base : Heads, human : Nat]
NoPause == [kind |-> "none", n |-> 0, base |-> 0, human |-> 0]

Run == [f       : Findings \cup {NoFinding},
        n       : 0..MaxAttempts,     \* attempts on the chain so far
        base    : Heads,              \* pinned: the head the tree was made at
        human   : Nat,                \* reviewers' commits in the tree
        latest  : Stamps,             \* of the pr_state row read at the start
        bad     : BOOLEAN,
        head    : Heads,
        pushed  : BOOLEAN,
        closed  : BOOLEAN,            \* the closed-PR playbook
        handoff : BOOLEAN,
        why     : Keys \cup {"none"}]
NoRun == [f |-> NoFinding, n |-> 0, base |-> 0, human |-> 0, latest |-> 0,
          bad |-> FALSE, head |-> 0, pushed |-> FALSE, closed |-> FALSE,
          handoff |-> FALSE, why |-> "none"]

Pcs == {"sweep", "sync", "sync_merged", "sync_closed", "select", "ship",
        "create", "shipped", "engage", "reply", "mark", "aborted", "withdrawn", "verdict",
        "harvest", "count", "giveup"}

TypeOK ==
  /\ status \in [Findings -> Status]
  /\ row \in [Findings -> Row]
  /\ paused \in [Findings -> Pause]
  /\ forge \in [Findings -> PR]
  /\ reviewed \in [Findings -> SUBSET (0..MaxPRs)]
  /\ pc \in Pcs /\ run \in Run /\ todo \subseteq Findings
  /\ events \in Nat /\ faults \in Nat /\ crashes \in Nat /\ verdicts \in Nat

Init ==
  /\ status = [f \in Findings |-> "queued"]
  /\ row = [f \in Findings |-> NoRow]
  /\ paused = [f \in Findings |-> NoPause]
  /\ forge = [f \in Findings |-> NoPR]
  /\ reviewed = [f \in Findings |-> {}]
  /\ pc = "sweep" /\ run = NoRun /\ todo = {}
  /\ events = 0 /\ faults = 0 /\ crashes = 0 /\ verdicts = 0

-----------------------------------------------------------------------------
(* What the writes of store.rs make of a row *)

(* mutant: a new PR inherits the harvest of the one before *)
RenumberedKept(r, num) == [r EXCEPT !.num = num]

(* mutant: the PR that is recorded anew is harvested anew *)
RenumberedAlways(r, num) ==
  [r EXCEPT !.num = num, !.harvested = FALSE, !.attempts = 0, !.why = "none"]

(* A new pr_number clears the harvest bookkeeping; NULL is no other PR. *)
Renumbered(r, num) ==
  IF r.num \in {0, num}
    THEN [r EXCEPT !.num = num]
    ELSE [r EXCEPT !.num = num, !.harvested = FALSE, !.attempts = 0, !.why = "none"]

(* mark_pr_merged, mark_pr_closed *)
Ended(r, num, state) ==
  [Renumbered(r, num) EXCEPT !.state = state, !.flagged = FALSE]

(* mutant: what an engage answered is flagged again *)
SuppressedNever(r, p) == FALSE

Suppressed(r, p) == p.bad /\ r.addrBad /\ r.addrHead = p.head

(* sync_prs on an open PR, with sync_pr_open *)
Synced(r, p) ==
  LET engaged == IF r.based THEN r.engaged ELSE p.clock
      clear   == r.addrBad /\ ~Suppressed(r, p)
  IN [Renumbered(r, p.num) EXCEPT
        !.state = "OPEN", !.head = p.head, !.latest = p.latest,
        !.based = TRUE, !.engaged = engaged, !.bad = p.bad,
        !.flagged = p.latest > engaged \/ (p.bad /\ ~Suppressed(r, p)),
        !.addrBad = IF clear THEN FALSE ELSE @,
        !.addrHead = IF clear THEN 0 ELSE @]

(* mark_pr_engaged: up to `stamp`, with the static reasons it leaves *)
MarkEngaged(r, stamp, bad, head) ==
  [r EXCEPT !.based = TRUE, !.engaged = stamp, !.addrBad = bad, !.addrHead = head]

(* set_attention_aside *)
SetAside(r) ==
  [r EXCEPT !.based = TRUE, !.engaged = r.latest, !.addrBad = r.bad, !.addrHead = r.head, !.flagged = FALSE]

(* mutant: every failure is the first *)
CountedAnew(r, why) == [r EXCEPT !.attempts = 1, !.why = why]

(* record_harvest_attempt *)
Counted(r, why) ==
  [r EXCEPT !.attempts = IF r.why = why THEN @ + 1 ELSE 1, !.why = why]

(* list_pending_harvest *)
Pending(f) ==
  /\ row[f].state # "none" /\ ~row[f].harvested
  /\ status[f] = "merged" \/ (row[f].state = "CLOSED" /\ status[f] = "closed")

(* A pause is continued only at a status its kind works on. *)
Resumable(f) ==
  \/ paused[f].kind = "engage" /\ status[f] = "pr_open"
  \/ paused[f].kind = "harvest" /\ status[f] \in {"merged", "closed"}

-----------------------------------------------------------------------------
At(p)    == pc = p
Goto(p)  == pc' = p /\ UNCHANGED <<run, todo>>
EndCycle == pc' = "sweep" /\ run' = NoRun /\ todo' = {}
Fault    == /\ faults < MaxFaults /\ faults' = faults + 1
            /\ UNCHANGED <<events, crashes, verdicts>>
SetRow(f, r) == row' = [row EXCEPT ![f] = r]

(* The reconciliation, and the sweep of pauses whose finding has moved on *)
Sweep ==
  /\ At("sweep")
  /\ status' = [f \in Findings |-> IF status[f] = "fixing" THEN "queued" ELSE status[f]]
  /\ paused' = [f \in Findings |-> IF Resumable(f) THEN paused[f] ELSE NoPause]
  /\ pc' = "sync" /\ todo' = {f \in Findings : status[f] = "pr_open"}
  /\ UNCHANGED <<row, forge, reviewed, run, bounds>>

-----------------------------------------------------------------------------
(* sync_prs, one finding after the other *)

SyncOpen(f) ==
  /\ At("sync") /\ f \in todo /\ forge[f].state = "OPEN"
  /\ todo' = todo \ {f}
  /\ \/ /\ SetRow(f, Synced(row[f], forge[f]))
        /\ UNCHANGED bounds
     \/ Fault /\ UNCHANGED row
  /\ UNCHANGED <<status, paused, forge, reviewed, pc, run>>

(* Merged: the finding's status, then the PR's row. *)
SyncMergedFinding(f) ==
  /\ At("sync") /\ f \in todo /\ forge[f].state = "MERGED"
  /\ \/ status' = [status EXCEPT ![f] = "merged"] /\ UNCHANGED bounds
     \/ Fault /\ UNCHANGED status
  /\ pc' = "sync_merged" /\ run' = [NoRun EXCEPT !.f = f]
  /\ UNCHANGED <<row, paused, forge, reviewed, todo>>

SyncMergedRow ==
  /\ At("sync_merged")
  /\ \/ SetRow(run.f, Ended(row[run.f], forge[run.f].num, "MERGED")) /\ UNCHANGED bounds
     \/ Fault /\ UNCHANGED row
  /\ pc' = "sync" /\ run' = NoRun /\ todo' = todo \ {run.f}
  /\ UNCHANGED <<status, paused, forge, reviewed>>

(* mutant: a closure that is recorded already is not looked at again *)
SyncClosedOnce(f) ==
  /\ At("sync") /\ f \in todo /\ forge[f].state = "CLOSED"
  /\ IF row[f].state = "CLOSED"
       THEN todo' = todo \ {f} /\ UNCHANGED <<row, pc, run>>
       ELSE /\ SetRow(f, Ended(row[f], forge[f].num, "CLOSED"))
            /\ pc' = "sync_closed" /\ run' = [NoRun EXCEPT !.f = f]
            /\ UNCHANGED todo
  /\ UNCHANGED <<status, paused, forge, reviewed, bounds>>

(* Closed: the row first; unless it is recorded the finding stays pr_open. *)
SyncClosedRow(f) ==
  /\ At("sync") /\ f \in todo /\ forge[f].state = "CLOSED"
  /\ \/ /\ SetRow(f, Ended(row[f], forge[f].num, "CLOSED"))
        /\ pc' = "sync_closed" /\ run' = [NoRun EXCEPT !.f = f]
        /\ UNCHANGED <<todo, bounds>>
     \/ Fault /\ todo' = todo \ {f} /\ UNCHANGED <<row, pc, run>>
  /\ UNCHANGED <<status, paused, forge, reviewed>>

SyncClosedFinding ==
  /\ At("sync_closed")
  /\ \/ status' = [status EXCEPT ![run.f] = "closed"] /\ UNCHANGED bounds
     \/ Fault /\ UNCHANGED status
  /\ pc' = "sync" /\ run' = NoRun /\ todo' = todo \ {run.f}
  /\ UNCHANGED <<row, paused, forge, reviewed>>

SyncDone ==
  /\ At("sync") /\ todo = {} /\ Goto("select")
  /\ UNCHANGED <<db, forge, reviewed, bounds>>

(* The gate denies, a fetch or a view fails, or there is nothing to do. *)
Skip ==
  /\ At("select") /\ EndCycle
  /\ UNCHANGED <<db, forge, reviewed, bounds>>

-----------------------------------------------------------------------------
(* The fix's last steps: the PR, then the finding *)

StartFix(f) ==
  /\ At("select") /\ status[f] = "queued"
  /\ status' = [status EXCEPT ![f] = "fixing"]
  /\ pc' = "ship" /\ run' = [NoRun EXCEPT !.f = f]
  /\ UNCHANGED <<row, paused, forge, reviewed, todo, bounds>>

(* ship_pr forces the branch, without a lease: the fix's tree was made of   *)
(* the default branch and has no commit of a reviewer.  What is on an open  *)
(* PR of the branch is replaced.  A push of the same commit counts as well. *)
ShipPush ==
  /\ At("ship") /\ forge[run.f].head < MaxHead /\ Goto("create")
  /\ \E bad \in BOOLEAN :
       forge' = [forge EXCEPT ![run.f] =
                   [forge[run.f] EXCEPT !.head = @ + 1, !.human = 0, !.bad = bad]]
  /\ UNCHANGED <<db, reviewed, bounds>>

(* create_pr of what is on the branch; an open PR of it is taken over       *)
(* ("already exists").                                                      *)
CreatePR ==
  LET p == forge[run.f]
  IN /\ At("create") /\ Goto("shipped")
     /\ \/ p.state = "OPEN" /\ UNCHANGED forge
        \/ /\ p.state # "OPEN" /\ p.num < MaxPRs /\ p.clock < MaxClock
           /\ forge' = [forge EXCEPT ![run.f] =
                [p EXCEPT !.num = @ + 1, !.state = "OPEN", !.clock = @ + 1, !.latest = 0]]
     /\ UNCHANGED <<db, reviewed, bounds>>

(* release_claim; what it cannot write is left to the reconciliation *)
Released == [status EXCEPT ![run.f] = "queued"]

(* Nothing to ship, or the push fails; or the PR is not created. *)
ShipFails ==
  /\ pc \in {"ship", "create"} /\ EndCycle
  /\ \/ status' = Released /\ UNCHANGED bounds
     \/ Fault /\ UNCHANGED status
  /\ UNCHANGED <<row, paused, forge, reviewed>>

(* set_finding_pr_open; a write that fails leaves the claim to its release *)
Shipped ==
  /\ At("shipped") /\ EndCycle
  /\ \/ status' = [status EXCEPT ![run.f] = "pr_open"] /\ UNCHANGED bounds
     \/ Fault /\ status' \in {status, Released}
  /\ UNCHANGED <<row, paused, forge, reviewed>>

-----------------------------------------------------------------------------
(* Engage *)

(* What the start reads: the row again, the PR's head and feedback if cold. *)
StartEngage(f) ==
  LET resume == paused[f].kind = "engage"
      p      == forge[f]
      r      == row[f]
  IN /\ At("select") /\ status[f] = "pr_open"
     /\ resume \/ r.flagged
     /\ resume => paused[f].n < MaxAttempts
     /\ pc' = "engage"
     /\ run' = [NoRun EXCEPT
          !.f = f, !.latest = r.latest, !.bad = r.bad, !.head = r.head,
          !.n = IF resume THEN paused[f].n ELSE 0,
          !.base = IF resume THEN paused[f].base ELSE p.head,
          !.human = IF resume THEN paused[f].human ELSE p.human]
     /\ paused' = [paused EXCEPT ![f] = NoPause]
     /\ UNCHANGED <<status, row, forge, reviewed, todo, bounds>>

(* count_given_up_chain on an engage chain *)
GiveUpEngage(f) ==
  /\ At("select") /\ status[f] = "pr_open" /\ row[f].flagged
  /\ paused[f].kind = "engage" /\ paused[f].n >= MaxAttempts
  /\ paused' = [paused EXCEPT ![f] = NoPause]
  /\ \/ /\ SetRow(f, SetAside(row[f]))
        /\ UNCHANGED bounds
     \/ Fault /\ UNCHANGED row
  /\ UNCHANGED <<status, forge, reviewed, pc, run, todo>>

Paused(kind) ==
  paused' = [paused EXCEPT ![run.f] =
    [kind |-> kind, n |-> IF run.n < MaxAttempts THEN run.n + 1 ELSE run.n,
     base |-> run.base, human |-> run.human]]

EngagePauses ==
  /\ At("engage") /\ "pause" \in EngageEnds /\ EndCycle
  /\ Paused("engage")
  /\ UNCHANGED <<status, row, forge, reviewed, bounds>>

(* "incomplete": the flag stays, the next cycle engages again. *)
EngageFails ==
  /\ At("engage") /\ "fail" \in EngageEnds /\ EndCycle
  /\ UNCHANGED <<db, forge, reviewed, bounds>>

(* mutant: the branch is forced whatever is on it *)
LeaseHoldsAlways == TRUE

(* --force-with-lease=<head_ref>:<pinned> *)
LeaseHolds == forge[run.f].head = run.base

Push ==
  /\ At("engage") /\ "done" \in EngageEnds
  /\ LeaseHolds /\ forge[run.f].head < MaxHead
  /\ \E bad \in BOOLEAN :
       forge' = [forge EXCEPT ![run.f] =
                   [forge[run.f] EXCEPT !.head = @ + 1, !.human = run.human, !.bad = bad]]
  /\ pc' = "reply" /\ run' = [run EXCEPT !.pushed = TRUE]
  /\ UNCHANGED <<db, reviewed, todo, bounds>>

PushRefused ==
  /\ At("engage") /\ "done" \in EngageEnds
  /\ IF LeaseHolds THEN Fault ELSE UNCHANGED bounds
  /\ EndCycle
  /\ UNCHANGED <<db, forge, reviewed>>

NothingToPush ==
  /\ At("engage") /\ "done" \in EngageEnds /\ Goto("reply")
  /\ UNCHANGED <<db, forge, reviewed, bounds>>

(* What a PR is with a comment of the daemon's own *)
Answered(p) == [p EXCEPT !.clock = @ + 1, !.latest = p.clock + 1]

(* comment_pr; the mark of a reply is the time it was posted, and a little *)
Reply ==
  LET p == Answered(forge[run.f])
  IN /\ At("reply") /\ p.clock \in Stamps
     /\ forge' = [forge EXCEPT ![run.f] = p]
     /\ pc' = "mark" /\ run' = [run EXCEPT !.latest = p.clock]
     /\ UNCHANGED <<db, reviewed, todo, bounds>>

ReplyFails ==
  /\ At("reply") /\ Fault /\ EndCycle
  /\ UNCHANGED <<db, forge, reviewed>>

NoReply ==
  /\ At("reply") /\ Goto("mark")
  /\ UNCHANGED <<db, forge, reviewed, bounds>>

(* record_engage: a push leaves nothing addressed *)
Mark ==
  /\ At("mark") /\ EndCycle
  /\ \/ /\ SetRow(run.f, MarkEngaged(row[run.f], run.latest,
                                      ~run.pushed /\ run.bad,
                                      IF run.pushed THEN 0 ELSE run.head))
        /\ UNCHANGED bounds
     \/ Fault /\ UNCHANGED row
  /\ UNCHANGED <<status, paused, forge, reviewed>>

-----------------------------------------------------------------------------
(* Withdrawal, and its hand-off to the harvest *)

(* close_pr comments first, unless there is no reason to give, then closes. *)
CloseRun(closed) ==
  LET p == forge[run.f]
  IN \E q \in {p, Answered(p)} :
       /\ q.clock \in Stamps
       /\ forge' = [forge EXCEPT ![run.f] = IF closed THEN [q EXCEPT !.state = "CLOSED"] ELSE q]

(* Closing a PR that is closed already succeeds. *)
Withdraw ==
  /\ At("engage") /\ "withdraw" \in EngageEnds
  /\ forge[run.f].state # "MERGED"
  /\ CloseRun(TRUE) /\ Goto("withdrawn")
  /\ UNCHANGED <<db, reviewed, bounds>>

WithdrawFails ==
  /\ At("engage") /\ "withdraw" \in EngageEnds
  /\ IF forge[run.f].state = "OPEN" THEN Fault ELSE UNCHANGED bounds
  /\ CloseRun(FALSE) /\ Goto("aborted")
  /\ UNCHANGED <<db, reviewed>>

(* This attention reason is marked addressed. *)
MarkAborted ==
  /\ At("aborted") /\ EndCycle
  /\ \/ /\ SetRow(run.f, MarkEngaged(row[run.f], run.latest, run.bad, run.head))
        /\ UNCHANGED bounds
     \/ Fault /\ UNCHANGED row
  /\ UNCHANGED <<status, paused, forge, reviewed>>

(* mutant: the verdict is written although the row is not *)
WithdrawnUnrecorded ==
  /\ At("withdrawn") /\ Goto("verdict")
  /\ \/ SetRow(run.f, Ended(row[run.f], forge[run.f].num, "CLOSED")) /\ UNCHANGED bounds
     \/ Fault /\ UNCHANGED row
  /\ UNCHANGED <<status, paused, forge, reviewed>>

WithdrawnRow ==
  /\ At("withdrawn")
  /\ \/ /\ SetRow(run.f, Ended(row[run.f], forge[run.f].num, "CLOSED"))
        /\ Goto("verdict") /\ UNCHANGED bounds
     \/ Fault /\ EndCycle /\ UNCHANGED row
  /\ UNCHANGED <<status, paused, forge, reviewed>>

(* The finding is closed and the session goes on as the harvest, or not. *)
WithdrawnFinding ==
  /\ At("verdict")
  /\ \/ /\ status' = [status EXCEPT ![run.f] = "closed"]
        /\ \/ /\ pc' = "harvest" /\ UNCHANGED todo
              /\ run' = [run EXCEPT !.closed = TRUE, !.handoff = TRUE, !.n = 0]
           \/ EndCycle
        /\ UNCHANGED bounds
     \/ Fault /\ EndCycle /\ UNCHANGED status
  /\ UNCHANGED <<row, paused, forge, reviewed>>

-----------------------------------------------------------------------------
(* Harvest *)

StartHarvest(f) ==
  LET resume == paused[f].kind = "harvest" /\ Resumable(f)
  IN /\ At("select")
     /\ Pending(f) \/ resume
     /\ resume => paused[f].n < MaxAttempts
     /\ run' = [NoRun EXCEPT !.f = f, !.closed = row[f].state = "CLOSED",
                             !.n = IF resume THEN paused[f].n ELSE 0]
     /\ pc' = "harvest"
     /\ paused' = [paused EXCEPT ![f] = NoPause]
     /\ UNCHANGED <<status, row, forge, reviewed, todo, bounds>>

(* The view, or of a closed PR the diff, does not load, before there is a job *)
HarvestNotStarted(f) ==
  /\ At("select") /\ Pending(f) /\ Fault
  /\ \E why \in {"view", "diff"} :
       /\ why = "diff" => row[f].state = "CLOSED"
       /\ pc' = "count" /\ run' = [NoRun EXCEPT !.f = f, !.why = why]
  /\ UNCHANGED <<db, forge, reviewed, todo>>

GiveUpHarvest(f) ==
  /\ At("select") /\ Pending(f)
  /\ paused[f].kind = "harvest" /\ paused[f].n >= MaxAttempts
  /\ paused' = [paused EXCEPT ![f] = NoPause]
  /\ pc' = "count" /\ run' = [NoRun EXCEPT !.f = f, !.why = "gaveup"]
  /\ UNCHANGED <<status, row, forge, reviewed, todo, bounds>>

HarvestPauses ==
  /\ At("harvest") /\ "pause" \in HarvestEnds /\ EndCycle
  /\ Paused("harvest")
  /\ UNCHANGED <<status, row, forge, reviewed, bounds>>

(* Every way has a key of its own; a failed hand-off is not counted. *)
HarvestFails ==
  /\ At("harvest")
  /\ \E why \in HarvestEnds \cap ReviewFails :
       /\ why \in ReasonKeys => run.closed
       /\ IF run.handoff
            THEN EndCycle
            ELSE pc' = "count" /\ run' = [run EXCEPT !.why = why] /\ UNCHANGED todo
  /\ UNCHANGED <<db, forge, reviewed, bounds>>

(* mutant: the class is written, not the status it stands for *)
ClosedAsClass == {"obsolete", "unwanted"}

(* ClosureClass::status of the worker's classification *)
ClosedAs == {"settled", "new"}

Classified(f, to) == [status EXCEPT ![f] = IF @ = "closed" THEN to ELSE @]

Reviewed(f) == reviewed' = [reviewed EXCEPT ![f] = @ \cup {row[f].num}]

Stamped(f)  == [row[f] EXCEPT !.harvested = TRUE]
Streakless(r) == [r EXCEPT !.attempts = 0, !.why = "none"]

(* record_closed_harvest is one transaction; the two writes of a merged PR's *)
(* harvest go on past a failure, each without the other.                     *)
HarvestDone ==
  /\ At("harvest") /\ "done" \in HarvestEnds /\ EndCycle
  /\ \/ /\ SetRow(run.f, Streakless(Stamped(run.f)))
        /\ IF run.closed
             THEN \E to \in ClosedAs : status' = Classified(run.f, to)
             ELSE UNCHANGED status
        /\ Reviewed(run.f) /\ UNCHANGED bounds
     \/ /\ ~run.closed /\ Fault
        /\ \/ SetRow(run.f, Stamped(run.f)) /\ Reviewed(run.f)
           \/ SetRow(run.f, Streakless(row[run.f])) /\ UNCHANGED reviewed
        /\ UNCHANGED status
     \/ run.closed /\ Fault /\ UNCHANGED <<row, status, reviewed>>
  /\ UNCHANGED <<paused, forge>>

(* record_harvest_failure *)
CountHarvest ==
  LET r == Counted(row[run.f], run.why)
  IN /\ At("count")
     /\ \/ /\ SetRow(run.f, r) /\ UNCHANGED bounds
           /\ IF r.attempts < MaxSameFailure THEN EndCycle ELSE Goto("giveup")
        \/ Fault /\ EndCycle /\ UNCHANGED row
     /\ UNCHANGED <<status, paused, forge, reviewed>>

GiveUpPR ==
  /\ At("giveup") /\ EndCycle
  /\ \/ /\ SetRow(run.f, Streakless(Stamped(run.f)))
        /\ Reviewed(run.f) /\ UNCHANGED bounds
     \/ Fault /\ UNCHANGED <<row, reviewed>>
  /\ UNCHANGED <<status, paused, forge>>

-----------------------------------------------------------------------------
(* The operator: a compare-and-set, on a finding that awaits a verdict.  A *)
(* closed one may be given its verdict while its harvest runs.             *)

Answer(f, from, to) ==
  /\ verdicts < MaxVerdicts /\ verdicts' = verdicts + 1
  /\ status[f] = from /\ from # to
  /\ status' = [status EXCEPT ![f] = to]
  /\ UNCHANGED <<row, paused, forge, reviewed, pc, run, todo, events, faults, crashes>>

Verdict(f) == \E from \in {"new", "settled", "closed"}, to \in {"queued", "settled"} :
                Answer(f, from, to)
Unqueue(f) == Answer(f, "queued", "new")

-----------------------------------------------------------------------------
(* The forge: reviewers, their bots and the checks, between any two steps *)

Happens(f, p) ==
  /\ events < MaxEvents /\ events' = events + 1
  /\ forge' = [forge EXCEPT ![f] = p]
  /\ UNCHANGED <<db, reviewed, pc, run, todo, faults, crashes, verdicts>>

Comment(f) ==
  LET now == forge[f].clock + 1
  IN /\ forge[f].state = "OPEN" /\ now \in Stamps
     /\ Happens(f, [forge[f] EXCEPT !.clock = now, !.latest = now])

ReviewerPush(f) ==
  /\ forge[f].state = "OPEN" /\ forge[f].head < MaxHead
  /\ \E bad \in BOOLEAN :
       Happens(f, [forge[f] EXCEPT !.head = @ + 1, !.human = @ + 1, !.bad = bad])

Rated(f) ==
  forge[f].state = "OPEN" /\ Happens(f, [forge[f] EXCEPT !.bad = ~@])

Merge(f) ==
  forge[f].state = "OPEN" /\ Happens(f, [forge[f] EXCEPT !.state = "MERGED"])
Reject(f) ==
  forge[f].state = "OPEN" /\ Happens(f, [forge[f] EXCEPT !.state = "CLOSED"])
Reopen(f) ==
  forge[f].state = "CLOSED" /\ Happens(f, [forge[f] EXCEPT !.state = "OPEN"])

(* The daemon dies; the reconciliation of the next one salvages a worker *)
(* that had spent something as a pause.                                  *)
Crash ==
  /\ crashes < MaxCrashes /\ crashes' = crashes + 1
  /\ EndCycle
  /\ \/ UNCHANGED paused
     \/ At("engage") /\ Paused("engage")
     \/ At("harvest") /\ Paused("harvest")
  /\ UNCHANGED <<status, row, forge, reviewed, events, faults, verdicts>>

-----------------------------------------------------------------------------
Sync == \/ \E f \in Findings : SyncOpen(f) \/ SyncMergedFinding(f) \/ SyncClosedRow(f)
        \/ SyncMergedRow \/ SyncClosedFinding \/ SyncDone

Fix == (\E f \in Findings : StartFix(f)) \/ ShipPush \/ CreatePR \/ ShipFails \/ Shipped

StartOn(f) == StartEngage(f) \/ GiveUpEngage(f)
ReviewOf(f) == StartHarvest(f) \/ HarvestNotStarted(f) \/ GiveUpHarvest(f)

EngageWorker == EngagePauses \/ EngageFails \/ Push \/ PushRefused
                  \/ NothingToPush \/ Withdraw \/ WithdrawFails
Recording == Reply \/ ReplyFails \/ NoReply \/ Mark \/ MarkAborted
               \/ WithdrawnRow \/ WithdrawnFinding
HarvestWorker == HarvestPauses \/ HarvestFails \/ HarvestDone
Harvesting == CountHarvest \/ GiveUpPR

Operator == \E f \in Findings : Verdict(f) \/ Unqueue(f)
Forge == \E f \in Findings : Comment(f) \/ ReviewerPush(f) \/ Rated(f) \/ Merge(f)
                                \/ Reject(f) \/ Reopen(f)

Scheduler == Sweep \/ Sync \/ Skip \/ Fix
               \/ (\E f \in Findings : StartOn(f) \/ ReviewOf(f))
               \/ EngageWorker \/ Recording \/ HarvestWorker \/ Harvesting

Next == Scheduler \/ Operator \/ Forge \/ Crash

Spec == Init /\ [][Next]_vars

(* The scheduler is one supervised loop, a worker is stopped at its         *)
(* wall-clock limit, and the tiers are visited in order, so neither a       *)
(* flagged PR nor a pending harvest is passed over for ever.                *)
Fairness ==
  /\ WF_vars(Scheduler)
  /\ \A f \in Findings : SF_vars(StartOn(f)) /\ SF_vars(ReviewOf(f))

LiveSpec == Spec /\ Fairness

-----------------------------------------------------------------------------
(* Safety *)

(* A harvest stamp belongs to the PR the row is about: the harvest of a      *)
(* finding's earlier PR never passes for that of its next one (the CASE on   *)
(* pr_number in mark_pr_merged, mark_pr_closed and sync_pr_open).            *)
StampIsForItsPR ==
  \A f \in Findings : row[f].harvested => row[f].num \in reviewed[f]

(* A PR is harvested once: what was reviewed, or given up, never comes back  *)
(* to the queue, also when the PR was reopened and ended again.              *)
HarvestedOnce ==
  \A f \in Findings : Pending(f) => row[f].num \notin reviewed[f]

(* A finding leaves pr_open for closed only with the closure of its PR       *)
(* recorded, whatever write failed and wherever the daemon died: otherwise   *)
(* list_pending_harvest would never find it (sync_prs, withdraw_pr).         *)
ClosedIsRecorded ==
  \A f \in Findings :
    status[f] = "closed" => row[f].state = "CLOSED" /\ row[f].num = forge[f].num

(* While a finding is pr_open nothing takes a commit of a reviewer off its   *)
(* branch, however long an engage ran or was suspended (push_and_reply's     *)
(* lease).  Only a fix that ships again, on the branch of a PR the finding   *)
(* lost or never recorded, forces the branch: the finding is `fixing` then.  *)
ReviewersCommitsKept ==
  [][\A f \in Findings :
       status[f] = "pr_open" => forge'[f].human >= forge[f].human]_vars

(* What the operator decided on a closed finding stays: neither the harvest  *)
(* that was running nor a sync writes over it (record_closed_harvest).       *)
OperatorVerdictKept ==
  [][\A f \in Findings :
       status'[f] # status[f] /\ verdicts' = verdicts
         => \/ status[f] \in {"pr_open", "closed", "fixing"}
            \/ status[f] = "queued" /\ status'[f] = "fixing"]_vars

-----------------------------------------------------------------------------
(* Liveness *)

(* A flagged PR stops being flagged: it was answered, or it ended. *)
Flagged(f) == status[f] = "pr_open" /\ row[f].flagged

AttentionEnds == \A f \in Findings : []<>~Flagged(f)

(* A pending harvest is done, given up, or made moot by the operator, unless *)
(* it goes on failing in ever changing ways: the streak counts failures that *)
(* are identical, so alternating ones are retried for ever                   *)
(* (record_harvest_failure).                                                 *)
FailsAlike(f) ==
  \E why \in Keys : <>[](At("count") /\ run.f = f => run.why = why)

PendingEnds ==
  \A f \in Findings : FailsAlike(f) => []<>~Pending(f)

(* The end of a PR is noticed, also when the daemon that withdrew it died    *)
(* before the finding was written.                                           *)
Unnoticed(f) == status[f] = "pr_open" /\ forge[f].state \in {"CLOSED", "MERGED"}

EndIsNoticed == \A f \in Findings : []<>~Unnoticed(f)

=============================================================================
