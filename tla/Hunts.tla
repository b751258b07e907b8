------------------------------- MODULE Hunts -------------------------------
(***************************************************************************)
(* The hunts of the repository rotation: which repo is hunted next, what   *)
(* range of commits the worker is given, the watermark a finished hunt     *)
(* leaves, full re-hunts that fall due or that the operator asks for, and  *)
(* the two-phase deletion of a repo (scheduler.rs select, run_hunt,        *)
(* sync_repo; the repos rows of store.rs; server.rs delete_repo, reap_repo,*)
(* request_rehunt, add_repo_note).                                         *)
(*                                                                         *)
(* A cycle that selects anything but a hunt stutters here.  Commits of the *)
(* default branch are numbered as they land; a first hunt's bounded range  *)
(* ("the last ~3 weeks") is taken to start before commit 1.                *)
(***************************************************************************)
EXTENDS Naturals

CONSTANTS
  NumRepos,     \* repos are 1..NumRepos, in the order of their names
  MaxTries,     \* MAX_RESUME_ATTEMPTS
  MaxClock,     \* bound: what the clock may read when a request is made
  MaxTip,       \* bound: commits that land on a default branch
  MaxAsks,      \* bound: full re-hunts the operator asks for
  MaxCrashes,   \* bound: times the daemon dies
  Operated,     \* the repos the operator deletes, pauses or writes notes for
  Faults        \* whether git and the file system may fail

Repos  == 1..NumRepos
NoRepo == 0

ASSUME HuntsAssumption ==
  /\ NumRepos \in Nat \ {0} /\ MaxTries \in Nat \ {0} /\ MaxClock \in Nat \ {0}
  /\ MaxTip \in Nat \ {0} /\ MaxAsks \in Nat /\ MaxCrashes \in Nat
  /\ Operated \subseteq Repos /\ Faults \in BOOLEAN

VARIABLES
  repo,      \* the repos table
  ahead,     \* by repo, the repos with an older last_hunt_at, or a lesser name
  disk,      \* repos/repo-<id> and the notes file of every repo
  chain,     \* the newest chain of hunt jobs of every repo
  tip,       \* origin's default branch
  pc, job,   \* the cycle and the locals of run_hunt
  todo,      \* flagged repos the cycle has yet to reap
  reaper,    \* reap_repo, as the cycle and as the delete handler run it
  noting,    \* the repo the notes handler has looked up under the lock
  fresh,     \* history: no hunt has read the newest request
  wanted,    \* history: the tip when the newest request was made
  swept,     \* history: up to where full hunts that finished reviewed
  reviewed,  \* history: the commits of the hunts that finished
  asks, crashes   \* what the bounds count

db   == <<repo, ahead, chain>>
past == <<fresh, wanted, swept, reviewed>>
cycle == <<pc, job, todo>>
hands == <<reaper, noting>>
vars == <<db, disk, tip, cycle, hands, past, asks, crashes>>

-----------------------------------------------------------------------------
Shas     == 0..MaxTip                  \* 0 for NULL
Requests == 0..(MaxClock + MaxAsks)    \* full_hunt_requested_at, 0 for NULL

Row == [status    : {"live", "deleted", "gone"},  \* deleted_at, row dropped
        enabled   : BOOLEAN,
        mark      : Shas,                         \* last_hunt_sha
        turn      : {"never", "waits", "due"},    \* last_hunt_at, scan interval
        fullAt    : {"never", "waits", "due"},    \* last_full_hunt_at, re-hunt interval
        requested : Requests,
        attempted : Requests,
        jobs      : BOOLEAN]                      \* jobs that reference it

Chain == [state   : {"none", "created", "working", "suspended", "done"},
          tries   : 0..MaxTries,
          pinned  : Shas,
          full    : BOOLEAN,     \* jobs.full_history
          request : Requests,    \* jobs.full_hunt_request
          from    : Shas,        \* the diff range in the worker's prompt
          told    : BOOLEAN]     \* history: it is the complete history
NoChain == [state |-> "none", tries |-> 0, pinned |-> 0, full |-> FALSE, request |-> 0,
            from |-> 0, told |-> FALSE]

Job == [repo    : Repos \cup {NoRepo},
        resume  : BOOLEAN,
        head    : Shas,
        last    : Shas,
        full    : BOOLEAN,    \* full_scope
        request : Requests,
        newest  : BOOLEAN]    \* history: request is the newest still
NoJob == [repo |-> NoRepo, resume |-> FALSE, head |-> 0, last |-> 0, full |-> FALSE,
          request |-> 0, newest |-> FALSE]

Pcs == {"idle", "reap", "read", "sync", "clone", "cloning", "fetch", "scope", "gate",
        "create", "mark", "tree", "work", "water", "full", "settle"}

Who  == {"cycle", "handler"}
Step == [repo : Repos \cup {NoRepo}, at : {"off", "dir", "notes", "row"}]
Off  == [repo |-> NoRepo, at |-> "off"]

TypeOK ==
  /\ repo \in [Repos -> Row]
  /\ ahead \in [Repos -> SUBSET Repos]
  /\ disk \in [Repos -> [dir : {"none", "partial", "clone"}, note : BOOLEAN]]
  /\ chain \in [Repos -> Chain]
  /\ tip \in [Repos -> 1..MaxTip]
  /\ pc \in Pcs /\ job \in Job /\ todo \subseteq Repos
  /\ reaper \in [Who -> Step] /\ noting \in Repos \cup {NoRepo}
  /\ fresh \in [Repos -> BOOLEAN] /\ wanted \in [Repos -> Shas]
  /\ swept \in [Repos -> Shas] /\ reviewed \in [Repos -> SUBSET (1..MaxTip)]
  /\ asks \in Nat /\ crashes \in Nat

Init ==
  /\ repo = [r \in Repos |-> [status |-> "live", enabled |-> TRUE, mark |-> 0,
                              turn |-> "never", fullAt |-> "never", requested |-> 0,
                              attempted |-> 0, jobs |-> FALSE]]
  /\ ahead = [r \in Repos |-> 1..(r - 1)]
  /\ disk = [r \in Repos |-> [dir |-> "none", note |-> FALSE]]
  /\ chain = [r \in Repos |-> NoChain]
  /\ tip = [r \in Repos |-> 1]
  /\ pc = "idle" /\ job = NoJob /\ todo = {}
  /\ reaper = [w \in Who |-> Off] /\ noting = NoRepo
  /\ fresh = [r \in Repos |-> FALSE] /\ wanted = [r \in Repos |-> 0]
  /\ swept = [r \in Repos |-> 0] /\ reviewed = [r \in Repos |-> {}]
  /\ asks = 0 /\ crashes = 0

-----------------------------------------------------------------------------
(* Repo rows *)

Live(r) == repo[r].status = "live"

Urgent(r) == repo[r].requested # 0 /\ repo[r].requested # repo[r].attempted

Later(a, b) == IF a > b THEN a ELSE b

(* What request_full_hunt writes when the clock reads now *)
NewRequest(r, now) ==
  Later(now, Later(repo[r].requested + 1, repo[r].attempted + 1))

(* last_hunt_at becomes now: r is the repo hunted last *)
BumpOrder(r) ==
  ahead' = [q \in Repos |-> IF q = r THEN Repos \ {r} ELSE ahead[q] \ {r}]

Took(row) == [row EXCEPT !.turn = "waits"]

-----------------------------------------------------------------------------
(* The start of a cycle: reconcile_and_log, then reap_deleted_repos *)

(* mutant: only the delete handler reclaims a repo *)
StartWithoutReaping ==
  /\ pc = "idle"
  /\ chain' = [r \in Repos |-> IF chain[r].state \in {"created", "working", "done"}
                               THEN NoChain ELSE chain[r]]
  /\ pc' = "reap" /\ job' = NoJob /\ todo' = {}
  /\ UNCHANGED <<repo, ahead, disk, tip, hands, past, asks, crashes>>

(* A job that was running when the daemon died is suspended when its worker *)
(* had done metered work and has gone, and killed otherwise.                *)
StartCycle ==
  /\ pc = "idle"
  /\ \E kept \in SUBSET {r \in Repos : chain[r].state = "working"} :
       chain' = [r \in Repos |->
                   IF r \in kept THEN [chain[r] EXCEPT !.state = "suspended"]
                   ELSE IF chain[r].state \in {"created", "working", "done"} THEN NoChain
                   ELSE chain[r]]
  /\ todo' = {r \in Repos : repo[r].status = "deleted"}
  /\ pc' = "reap" /\ job' = NoJob
  /\ UNCHANGED <<repo, ahead, disk, tip, hands, past, asks, crashes>>

(* mutant: the notes handler does not hold the lock *)
NotesUnlocked == \A w \in Who : reaper[w] = Off

(* repo_notes: delete_repo holds it to flag a row, add_repo_note for its *)
(* lookup and append, reap_repo throughout                               *)
LockFree == noting = NoRepo /\ \A w \in Who : reaper[w] = Off

ReapFlagged ==
  /\ pc = "reap" /\ LockFree
  /\ \E r \in todo :
       /\ reaper' = [reaper EXCEPT !["cycle"] = [repo |-> r, at |-> "dir"]]
       /\ todo' = todo \ {r}
  /\ UNCHANGED <<db, disk, tip, pc, job, noting, past, asks, crashes>>

(* reap_repo, a step per thing it removes *)
Goes(w, at) == reaper' = [reaper EXCEPT ![w] = [@ EXCEPT !.at = at]]
Stops(w)    == reaper' = [reaper EXCEPT ![w] = Off]

RemoveDir(w) ==
  /\ reaper[w].at = "dir"
  /\ disk' = [disk EXCEPT ![reaper[w].repo].dir = "none"]
  /\ Goes(w, "notes")
  /\ UNCHANGED <<db, tip, cycle, noting, past, asks, crashes>>

RemoveNotes(w) ==
  /\ reaper[w].at = "notes"
  /\ disk' = [disk EXCEPT ![reaper[w].repo].note = FALSE]
  /\ Goes(w, "row")
  /\ UNCHANGED <<db, tip, cycle, noting, past, asks, crashes>>

DropRow(w) ==
  /\ reaper[w].at = "row"
  /\ repo' = [repo EXCEPT ![reaper[w].repo].status =
                IF @ = "deleted" THEN "gone" ELSE @]
  /\ Stops(w)
  /\ UNCHANGED <<ahead, chain, disk, tip, cycle, noting, past, asks, crashes>>

(* A directory that cannot be removed, such as one git is writing to, or a *)
(* notes file that cannot: the row stays flagged.                          *)
RemovalFails(w) ==
  /\ \/ reaper[w].at = "dir" /\ (Faults \/ disk[reaper[w].repo].dir = "partial")
     \/ reaper[w].at = "notes" /\ Faults
  /\ Stops(w)
  /\ UNCHANGED <<db, disk, tip, cycle, noting, past, asks, crashes>>

Reaped(w) == RemoveDir(w) \/ RemoveNotes(w) \/ DropRow(w)

-----------------------------------------------------------------------------
(* Selection *)

Reconciled == pc = "reap" /\ todo = {} /\ reaper["cycle"] = Off

Resumable(r) == chain[r].state = "suspended" /\ Live(r)

(* The suspension is at the give-up ceiling, or from its second attempt on *)
(* has cost too much: this chain's turn is over.                           *)
GiveUp(r) ==
  /\ Reconciled /\ Resumable(r)
  /\ chain[r].tries = MaxTries \/ chain[r].tries >= 2
  /\ chain' = [chain EXCEPT ![r] = NoChain]
  /\ repo' = [repo EXCEPT ![r] = Took(@)] /\ BumpOrder(r)
  /\ UNCHANGED <<disk, tip, cycle, hands, past, asks, crashes>>

(* mutant: a chain is resumed without a ceiling *)
ResumeAlways(r) ==
  /\ Reconciled /\ Resumable(r)
  /\ job' = [NoJob EXCEPT !.repo = r, !.resume = TRUE, !.head = chain[r].pinned]
  /\ pc' = "read"
  /\ UNCHANGED <<db, disk, tip, todo, hands, past, asks, crashes>>

Resume(r) ==
  /\ Reconciled /\ Resumable(r) /\ chain[r].tries < MaxTries
  /\ job' = [NoJob EXCEPT !.repo = r, !.resume = TRUE, !.head = chain[r].pinned]
  /\ pc' = "read"
  /\ UNCHANGED <<db, disk, tip, todo, hands, past, asks, crashes>>

(* The rotation: urgent requests first, then repos never hunted, then the *)
(* one hunted longest ago, and by name.                                   *)
Before(q, r) ==
  \/ Urgent(q) /\ ~Urgent(r)
  \/ (Urgent(q) <=> Urgent(r)) /\ q \in ahead[r]

Huntable(r) ==
  /\ Live(r) /\ repo[r].enabled
  /\ disk[r].dir = "none" \/ Urgent(r) \/ repo[r].turn \in {"never", "due"}

Pick(r) ==
  /\ Reconciled /\ \A q \in Repos : ~Resumable(q)
  /\ Huntable(r)
  /\ \A q \in Repos \ {r} : Huntable(q) => Before(r, q)
  /\ job' = [NoJob EXCEPT !.repo = r]
  /\ pc' = "read"
  /\ UNCHANGED <<db, disk, tip, todo, hands, past, asks, crashes>>

(* Another tier, another kind of scan, or nothing at all *)
PickOther ==
  /\ Reconciled
  /\ \A q \in Repos : ~Resumable(q) /\ ~Huntable(q)
  /\ pc' = "idle"
  /\ UNCHANGED <<db, disk, tip, job, todo, hands, past, asks, crashes>>

-----------------------------------------------------------------------------
(* run_hunt *)

R == job.repo

(* The attempt is over and its turn taken (run_cycle_inner). *)
EndAttempt(row) ==
  /\ repo' = [repo EXCEPT ![R] = Took(row)] /\ BumpOrder(R)
  /\ pc' = "idle" /\ job' = NoJob

(* The cycle is over and the repo keeps its place in the rotation. *)
EndCycle == pc' = "idle" /\ job' = NoJob

(* run_repo_job reads the row; a repo deleted since it was picked is not found *)
ReadRow ==
  /\ pc = "read"
  /\ IF Live(R)
     THEN /\ job' = [job EXCEPT !.last = repo[R].mark, !.request = repo[R].requested,
                                !.newest = TRUE]
          /\ pc' = IF job.resume THEN "scope" ELSE "sync"
     ELSE EndCycle
  /\ UNCHANGED <<db, disk, tip, todo, hands, past, asks, crashes>>

(* The request this hunt read no longer jumps the queue. *)
Attempted(row) ==
  IF job.request # 0 THEN [row EXCEPT !.attempted = job.request] ELSE row
ReadNewest ==
  fresh' = [fresh EXCEPT ![R] = @ /\ ~(job.request # 0 /\ job.newest)]

(* sync_repo: a directory that is there is taken for the clone *)
Sync ==
  /\ pc = "sync"
  /\ pc' = IF disk[R].dir = "none" THEN "clone" ELSE "fetch"
  /\ UNCHANGED <<db, disk, tip, job, todo, hands, past, asks, crashes>>

(* git clone makes the directory, then fills it *)
CloneStarts ==
  /\ pc = "clone"
  /\ disk' = [disk EXCEPT ![R].dir = "partial"]
  /\ pc' = "cloning"
  /\ UNCHANGED <<db, tip, job, todo, hands, past, asks, crashes>>

CloneEnds ==
  /\ pc = "cloning" /\ disk[R].dir = "partial"
  /\ disk' = [disk EXCEPT ![R].dir = "clone"]
  /\ pc' = "fetch"
  /\ UNCHANGED <<db, tip, job, todo, hands, past, asks, crashes>>

Fetch ==
  /\ pc = "fetch" /\ disk[R].dir # "none"
  /\ job' = [job EXCEPT !.head = tip[R]]
  /\ pc' = "scope"
  /\ UNCHANGED <<db, disk, tip, todo, hands, past, asks, crashes>>

(* The clone or the fetch fails, of itself or because the directory has gone. *)
FetchFails ==
  /\ pc \in {"cloning", "fetch"}
  /\ Faults \/ disk[R].dir = "none"
  /\ disk' = IF pc = "cloning" THEN [disk EXCEPT ![R].dir = "none"] ELSE disk
  /\ EndAttempt(Attempted(repo[R])) /\ ReadNewest
  /\ UNCHANGED <<chain, tip, todo, hands, wanted, swept, reviewed, asks, crashes>>

RehuntDue == ~job.resume /\ (job.request # 0 \/ repo[R].fullAt = "due")

(* mutant: a resume does not know its chain's scope *)
ScopeForgotten == FALSE

(* A chain's jobs carry its scope.  The second disjunct is for chains from *)
(* before that column.                                                     *)
ResumedFull ==
  /\ job.resume
  /\ chain[R].full \/ (job.last = 0 /\ repo[R].fullAt # "never")

(* No commit since the watermark: nothing to review *)
Skip ==
  /\ pc = "scope" /\ ~job.resume /\ ~RehuntDue /\ job.last = job.head
  /\ repo' = [repo EXCEPT ![R] = [Took(@) EXCEPT !.mark = job.head]]
  /\ BumpOrder(R) /\ EndCycle
  /\ UNCHANGED <<chain, disk, tip, todo, hands, past, asks, crashes>>

(* The diff range.  A first hunt of a small repo takes its whole history. *)
Scope ==
  /\ pc = "scope" /\ (job.resume \/ RehuntDue \/ job.last # job.head)
  /\ LET last == IF RehuntDue THEN 0 ELSE job.last IN
       \E full \in BOOLEAN :
         /\ last # 0 => ~full
         /\ last = 0 /\ (RehuntDue \/ ResumedFull) => full
         /\ job' = [job EXCEPT !.last = last, !.full = full]
  /\ repo' = IF RehuntDue THEN [repo EXCEPT ![R].mark = 0] ELSE repo
  /\ pc' = "gate"
  /\ UNCHANGED <<ahead, chain, disk, tip, todo, hands, past, asks, crashes>>

Granted ==
  /\ pc = "gate" /\ pc' = "create"
  /\ UNCHANGED <<db, disk, tip, job, todo, hands, past, asks, crashes>>

Denied ==
  /\ pc = "gate" /\ EndCycle
  /\ UNCHANGED <<db, disk, tip, todo, hands, past, asks, crashes>>

(* create_job: a cold job supersedes what was suspended, a resumed one is *)
(* the next attempt of its chain; neither starts for a deleted repo.      *)
Create ==
  /\ pc = "create" /\ Live(R)
  /\ repo' = [repo EXCEPT ![R].jobs = TRUE]
  /\ chain' = [chain EXCEPT ![R] =
                 IF job.resume THEN [@ EXCEPT !.state = "created", !.tries = chain[R].tries + 1]
                 ELSE [NoChain EXCEPT !.state = "created", !.tries = 1]]
  /\ pc' = IF job.resume THEN "tree" ELSE "mark"
  /\ UNCHANGED <<ahead, disk, tip, job, todo, hands, past, asks, crashes>>

Refused ==
  /\ pc = "create" /\ ~Live(R) /\ EndCycle
  /\ UNCHANGED <<db, disk, tip, todo, hands, past, asks, crashes>>

(* mutant: the chain does not carry the request it answers *)
MarkScopeOnly ==
  /\ pc = "mark"
  /\ chain' = [chain EXCEPT ![R].full = job.full]
  /\ repo' = [repo EXCEPT ![R] = Attempted(@)] /\ ReadNewest
  /\ pc' = "tree"
  /\ UNCHANGED <<ahead, disk, tip, job, todo, hands, wanted, swept, reviewed, asks, crashes>>

(* mark_full_history and mark_full_hunt_attempted *)
Mark ==
  /\ pc = "mark"
  /\ chain' = [chain EXCEPT ![R].full = job.full,
                            ![R].request = IF job.full THEN job.request ELSE 0]
  /\ repo' = [repo EXCEPT ![R] = Attempted(@)] /\ ReadNewest
  /\ pc' = "tree"
  /\ UNCHANGED <<ahead, disk, tip, job, todo, hands, wanted, swept, reviewed, asks, crashes>>

(* A cold job's tree and prompt are made; a resumed one has both. *)
Launch ==
  /\ pc = "tree"
  /\ chain' = [chain EXCEPT ![R] =
                 IF job.resume THEN [@ EXCEPT !.state = "working"]
                 ELSE [@ EXCEPT !.state = "working", !.pinned = job.head,
                                !.from = job.last, !.told = job.full]]
  /\ pc' = "work"
  /\ UNCHANGED <<repo, ahead, disk, tip, job, todo, hands, past, asks, crashes>>

TreeNotMade ==
  /\ pc = "tree" /\ ~job.resume /\ Faults
  /\ chain' = [chain EXCEPT ![R] = NoChain]
  /\ EndAttempt(repo[R])
  /\ UNCHANGED <<disk, tip, todo, hands, past, asks, crashes>>

(* The run, or a write around it, breaks off: the row stays running until *)
(* the next cycle's reconciliation.                                       *)
RunBreaks ==
  /\ pc = "work" /\ Faults
  /\ EndAttempt(repo[R])
  /\ UNCHANGED <<chain, disk, tip, todo, hands, past, asks, crashes>>

(* A pause keeps the repo's place: the resume tier continues the chain. *)
WorkerPauses ==
  /\ pc = "work"
  /\ chain' = [chain EXCEPT ![R].state = "suspended"]
  /\ EndCycle
  /\ UNCHANGED <<repo, ahead, disk, tip, todo, hands, past, asks, crashes>>

(* mutant: a failed hunt takes no turn *)
FailsInPlace ==
  /\ pc = "work"
  /\ chain' = [chain EXCEPT ![R] = NoChain]
  /\ EndCycle
  /\ UNCHANGED <<repo, ahead, disk, tip, todo, hands, past, asks, crashes>>

(* Killed or failed; or done without a report or with an invalid entry in it *)
WorkerFails ==
  /\ pc = "work"
  /\ chain' = [chain EXCEPT ![R] = NoChain]
  /\ EndAttempt(repo[R])
  /\ UNCHANGED <<disk, tip, todo, hands, past, asks, crashes>>

(* Done, and every entry of the report ingested *)
WorkerFinishes ==
  /\ pc = "work"
  /\ chain' = [chain EXCEPT ![R].state = "done"]
  /\ reviewed' = [reviewed EXCEPT ![R] = @ \cup ((chain[R].from + 1)..chain[R].pinned)]
  /\ swept' = [swept EXCEPT ![R] = IF chain[R].told THEN Later(@, chain[R].pinned) ELSE @]
  /\ pc' = "water"
  /\ UNCHANGED <<repo, ahead, disk, tip, job, todo, hands, fresh, wanted, asks, crashes>>

(* mutant: the watermark is the tip of the branch *)
WaterAtTip ==
  /\ pc = "water"
  /\ repo' = [repo EXCEPT ![R] = [Took(@) EXCEPT !.mark = tip[R]]] /\ BumpOrder(R)
  /\ pc' = "full"
  /\ UNCHANGED <<chain, disk, tip, job, todo, hands, past, asks, crashes>>

(* set_last_hunt *)
SetLastHunt ==
  /\ pc = "water"
  /\ repo' = [repo EXCEPT ![R] = [Took(@) EXCEPT !.mark = chain[R].pinned]] /\ BumpOrder(R)
  /\ pc' = "full"
  /\ UNCHANGED <<chain, disk, tip, job, todo, hands, past, asks, crashes>>

(* set_last_full_hunt *)
SetLastFull ==
  /\ pc = "full"
  /\ repo' = [repo EXCEPT ![R].fullAt =
                IF job.full \/ @ = "never" THEN "waits" ELSE @]
  /\ pc' = "settle"
  /\ UNCHANGED <<ahead, chain, disk, tip, job, todo, hands, past, asks, crashes>>

(* mutant: a full hunt settles whatever request is pending *)
SettlesAny(row) == job.full

(* settle_full_hunt_request: only the request the chain accepted *)
Settles(row) == job.full /\ row.requested = chain[R].request

Settle ==
  /\ pc = "settle"
  /\ chain' = [chain EXCEPT ![R] = NoChain]
  /\ LET row == repo[R] IN
       EndAttempt(IF Settles(row) THEN [row EXCEPT !.requested = 0] ELSE row)
  /\ UNCHANGED <<disk, tip, todo, hands, past, asks, crashes>>

-----------------------------------------------------------------------------
(* The operator, and what the daemon does not control *)

(* request_rehunt *)
Ask(r) ==
  /\ Live(r) /\ asks < MaxAsks
  /\ \E now \in 1..MaxClock :
       repo' = [repo EXCEPT ![r].requested = NewRequest(r, now)]
  /\ asks' = asks + 1
  /\ fresh' = [fresh EXCEPT ![r] = TRUE] /\ wanted' = [wanted EXCEPT ![r] = tip[r]]
  /\ job' = IF job.repo = r THEN [job EXCEPT !.newest = FALSE] ELSE job
  /\ UNCHANGED <<ahead, chain, disk, tip, pc, todo, hands, swept, reviewed, crashes>>

(* update_repo: pause a repo or take it up again *)
Toggle(r) ==
  /\ Live(r) /\ r \in Operated /\ repo' = [repo EXCEPT ![r].enabled = ~@]
  /\ UNCHANGED <<ahead, chain, disk, tip, cycle, hands, past, asks, crashes>>

(* delete_repo, phase one; without jobs there are no findings *)
SoftDelete(r) ==
  /\ Live(r) /\ r \in Operated /\ LockFree /\ ~repo[r].jobs
  /\ repo' = [repo EXCEPT ![r].status = "deleted"]
  /\ UNCHANGED <<ahead, chain, disk, tip, cycle, hands, past, asks, crashes>>

(* delete_repo, phase two, of the same request or of one sent again *)
ReapNow(r) ==
  /\ repo[r].status = "deleted" /\ LockFree
  /\ reaper' = [reaper EXCEPT !["handler"] = [repo |-> r, at |-> "dir"]]
  /\ UNCHANGED <<db, disk, tip, cycle, noting, past, asks, crashes>>

(* add_repo_note: the lookup and the append, under the lock *)
NoteFor(r) ==
  /\ Live(r) /\ r \in Operated /\ LockFree
  /\ noting' = r
  /\ UNCHANGED <<db, disk, tip, cycle, reaper, past, asks, crashes>>

AppendNote ==
  /\ noting # NoRepo
  /\ disk' = [disk EXCEPT ![noting].note = TRUE]
  /\ noting' = NoRepo
  /\ UNCHANGED <<db, tip, cycle, reaper, past, asks, crashes>>

Push(r) ==
  /\ tip[r] < MaxTip /\ tip' = [tip EXCEPT ![r] = @ + 1]
  /\ UNCHANGED <<db, disk, cycle, hands, past, asks, crashes>>

ScanFallsDue(r) ==
  /\ repo[r].turn = "waits" /\ repo' = [repo EXCEPT ![r].turn = "due"]
  /\ UNCHANGED <<ahead, chain, disk, tip, cycle, hands, past, asks, crashes>>

FullFallsDue(r) ==
  /\ repo[r].fullAt = "waits" /\ repo' = [repo EXCEPT ![r].fullAt = "due"]
  /\ UNCHANGED <<ahead, chain, disk, tip, cycle, hands, past, asks, crashes>>

(* Every task of the process dies with it; the disk and the database stay. *)
Crash ==
  /\ crashes < MaxCrashes /\ crashes' = crashes + 1
  /\ pc' = "idle" /\ job' = NoJob /\ todo' = {}
  /\ reaper' = [w \in Who |-> Off] /\ noting' = NoRepo
  /\ UNCHANGED <<db, disk, tip, past, asks>>

-----------------------------------------------------------------------------
Reaping    == \/ ReapFlagged
              \/ \E w \in Who : Reaped(w) \/ RemovalFails(w)
Selecting  == \/ StartCycle \/ PickOther
              \/ \E r \in Repos : GiveUp(r) \/ Resume(r) \/ Pick(r)
Fetching   == ReadRow \/ Sync \/ CloneStarts \/ CloneEnds \/ Fetch \/ FetchFails
Opening    == Skip \/ Scope \/ Granted \/ Denied \/ Create \/ Refused \/ Mark
              \/ Launch \/ TreeNotMade
Working    == RunBreaks \/ WorkerPauses \/ WorkerFails \/ WorkerFinishes
Concluding == SetLastHunt \/ SetLastFull \/ Settle
Operator   == \/ \E r \in Repos : Ask(r) \/ Toggle(r) \/ SoftDelete(r) \/ ReapNow(r) \/ NoteFor(r)
              \/ AppendNote
Elsewhere  == \/ \E r \in Repos : Push(r) \/ ScanFallsDue(r) \/ FullFallsDue(r)
              \/ Crash

Daemon == Selecting \/ Fetching \/ Opening \/ Working \/ Concluding
Next   == Reaping \/ Daemon \/ Operator \/ Elsewhere

Spec == Init /\ [][Next]_vars

(* The loop runs on, the lock is fair, and a removal does not fail every time. *)
ReapFairness ==
  /\ WF_vars(Daemon)
  /\ \A w \in Who : WF_vars(Reaped(w) \/ RemovalFails(w))
  /\ WF_vars(AppendNote)
  /\ SF_vars(ReapFlagged)
  /\ SF_vars(RemoveDir("cycle")) /\ SF_vars(RemoveNotes("cycle"))

ReapSpec == Spec /\ ReapFairness

(* The loop runs on and time passes; a repo is not denied a budget every *)
(* time, and does not fail every hunt of its complete history.  Its      *)
(* incremental hunts may all fail.                                       *)
HuntFairness ==
  /\ WF_vars(Daemon)
  /\ \A r \in Repos : /\ WF_vars(ScanFallsDue(r))
                      /\ SF_vars(R = r /\ Granted)
                      /\ SF_vars(R = r /\ job.full /\ WorkerFinishes)

HuntSpec == Spec /\ HuntFairness

-----------------------------------------------------------------------------
(* A hunt's watermark names a commit up to which every commit of the branch *)
(* has been in the range of a hunt that finished, however far the branch    *)
(* moved while its chain was paused (run_hunt: the watermark is the chain's *)
(* pinned commit; a failed hunt leaves it where it was).                    *)
ReviewedToMark ==
  \A r \in Repos : 1..repo[r].mark \subseteq reviewed[r]

(* A full re-hunt the operator asked for is off the row only once a hunt of *)
(* the complete history has finished whose tree holds every commit there    *)
(* was when he asked last (settle_full_hunt_request).                       *)
RequestIsAnswered ==
  \A r \in Repos : repo[r].requested = 0 => wanted[r] <= swept[r]

(* A request no hunt has read jumps the queue, whatever the clock says and   *)
(* whichever hunts were under way when it was made (request_full_hunt: the  *)
(* value identifies the request and never repeats).                         *)
NewRequestIsUrgent ==
  \A r \in Repos : fresh[r] => Urgent(r)

(* The attempt that concludes a chain takes it for a full hunt exactly when *)
(* the chain's first prompt named the complete history, whatever happened   *)
(* to the row in between (run_hunt, resumed_full).  A repo never fully      *)
(* hunted is left out: any finished hunt counts as its first full one.      *)
ScopeSurvivesResume ==
  pc \in {"water", "full"} /\ repo[R].fullAt # "never" =>
    (job.full <=> chain[R].told)

(* A deleted repo has no job and never gets one, although the cycle may have *)
(* picked it before the deletion (soft_delete_repo, create_job).             *)
DeletedHasNoJobs ==
  \A r \in Repos : ~Live(r) => ~repo[r].jobs /\ chain[r] = NoChain

(* A repo's row is dropped only after its notes, and no note is written for a *)
(* repo whose row is gone (reap_repo and add_repo_note share a lock).         *)
NoNotesWithoutRow ==
  \A r \in Repos : repo[r].status = "gone" => ~disk[r].note

(* A repo whose hunt is due, or that was never hunted, has its turn unless it *)
(* is paused or deleted: no other repo's failing, suspended or requested      *)
(* hunts starve it (run_cycle_inner's bump, resume_plan's give-up).           *)
EveryRepoIsHunted ==
  \A r \in Repos : []<>(repo[r].turn = "waits" \/ ~repo[r].enabled \/ ~Live(r))

(* A full re-hunt that is asked for is eventually settled, unless the repo is *)
(* paused or deleted: neither a failed hunt nor a crash between any two of    *)
(* the writes of the hunt that took it up loses it (mark_full_hunt_attempted, *)
(* settle_full_hunt_request).                                                 *)
RequestIsSettled ==
  \A r \in Repos : []<>(repo[r].requested = 0 \/ ~repo[r].enabled \/ ~Live(r))

(* A deleted repo's files are reclaimed and its row dropped, across crashes *)
(* and failed removals (reap_deleted_repos before every cycle).             *)
DeletedIsReclaimed ==
  \A r \in Repos : (repo[r].status = "deleted") ~> (repo[r].status = "gone")

=============================================================================
