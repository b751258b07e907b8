------------------------------- MODULE Recheck -------------------------------
(***************************************************************************)
(* The recheck tier: a finding an operator sends back to be judged against *)
(* the code as it is now, worked on by chains of resumable attempts until a*)
(* verdict is recorded or three identical failures return it to the inbox  *)
(* (hunter-rs/src/scheduler.rs, store.rs, server.rs).                      *)
(*                                                                         *)
(* One finding is followed.  FixChain shows that one chain at most is live *)
(* and how its rows are linked, so a chain is one record here: its newest  *)
(* attempt, how many were suspended, and its tree.  A slot is used again   *)
(* once nothing of its chain is left, which makes the runs endless.        *)
(***************************************************************************)
EXTENDS Naturals, FiniteSets

CONSTANTS
  Habits,         \* sets of Endings; a worker keeps to one set all along
  Asked,          \* the overrides the operator sets, a subset of Modes
  Survive,        \* may a worker outlive a daemon that was started by hand?
  MaxChains,      \* bound: chains with something left of them at once
  MaxAttempts,    \* MAX_RESUME_ATTEMPTS
  MaxSameFailure, \* MAX_CONSECUTIVE_SAME_FAILURE
  MaxTip,         \* bound: commits the default branch ever has
  MaxTroubles,    \* bound: times the daemon dies, or a write or call fails
  MaxAsks         \* bound: operator requests

Modes   == {"none", "once", "exempt"}
Endings == {"verdict", "unclear", "silent", "pause", "fail", "unavailable"}

ASSUME RecheckAssumption ==
  /\ Habits \subseteq SUBSET Endings
  /\ Asked \subseteq Modes
  /\ Survive \in BOOLEAN
  /\ MaxChains \in Nat /\ MaxAttempts \in Nat /\ MaxSameFailure \in Nat
  /\ MaxTip \in Nat \ {0}
  /\ MaxTroubles \in Nat /\ MaxAsks \in Nat

VARIABLES
  finding,   \* the findings row
  chain,     \* the chains of recheck jobs
  file,      \* out/recheck<id>.json, one file for every attempt
  tip,       \* how many commits the default branch has upstream
  pc,        \* where the scheduler task is
  run,       \* its locals
  habit,     \* how the workers of this behaviour end
  failed,    \* failures counted since the operator asked last, up to the limit
  troubles, asks   \* what the bounds count

bounds == <<troubles, asks>>
vars   == <<finding, chain, file, tip, pc, run, habit, failed, bounds>>

Chains   == 1..MaxChains
Commits  == 0..MaxTip      \* 0: none
Verdicts == {"confirmed", "stale", "invalid"}
Says     == {"verdict", "unclear"}   \* one of Verdicts, or none of them
Failures == {"none", "gaveup", "tree", "worker", "no_file", "unclear"}

NoStreak == [n |-> 0, why |-> "none"]
NoChain  == [live |-> "no", tries |-> 0, spent |-> FALSE, tree |-> FALSE,
             at |-> 0, stray |-> FALSE]
NoFile   == [says |-> "nothing", at |-> 0, stray |-> FALSE]
NoRun    == [c |-> 0, resume |-> FALSE, at |-> 0, mode |-> "none", old |-> {},
             end |-> "none", read |-> NoFile, why |-> "none", ended |-> FALSE]

Pcs == {"down", "boot", "reconcile", "sweep", "pick", "plan", "start", "sync",
        "gate", "create", "open", "unlink", "work", "record", "close", "read",
        "settle", "count", "back", "clear", "spend"}

TypeOK ==
  /\ finding \in [status : {"new", "rechecking", "rejected", "superseded"},
                  streak : [n : Nat, why : Failures], override : Modes,
                  anchor : Commits]
  /\ chain \in [Chains -> [live : {"no", "running", "paused"}, tries : Nat,
                           spent : BOOLEAN, tree : BOOLEAN, at : Commits,
                           stray : BOOLEAN]]
  /\ file \in [says : Says \cup {"nothing"}, at : Commits, stray : BOOLEAN]
  /\ tip \in Commits /\ pc \in Pcs /\ habit \in Habits /\ failed \in Nat
  /\ run \in [c : 0..MaxChains, resume : BOOLEAN, at : Commits, mode : Modes,
              old : SUBSET Chains, end : {"none", "done", "pause", "fail"},
              read : [says : Says \cup {"nothing"}, at : Commits,
                      stray : BOOLEAN],
              why : Failures, ended : BOOLEAN]
  /\ troubles \in Nat /\ asks \in Nat

Init ==
  /\ finding = [status |-> "new", streak |-> NoStreak, override |-> "none",
                anchor |-> 0]
  /\ chain = [c \in Chains |-> NoChain]
  /\ file = NoFile /\ tip = 1
  /\ pc = "reconcile" /\ run = NoRun
  /\ habit \in Habits /\ failed = 0
  /\ troubles = 0 /\ asks = 0

-----------------------------------------------------------------------------
At(p)    == pc = p
Goto(p)  == pc' = p /\ UNCHANGED run
EndCycle == pc' = "reconcile" /\ run' = NoRun
Fault    == troubles < MaxTroubles /\ troubles' = troubles + 1 /\ UNCHANGED asks
World    == <<file, tip, habit, failed, bounds>>

Over(row)   == [row EXCEPT !.live = "no", !.tries = 0]
Paused(row) == [row EXCEPT !.live = "paused", !.tries = @ + 1]

(* release_if_idle, and nothing to remember once no worker is left *)
Forgotten(row) ==
  IF row.live = "no" /\ ~row.tree /\ ~row.stray THEN NoChain ELSE row
Swept(row) == Forgotten([row EXCEPT !.tree = @ /\ row.live # "no"])

(* Nothing is left of a chain: its slot stands for the next one. *)
Free(c) == chain[c] = NoChain

(* The first step of the daemon, and of every cycle *)
Boot == At("down") /\ Goto("boot") /\ UNCHANGED <<finding, chain, World>>

(* reconcile_and_log: an orphan that did work, and whose worker is gone, is *)
(* suspended; every other one is killed.  The finding stays rechecking.     *)
Orphaned(row) == IF row.spent /\ ~row.stray THEN Paused(row) ELSE Over(row)

Reconcile ==
  /\ At("reconcile") /\ Goto("sweep")
  /\ chain' = [c \in Chains |->
       IF chain[c].live = "running" THEN Orphaned(chain[c]) ELSE chain[c]]
  /\ UNCHANGED <<finding, World>>

(* sweep: suspensions of a finding that has moved on are retired, then the *)
(* trees of the chains that are over are released.  No handler writes what *)
(* either half reads but the finding's status, so the two are one step.    *)
Sweep(here, next) ==
  /\ At(here) /\ Goto(next)
  /\ chain' = [c \in Chains |->
       Swept(IF chain[c].live = "paused" /\ finding.status # "rechecking"
               THEN Over(chain[c]) ELSE chain[c])]
  /\ UNCHANGED <<finding, World>>

-----------------------------------------------------------------------------
(* Selection: finding_pick and resume_plan for the recheck tier *)

PickRecheck ==
  /\ At("pick")
  /\ IF finding.status = "rechecking" THEN Goto("plan") ELSE EndCycle
  /\ UNCHANGED <<finding, chain, World>>

Offered(c) == At("plan") /\ chain[c].live = "paused"

WorkdirGone(c) ==
  /\ Offered(c) /\ ~chain[c].tree
  /\ chain' = [chain EXCEPT ![c] = Over(@)]
  /\ UNCHANGED <<finding, pc, run, World>>

ResumeChain(c) ==
  /\ Offered(c) /\ chain[c].tree /\ chain[c].tries < MaxAttempts
  /\ pc' = "start" /\ run' = [run EXCEPT !.c = c, !.resume = TRUE]
  /\ UNCHANGED <<finding, chain, World>>

(* What an attempt costs is not modelled: from two on a chain may have cost *)
(* too much.  A retirement that does not land leaves a fresh start.         *)
GiveUpChain(c) ==
  /\ Offered(c) /\ chain[c].tree
  /\ chain[c].tries >= MaxAttempts \/ chain[c].tries >= 2
  /\ \/ /\ chain' = [chain EXCEPT ![c] = Over(@)]
        /\ pc' = "count" /\ run' = [run EXCEPT !.why = "gaveup"]
        /\ UNCHANGED bounds
     \/ Fault /\ Goto("start") /\ UNCHANGED chain
  /\ UNCHANGED <<finding, file, tip, habit, failed>>

StartFresh ==
  /\ At("plan") /\ \A c \in Chains : chain[c].live # "paused"
  /\ Goto("start")
  /\ UNCHANGED <<finding, chain, World>>

-----------------------------------------------------------------------------
(* run_recheck: up to the worker *)

(* run_finding_job reads the row; its override is used until the run ends. *)
Start ==
  /\ At("start") /\ finding.status = "rechecking"
  /\ run' = [run EXCEPT !.mode = finding.override]
  /\ pc' = IF run.resume THEN "gate" ELSE "sync"
  /\ UNCHANGED <<finding, chain, World>>

(* sync_repo, of a cold start only; a clone that cannot be synced ends the *)
(* cycle, uncounted.                                                       *)
SyncRepo ==
  /\ At("sync") /\ pc' = "gate" /\ run' = [run EXCEPT !.at = tip]
  /\ UNCHANGED <<finding, chain, World>>
SyncFails == At("sync") /\ EndCycle /\ UNCHANGED <<finding, chain, World>>

Granted == At("gate") /\ Goto("create") /\ UNCHANGED <<finding, chain, World>>
Denied  == At("gate") /\ EndCycle /\ UNCHANGED <<finding, chain, World>>

(* create_job: a cold start supersedes what is still suspended. *)
CreateResumed ==
  /\ At("create") /\ run.resume
  /\ chain' = [chain EXCEPT ![run.c].live = "running", ![run.c].spent = FALSE]
  /\ pc' = "open" /\ run' = [run EXCEPT !.at = chain[run.c].at]
  /\ UNCHANGED <<finding, World>>

CreateFresh ==
  LET old == {c \in Chains : chain[c].live = "paused"}
      new == CHOOSE c \in Chains : Free(c)
  IN /\ At("create") /\ ~run.resume /\ \E c \in Chains : Free(c)
     /\ chain' = [c \in Chains |->
          CASE c = new   -> [NoChain EXCEPT !.live = "running"]
            [] c \in old -> Over(chain[c])
            [] OTHER     -> chain[c]]
     /\ pc' = "open" /\ run' = [run EXCEPT !.c = new, !.old = old]
     /\ UNCHANGED <<finding, World>>

CreateFails ==
  At("create") /\ Fault /\ EndCycle
  /\ UNCHANGED <<finding, chain, file, tip, habit, failed>>

OpenResumed ==
  /\ At("open") /\ run.resume /\ Goto("work")
  /\ UNCHANGED <<finding, chain, World>>

(* open_workspace of a cold start, and what it does when a step fails: the *)
(* commit cannot be recorded (the row stays running), or the tree cannot   *)
(* be made (the job failed, and it counts).                                *)
Released == [c \in Chains |-> IF c \in run.old THEN Swept(chain[c]) ELSE chain[c]]

OpenFresh ==
  /\ At("open") /\ ~run.resume
  /\ \/ /\ chain' = [Released EXCEPT ![run.c].tree = TRUE, ![run.c].at = run.at]
        /\ \/ Goto("unlink") /\ UNCHANGED bounds
           \/ Fault /\ EndCycle
     \/ /\ Fault
        /\ chain' = [Released EXCEPT ![run.c] = Swept(Over(@))]
        /\ pc' = "count" /\ run' = [run EXCEPT !.why = "tree"]
  /\ UNCHANGED <<finding, file, tip, habit, failed>>

(* mutant: the file of an earlier attempt stays where it is *)
UnlinkNothing ==
  /\ At("unlink") /\ Goto("work")
  /\ UNCHANGED <<finding, chain, World>>

(* A file that cannot be removed is not noticed. *)
Unlink ==
  /\ At("unlink") /\ Goto("work")
  /\ \/ file' = NoFile /\ UNCHANGED bounds
     \/ Fault /\ file # NoFile /\ file' = [file EXCEPT !.stray = TRUE]
  /\ UNCHANGED <<finding, chain, tip, habit, failed>>

-----------------------------------------------------------------------------
(* The worker *)

Works(c) == chain[c].stray \/ (At("work") /\ run.c = c)

Written(c, says) ==
  [says |-> says, at |-> chain[c].at, stray |-> chain[c].stray]

WorkerSpends(c) ==
  /\ Works(c) /\ ~chain[c].spent
  /\ chain' = [chain EXCEPT ![c].spent = TRUE]
  /\ UNCHANGED <<finding, pc, run, World>>

WorkerWrites(c, says) ==
  /\ Works(c) /\ chain[c].spent
  /\ says \in habit
  /\ file' = Written(c, says)
  /\ UNCHANGED <<finding, chain, tip, pc, run, habit, failed, bounds>>

(* Backend::run returns: done with or without an answer written last,      *)
(* paused, killed or failed, or not spawned because the transcript is gone.*)
WorkerReturns(end) ==
  /\ At("work") /\ end \in habit
  /\ end \notin {"fail", "unavailable"} => chain[run.c].spent
  /\ end = "unavailable" => run.resume /\ ~chain[run.c].spent
  /\ file' = IF end \in Says THEN Written(run.c, end) ELSE file
  /\ pc' = "record"
  /\ run' = [run EXCEPT !.end = CASE end = "pause" -> "pause"
                                  [] end \in {"fail", "unavailable"} -> "fail"
                                  [] OTHER -> "done"]
  /\ UNCHANGED <<finding, chain, tip, habit, failed, bounds>>

(* The prompt cannot be built, or Backend::run is an error. *)
WorkerNotRun ==
  /\ At("work") /\ ~chain[run.c].spent /\ Fault /\ EndCycle
  /\ UNCHANGED <<finding, chain, file, tip, habit, failed>>

-----------------------------------------------------------------------------
(* run_recheck: from the worker's end *)

(* record_job; an outcome that is not recorded leaves the row running and *)
(* is taken for a failure.                                                *)
Record ==
  /\ At("record") /\ pc' = "close"
  /\ \/ /\ chain' = [chain EXCEPT ![run.c] =
                      IF run.end = "pause" THEN Paused(@) ELSE Over(@)]
        /\ UNCHANGED <<run, bounds>>
     \/ Fault /\ run' = [run EXCEPT !.end = "fail"] /\ UNCHANGED chain
  /\ UNCHANGED <<finding, file, tip, habit, failed>>

(* close_workspace; a suspension ends here, uncounted. *)
Close ==
  /\ At("close") /\ Goto(IF run.end = "pause" THEN "spend" ELSE "read")
  /\ chain' = [chain EXCEPT ![run.c] = Swept(@)]
  /\ UNCHANGED <<finding, World>>

(* The verdict is read only when the worker finished. *)
Read ==
  /\ At("read")
  /\ IF run.end = "done" /\ file.says = "verdict"
       THEN pc' = "settle" /\ run' = [run EXCEPT !.read = file]
       ELSE /\ pc' = "count"
            /\ run' = [run EXCEPT !.why =
                 CASE run.end # "done" -> "worker"
                   [] run.end = "done" /\ file = NoFile -> "no_file"
                   [] OTHER -> "unclear"]
  /\ UNCHANGED <<finding, chain, World>>

(* Confirmed: back to the inbox.  Stale: superseded, without an anchor.    *)
(* Invalid: rejected, anchored at the commit the attempt was pinned to.    *)
(* A write that fails is logged, and the run goes on.                      *)
Settle ==
  /\ At("settle") /\ Goto("clear")
  /\ \/ /\ \E verdict \in Verdicts :
             finding' =
               CASE verdict = "confirmed" -> [finding EXCEPT !.status = "new"]
                 [] verdict = "stale" ->
                      [finding EXCEPT !.status = "superseded", !.anchor = 0]
                 [] verdict = "invalid" ->
                      [finding EXCEPT !.status = "rejected", !.anchor = run.at]
        /\ UNCHANGED bounds
     \/ Fault /\ UNCHANGED finding
  /\ UNCHANGED <<chain, file, tip, habit, failed>>

-----------------------------------------------------------------------------
(* handle_recheck_failure, and what follows it where it is called *)

(* After a given-up chain: select again, or start fresh in this cycle.  *)
(* After a tree that was not made nothing ran, so nothing is spent.     *)
Resumed(ended) ==
  CASE run.why = "gaveup" /\ ended  -> pc' = "pick" /\ run' = NoRun
    [] run.why = "gaveup" /\ ~ended -> pc' = "start" /\ run' = NoRun
    [] run.why = "tree"             -> EndCycle
    [] OTHER                        -> Goto("spend")

(* mutant: every failure starts a new streak *)
CountedAnew(why) == [n |-> 1, why |-> why]

(* mutant: a failure is filed under how the worker ended *)
CountedByEnd(why) == [n |-> finding.streak.n + 1, why |-> run.end]

Counted(why) ==
  [n |-> IF finding.streak.why = why THEN finding.streak.n + 1 ELSE 1,
   why |-> why]

(* record_recheck_attempt *)
Count ==
  /\ At("count")
  /\ \/ /\ finding' = [finding EXCEPT !.streak = Counted(run.why)]
        /\ failed' = IF failed < MaxSameFailure THEN failed + 1 ELSE failed
        /\ IF Counted(run.why).n < MaxSameFailure THEN Resumed(FALSE)
                                                  ELSE Goto("back")
        /\ UNCHANGED bounds
     \/ Fault /\ Resumed(FALSE) /\ UNCHANGED <<finding, failed>>
  /\ UNCHANGED <<chain, file, tip, habit>>

(* The third identical failure: back to the inbox, then the streak is reset. *)
Back ==
  /\ At("back")
  /\ \/ /\ finding' = [finding EXCEPT !.status = "new"]
        /\ pc' = "clear" /\ run' = [run EXCEPT !.ended = TRUE]
        /\ UNCHANGED bounds
     \/ Fault /\ Resumed(FALSE) /\ UNCHANGED finding
  /\ UNCHANGED <<chain, file, tip, habit, failed>>

(* mutant: a streak outlives the request it was counted for *)
ClearNothing ==
  /\ At("clear")
  /\ IF run.ended THEN Resumed(TRUE) ELSE Goto("spend")
  /\ UNCHANGED <<finding, chain, World>>

(* clear_recheck_attempts *)
Clear ==
  /\ At("clear")
  /\ \/ finding' = [finding EXCEPT !.streak = NoStreak] /\ UNCHANGED bounds
     \/ Fault /\ UNCHANGED finding
  /\ IF run.ended THEN Resumed(TRUE) ELSE Goto("spend")
  /\ UNCHANGED <<chain, file, tip, habit, failed>>

(* A one-shot override is spent: the one the row had when the run started. *)
Spend ==
  /\ At("spend") /\ EndCycle
  /\ IF run.mode = "once"
       THEN \/ finding' = [finding EXCEPT !.override = "none"] /\ UNCHANGED bounds
            \/ Fault /\ UNCHANGED finding
       ELSE UNCHANGED <<finding, bounds>>
  /\ UNCHANGED <<chain, file, tip, habit, failed>>

-----------------------------------------------------------------------------
(* The operator and the world *)

Asks == ~At("down") /\ asks < MaxAsks /\ asks' = asks + 1
        /\ UNCHANGED <<chain, file, tip, pc, run, habit, troubles>>

(* POST /api/recheck: from the inbox only *)
Ask ==
  /\ Asks /\ finding.status = "new" /\ failed' = 0
  /\ finding' = [finding EXCEPT !.status = "rechecking"]

(* POST /api/override, of this finding or of all *)
Override(mode) ==
  /\ Asks /\ finding.override # mode /\ UNCHANGED failed
  /\ finding' = [finding EXCEPT !.override = mode]

Crash ==
  /\ ~At("down") /\ Fault
  /\ pc' = "down" /\ run' = NoRun
  /\ chain' \in {chain} \cup
       (IF Survive /\ At("work") THEN {[chain EXCEPT ![run.c].stray = TRUE]}
                                 ELSE {})
  /\ UNCHANGED <<finding, file, tip, habit, failed>>

StrayExits(c) ==
  /\ chain[c].stray
  /\ chain' = [chain EXCEPT ![c] = Forgotten([@ EXCEPT !.stray = FALSE])]
  /\ UNCHANGED <<finding, pc, run, World>>

(* Somebody removes the tree of a suspended chain by hand. *)
TreeLost(c) ==
  /\ chain[c].live = "paused" /\ chain[c].tree /\ Fault
  /\ chain' = [chain EXCEPT ![c].tree = FALSE]
  /\ UNCHANGED <<finding, file, tip, pc, run, habit, failed>>

Push ==
  /\ tip < MaxTip /\ tip' = tip + 1
  /\ UNCHANGED <<finding, chain, file, pc, run, habit, failed, bounds>>

-----------------------------------------------------------------------------
Passes == Boot \/ Sweep("boot", "reconcile") \/ Reconcile \/ Sweep("sweep", "pick")

Select == PickRecheck \/ StartFresh
            \/ \E c \in Chains : WorkdirGone(c) \/ ResumeChain(c) \/ GiveUpChain(c)

Opening == Start \/ SyncRepo \/ SyncFails \/ Granted \/ Denied \/ CreateResumed
             \/ CreateFresh \/ CreateFails \/ OpenResumed \/ OpenFresh \/ Unlink

Settling == Record \/ Close \/ Read \/ Settle \/ Count \/ Back \/ Clear \/ Spend

Worker == \/ \E c \in Chains : WorkerSpends(c) \/ \E s \in Says : WorkerWrites(c, s)
          \/ \E end \in Endings : WorkerReturns(end)
          \/ WorkerNotRun

Operator == Ask \/ \E mode \in Asked : Override(mode)

Environment == Crash \/ Push \/ \E c \in Chains : StrayExits(c) \/ TreeLost(c)

Next == Passes \/ Select \/ Opening \/ Worker \/ Settling \/ Operator \/ Environment

Spec == Init /\ [][Next]_vars

(* The daemon is one loop under a supervisor; a worker does something or is *)
(* stopped at its wall-clock limit; a worker left over from a dead daemon   *)
(* ends; the clone can be synced and the budget granted again and again.    *)
Fairness ==
  /\ WF_vars(Passes \/ Select \/ Opening \/ Settling)
  /\ WF_vars(\E c \in Chains : run.c = c /\ WorkerSpends(c))
  /\ WF_vars(\E end \in Endings : WorkerReturns(end))
  /\ WF_vars(\E c \in Chains : StrayExits(c))
  /\ SF_vars(SyncRepo) /\ SF_vars(Granted)

LiveSpec == Spec /\ Fairness

-----------------------------------------------------------------------------
(* A verdict is recorded only of the tree the attempt was pinned to, and a   *)
(* rejection is anchored at that commit: no attempt reads the answer another *)
(* chain left in the finding's one file.  The exceptions are the two the     *)
(* code cannot see: a worker that outlived its daemon and writes late, and a *)
(* file that cannot be removed (run_recheck removes it on a cold run only).  *)
VerdictIsOfItsTree ==
  At("settle") /\ ~run.read.stray => run.read.at = run.at

(* A finding is sent back to the inbox as stuck only after as many failures  *)
(* of this request as the ceiling asks for; only a daemon that died, or a    *)
(* write that failed, between the status and the streak leaves a streak that *)
(* the next request pays for (handle_recheck_failure, clear_recheck_attempts)*)
GivenUpOnItsOwn ==
  [][At("back") /\ finding'.status = "new"
       => failed >= MaxSameFailure \/ troubles > 0]_vars

(* A recheck that was asked for ends, also when every worker fails in the    *)
(* same way or is paused for good, and whatever the daemon's death leaves:   *)
(* the tier never works on one finding for ever (handle_recheck_failure,     *)
(* count_given_up_chain, reconcile_and_log).  Workers that fail in turn in   *)
(* different ways are not counted together, so they are left out.            *)
RecheckEnds ==
  (finding.status = "rechecking" /\ Cardinality(habit \ {"verdict"}) <= 1)
     ~> finding.status # "rechecking"

=============================================================================
