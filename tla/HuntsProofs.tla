---------------------------- MODULE HuntsProofs ----------------------------
(***************************************************************************)
(* Theorems about Hunts for every number of repos and every value of the   *)
(* ceilings and bounds: every variable keeps its type, and the six safety  *)
(* properties the runs check hold.                                         *)
(*                                                                         *)
(* The argument is one inductive invariant, Inv, of eight parts: types,    *)
(* then life (jobs and deletion), the lock, what was asked, what was       *)
(* reviewed, the shape of the chain run_hunt works on, what it answers and *)
(* its scope.  Lemmas first say field by field what each group of steps    *)
(* does to rows, chains and locals; each part then has one lemma per group *)
(* of steps.  Answers need the shape and what was asked, scope needs both  *)
(* and the answers; the others stand alone.                                *)
(***************************************************************************)
EXTENDS Hunts, TLAPS

(* The steps of run_hunt before its job row is written, and after *)
Pre     == {"read", "sync", "clone", "cloning", "fetch", "scope", "gate", "create"}
Created == {"mark", "tree", "work", "water", "full", "settle"}

(* Which repo a step works on, and what keeps the counters in their types *)
Locals ==
  /\ pc \in {"idle", "reap"} => job = NoJob
  /\ pc \notin {"idle", "reap"} => R \in Repos
  /\ \A w \in Who : reaper[w].at # "off" => reaper[w].repo \in Repos
  /\ pc \in Pre /\ job.resume => chain[R].tries < MaxTries

Counted ==
  /\ asks <= MaxAsks
  /\ job.request <= MaxClock + asks
  /\ \A r \in Repos : /\ repo[r].requested <= MaxClock + asks
                      /\ repo[r].attempted <= MaxClock + asks

TypeInv == TypeOK /\ Locals /\ Counted

-----------------------------------------------------------------------------
(* Types *)

LEMMA Constants ==
  /\ NoJob \in Job /\ NoChain \in Chain /\ Off \in Step
  /\ NoJob.repo = NoRepo /\ NoRepo \notin Repos /\ NoJob.request = 0
  /\ 0 \in Requests /\ 0 \in Shas
BY HuntsAssumption DEF NoJob, Job, NoChain, Chain, Off, Step, NoRepo, Repos, Requests, Shas

LEMMA TookRow ==
  ASSUME NEW row \in Row
  PROVE  Took(row) \in Row /\ Took(row) = [row EXCEPT !.turn = "waits"]
BY DEF Took, Row

LEMMA StatusRow ==
  ASSUME NEW row \in Row, NEW s \in {"live", "deleted", "gone"}
  PROVE  /\ [row EXCEPT !.status = s] \in Row
         /\ [row EXCEPT !.status = s].requested = row.requested
         /\ [row EXCEPT !.status = s].attempted = row.attempted
BY DEF Row

LEMMA SwitchedRow ==
  ASSUME NEW row \in Row, NEW b \in BOOLEAN
  PROVE  /\ [row EXCEPT !.enabled = b] \in Row
         /\ [row EXCEPT !.enabled = b].requested = row.requested
         /\ [row EXCEPT !.enabled = b].attempted = row.attempted
BY DEF Row

LEMMA RequestedRow ==
  ASSUME NEW row \in Row, NEW n \in Requests
  PROVE  [row EXCEPT !.requested = n] \in Row
BY DEF Row

LEMMA DueRow ==
  ASSUME NEW row \in Row
  PROVE  /\ [row EXCEPT !.turn = "due"] \in Row /\ [row EXCEPT !.fullAt = "due"] \in Row
         /\ [row EXCEPT !.turn = "due"].requested = row.requested
         /\ [row EXCEPT !.turn = "due"].attempted = row.attempted
         /\ [row EXCEPT !.fullAt = "due"].requested = row.requested
         /\ [row EXCEPT !.fullAt = "due"].attempted = row.attempted
BY DEF Row

(* A step that writes one row and nothing else the invariant reads *)
LEMMA TypeRowOnly ==
  ASSUME TypeInv, NEW r \in Repos, NEW row \in Row, repo' = [repo EXCEPT ![r] = row],
         row.requested = repo[r].requested, row.attempted = repo[r].attempted,
         UNCHANGED <<ahead, chain, disk, tip, cycle, hands, past, asks, crashes>>
  PROVE  TypeInv'
<1>1. UNCHANGED <<ahead, chain, disk, tip, pc, job, todo, reaper, noting, fresh, wanted,
                  swept, reviewed, asks, crashes>>
  BY DEF cycle, hands, past
<1> QED
  BY <1>1 DEF TypeInv, TypeOK, Locals, Counted, R

LEMMA NextAttempt ==
  ASSUME NEW c \in Chain, NEW n \in 0..MaxTries
  PROVE  [c EXCEPT !.state = "created", !.tries = n] \in Chain
BY DEF Chain

LEMMA TypeInit ==
  ASSUME Init PROVE TypeInv
<1>1. repo \in [Repos -> Row]
  BY Constants DEF Init, Row
<1>2. ahead \in [Repos -> SUBSET Repos]
  BY HuntsAssumption DEF Init, Repos
<1>3. tip \in [Repos -> 1..MaxTip]
  BY HuntsAssumption DEF Init
<1>4. TypeOK
  BY <1>1, <1>2, <1>3, Constants DEF Init, TypeOK, Pcs
<1> QED
  BY <1>1, <1>4, Constants, HuntsAssumption DEF Init, TypeInv, Locals, Counted, R, Off, Pre

(* An ended attempt's row is a row with requests in their bounds. *)
LEMMA TypeEnd ==
  ASSUME TypeInv, R \in Repos, NEW row \in Row,
         row.requested <= MaxClock + asks, row.attempted <= MaxClock + asks,
         EndAttempt(row), chain' \in [Repos -> Chain], UNCHANGED asks, reaper' = reaper
  PROVE  /\ repo' \in [Repos -> Row] /\ ahead' \in [Repos -> SUBSET Repos]
         /\ pc' \in Pcs /\ job' \in Job /\ Locals' /\ Counted'
<1>1. Took(row) \in Row /\ Took(row).requested = row.requested
        /\ Took(row).attempted = row.attempted
  BY DEF Took, Row
<1>2. repo' = [repo EXCEPT ![R] = Took(row)] /\ pc' = "idle" /\ job' = NoJob
  BY DEF EndAttempt
<1>3. repo' \in [Repos -> Row]
  BY <1>1, <1>2 DEF TypeInv, TypeOK
<1>4. ahead' \in [Repos -> SUBSET Repos]
  BY DEF EndAttempt, BumpOrder, TypeInv, TypeOK
<1>5. Locals'
  BY <1>2 DEF Locals, TypeInv, Pre
<1>6. Counted'
  BY <1>1, <1>2, <1>3, Constants, HuntsAssumption DEF Counted, TypeInv, TypeOK
<1> QED
  BY <1>2, <1>3, <1>4, <1>5, <1>6, Constants DEF Pcs

LEMMA TypeAttempted ==
  ASSUME TypeInv, R \in Repos
  PROVE  /\ Attempted(repo[R]) \in Row
         /\ Attempted(repo[R]).requested = repo[R].requested
         /\ Attempted(repo[R]).attempted <= MaxClock + asks
<1>1. repo[R] \in Row /\ job.request \in Requests /\ job.request <= MaxClock + asks
        /\ repo[R].attempted <= MaxClock + asks
  BY DEF TypeInv, TypeOK, Counted, Job
<1>2. [repo[R] EXCEPT !.attempted = job.request] \in Row
        /\ [repo[R] EXCEPT !.attempted = job.request].requested = repo[R].requested
        /\ [repo[R] EXCEPT !.attempted = job.request].attempted = job.request
  BY <1>1 DEF Row
<1> QED
  BY <1>1, <1>2 DEF Attempted

(* Writing one row whose requests keep their bounds *)
LEMMA TypeRow ==
  ASSUME TypeInv, NEW r \in Repos, NEW row \in Row, repo' = [repo EXCEPT ![r] = row],
         row.requested = repo[r].requested, row.attempted <= MaxClock + asks,
         asks' = asks, job'.request <= MaxClock + asks
  PROVE  repo' \in [Repos -> Row] /\ Counted'
BY DEF TypeInv, TypeOK, Counted

LEMMA TypeReaping ==
  ASSUME TypeInv, Reaping PROVE TypeInv'
<1> USE DEF TypeInv, TypeOK, db, cycle, hands, past
<1>1. CASE ReapFlagged
  <2>1. PICK r \in todo : /\ reaper' = [reaper EXCEPT !["cycle"] = [repo |-> r, at |-> "dir"]]
                          /\ todo' = todo \ {r}
    BY <1>1 DEF ReapFlagged
  <2>2. reaper' \in [Who -> Step]
    BY <2>1 DEF Step
  <2> QED
    BY <1>1, <2>1, <2>2 DEF ReapFlagged, Locals, Counted, R
<1>2. ASSUME NEW w \in Who, Stops(w) PROVE reaper' \in [Who -> Step] /\ 
       \A v \in Who : reaper'[v].at # "off" => reaper[v].at # "off" /\ reaper'[v].repo = reaper[v].repo
  BY <1>2, Constants DEF Stops, Off
<1>3. ASSUME NEW w \in Who, NEW at \in {"dir", "notes", "row"}, Goes(w, at), reaper[w].at # "off"
      PROVE reaper' \in [Who -> Step] /\ 
       \A v \in Who : reaper'[v].at # "off" => reaper[v].at # "off" /\ reaper'[v].repo = reaper[v].repo
  BY <1>3 DEF Goes, Step
<1>4. ASSUME NEW w \in Who, RemoveDir(w) PROVE TypeInv'
  BY <1>3, <1>4 DEF RemoveDir, Locals, Counted, R
<1>5. ASSUME NEW w \in Who, RemoveNotes(w) PROVE TypeInv'
  BY <1>3, <1>5 DEF RemoveNotes, Locals, Counted, R
<1>6. ASSUME NEW w \in Who, DropRow(w) PROVE TypeInv'
  <2> DEFINE q   == reaper[w].repo
             now == IF repo[q].status = "deleted" THEN "gone" ELSE repo[q].status
             row == [repo[q] EXCEPT !.status = now]
  <2>1. q \in Repos
    BY <1>6 DEF DropRow, Locals
  <2>3. repo' = [repo EXCEPT ![q] = row]
    BY <1>6 DEF DropRow
  <2>2. row \in Row /\ row.requested = repo[q].requested /\ row.attempted = repo[q].attempted
    <3>1. now \in {"live", "deleted", "gone"}
      BY <2>1 DEF Row
    <3>2. repo[q] \in Row
      BY <2>1
    <3> HIDE DEF now, q
    <3> QED
      BY <3>1, <3>2, StatusRow
  <2>4. repo[q].attempted <= MaxClock + asks /\ job.request <= MaxClock + asks
    BY <2>1 DEF Counted
  <2> HIDE DEF q, row
  <2>5. asks' = asks /\ job' = job
    BY <1>6 DEF DropRow
  <2>6. repo' \in [Repos -> Row] /\ Counted'
    BY <2>1, <2>2, <2>3, <2>4, <2>5, TypeRow
  <2> QED
    BY <1>2, <1>6, <2>6 DEF DropRow, Locals, R
<1>7. ASSUME NEW w \in Who, RemovalFails(w) PROVE TypeInv'
  BY <1>2, <1>7 DEF RemovalFails, Locals, Counted, R
<1> QED
  BY <1>1, <1>4, <1>5, <1>6, <1>7 DEF Reaping, Reaped

LEMMA TypeSelecting ==
  ASSUME TypeInv, Selecting PROVE TypeInv'
<1> USE DEF TypeInv, TypeOK, db, cycle, hands, past, Pcs
<1>1. CASE StartCycle
  <2>1. ASSUME NEW r \in Repos PROVE [chain[r] EXCEPT !.state = "suspended"] \in Chain
    BY DEF Chain
  <2>2. chain' \in [Repos -> Chain]
    BY <1>1, <2>1, Constants DEF StartCycle
  <2> QED
    BY <1>1, <2>2, Constants, HuntsAssumption DEF StartCycle, Locals, Counted, Pre
<1>2. CASE PickOther
  BY <1>2 DEF PickOther, Reconciled, Locals, Counted, Pre
<1>3. ASSUME NEW r \in Repos, GiveUp(r) PROVE TypeInv'
  <2>1. Took(repo[r]) \in Row /\ Took(repo[r]).requested = repo[r].requested
          /\ Took(repo[r]).attempted = repo[r].attempted
    BY TookRow DEF Row
  <2>2. repo' = [repo EXCEPT ![r] = Took(repo[r])] /\ asks' = asks /\ job' = job
    BY <1>3 DEF GiveUp
  <2>5. repo[r].attempted <= MaxClock + asks /\ job.request <= MaxClock + asks
    BY DEF Counted
  <2>3. repo' \in [Repos -> Row] /\ Counted'
    BY <2>1, <2>2, <2>5, TypeRow
  <2>4. chain' \in [Repos -> Chain] /\ ahead' \in [Repos -> SUBSET Repos]
    BY <1>3, Constants DEF GiveUp, BumpOrder
  <2> QED
    BY <1>3, <2>3, <2>4 DEF GiveUp, Reconciled, Locals, Pre, R
<1>4. ASSUME NEW r \in Repos, Resume(r) PROVE TypeInv'
  <2>1. chain[r].pinned \in Shas
    BY DEF Chain
  <2>2. job' \in Job /\ job'.repo = r /\ job'.request = 0
    BY <1>4, <2>1, Constants DEF Resume, NoJob, Job
  <2> QED
    BY <1>4, <2>2, HuntsAssumption DEF Resume, Locals, Counted, R, Pre
<1>5. ASSUME NEW r \in Repos, Pick(r) PROVE TypeInv'
  <2>1. job' \in Job /\ job'.repo = r /\ job'.request = 0 /\ ~job'.resume
    BY <1>5, Constants DEF Pick, NoJob, Job
  <2> QED
    BY <1>5, <2>1, HuntsAssumption DEF Pick, Locals, Counted, R, Pre
<1> QED
  BY <1>1, <1>2, <1>3, <1>4, <1>5 DEF Selecting

(* The cycle's end, with the repo's turn taken or not *)
LEMMA TypeEndCycle ==
  ASSUME TypeInv, EndCycle, asks' = asks, reaper' = reaper, chain' \in [Repos -> Chain],
         repo' = repo
  PROVE  pc' \in Pcs /\ job' \in Job /\ Locals' /\ Counted'
BY Constants, HuntsAssumption DEF EndCycle, TypeInv, TypeOK, Locals, Counted, Pre, Pcs

LEMMA TypeFetching ==
  ASSUME TypeInv, Fetching PROVE TypeInv'
<1> USE DEF TypeInv, TypeOK, db, cycle, hands, past, Pcs
<1>1. CASE ReadRow
  <2>1. CASE ~Live(R)
    BY <1>1, <2>1, TypeEndCycle DEF ReadRow
  <2>2. CASE Live(R)
    <3>1. R \in Repos
      BY <1>1 DEF ReadRow, Locals
    <3>2. repo[R].mark \in Shas /\ repo[R].requested \in Requests
            /\ repo[R].requested <= MaxClock + asks
      BY <3>1 DEF Row, Counted
    <3>3. job' \in Job /\ job'.repo = R /\ job'.request = repo[R].requested
            /\ job'.resume = job.resume
      BY <1>1, <2>2, <3>2 DEF ReadRow, Job, R
    <3> QED
      BY <1>1, <2>2, <3>1, <3>2, <3>3 DEF ReadRow, Locals, Counted, R, Pre
  <2> QED
    BY <2>1, <2>2
<1>2. CASE Sync
  BY <1>2 DEF Sync, Locals, Counted, R, Pre
<1>3. CASE CloneStarts
  BY <1>3 DEF CloneStarts, Locals, Counted, R, Pre
<1>4. CASE CloneEnds
  BY <1>4 DEF CloneEnds, Locals, Counted, R, Pre
<1>5. CASE Fetch
  <2>1. R \in Repos
    BY <1>5 DEF Fetch, Locals
  <2>2. tip[R] \in Shas
    BY <2>1, HuntsAssumption DEF Shas
  <2>3. job' \in Job /\ job'.repo = R /\ job'.request = job.request
            /\ job'.resume = job.resume
    BY <1>5, <2>2 DEF Fetch, Job, R
  <2> QED
    BY <1>5, <2>1, <2>3 DEF Fetch, Locals, Counted, R, Pre
<1>6. CASE FetchFails
  <2>1. R \in Repos
    BY <1>6 DEF FetchFails, Locals
  <2>2. repo[R].requested <= MaxClock + asks
    BY <2>1 DEF Counted
  <2>3. disk' \in [Repos -> [dir : {"none", "partial", "clone"}, note : BOOLEAN]]
    BY <1>6, <2>1 DEF FetchFails
  <2>4. fresh' \in [Repos -> BOOLEAN]
    BY <1>6, <2>1 DEF FetchFails, ReadNewest, Job
  <2> QED
    BY <1>6, <2>1, <2>2, <2>3, <2>4, TypeEnd, TypeAttempted DEF FetchFails
<1> QED
  BY <1>1, <1>2, <1>3, <1>4, <1>5, <1>6 DEF Fetching

LEMMA TypeOpening ==
  ASSUME TypeInv, Opening PROVE TypeInv'
<1> USE DEF TypeInv, TypeOK, db, cycle, hands, past, Pcs
<1>1. pc \in {"scope", "gate", "create", "mark", "tree"} /\ R \in Repos
  BY DEF Opening, Skip, Scope, Granted, Denied, Create, Refused, Mark, Launch,
         TreeNotMade, Locals
<1>2. /\ repo[R] \in Row /\ chain[R] \in Chain /\ job.head \in Shas /\ job.last \in Shas
      /\ job.full \in BOOLEAN /\ job.request \in Requests
      /\ repo[R].attempted <= MaxClock + asks /\ repo[R].requested <= MaxClock + asks
      /\ job.request <= MaxClock + asks
  BY <1>1 DEF Job, Counted
<1>3. CASE Skip
  <2> DEFINE row == [Took(repo[R]) EXCEPT !.mark = job.head]
  <2>1. row \in Row /\ row.requested = repo[R].requested /\ row.attempted = repo[R].attempted
    BY <1>2 DEF Took, Row
  <2>2. EndAttempt(row)
    BY <1>3, <2>1 DEF Skip, EndCycle, EndAttempt, Took
  <2> HIDE DEF row
  <2> QED
    BY <1>1, <1>2, <1>3, <2>1, <2>2, TypeEnd DEF Skip
<1>4. CASE Scope
  <2>1. job' \in Job /\ job'.repo = R /\ job'.request = job.request
            /\ job'.resume = job.resume
    <3>1. PICK last \in Shas, full \in BOOLEAN : job' = [job EXCEPT !.last = last, !.full = full]
      BY <1>2, <1>4, Constants DEF Scope
    <3> QED
      BY <3>1 DEF Job, R
  <2>2. [repo[R] EXCEPT !.mark = 0] \in Row
          /\ [repo[R] EXCEPT !.mark = 0].requested = repo[R].requested
          /\ [repo[R] EXCEPT !.mark = 0].attempted = repo[R].attempted
    BY <1>2, Constants DEF Row
  <2>3. repo' = repo \/ repo' = [repo EXCEPT ![R] = [repo[R] EXCEPT !.mark = 0]]
    BY <1>4 DEF Scope
  <2>4. asks' = asks /\ chain' = chain /\ reaper' = reaper /\ pc = "scope" /\ pc' = "gate"
    BY <1>4 DEF Scope
  <2>5. repo' \in [Repos -> Row] /\ Counted'
    <3>1. CASE repo' = repo
      BY <1>2, <2>1, <2>4, <3>1 DEF Counted
    <3>2. CASE repo' = [repo EXCEPT ![R] = [repo[R] EXCEPT !.mark = 0]]
      BY <1>1, <1>2, <2>1, <2>2, <2>4, <3>2, TypeRow
    <3> QED
      BY <2>3, <3>1, <3>2
  <2>6. Locals'
    BY <1>1, <2>1, <2>4 DEF Locals, R, Pre
  <2> QED
    BY <1>4, <2>1, <2>4, <2>5, <2>6 DEF Scope
<1>5. CASE Granted
  BY <1>5 DEF Granted, Locals, Counted, R, Pre
<1>6. CASE Denied
  BY <1>6, TypeEndCycle DEF Denied
<1>7. CASE Create
  <2> DEFINE row == [repo[R] EXCEPT !.jobs = TRUE]
  <2>1. row \in Row /\ row.requested = repo[R].requested /\ row.attempted = repo[R].attempted
    BY <1>2 DEF Row
  <2>2. repo' = [repo EXCEPT ![R] = row] /\ asks' = asks /\ job' = job
    BY <1>7 DEF Create
  <2> HIDE DEF row
  <2>3. repo' \in [Repos -> Row] /\ Counted'
    BY <1>1, <1>2, <2>1, <2>2, TypeRow
  <2>4. ASSUME job.resume
        PROVE  [chain[R] EXCEPT !.state = "created", !.tries = chain[R].tries + 1] \in Chain
    <3>1. chain[R].tries + 1 \in 0..MaxTries
      BY <1>2, <1>7, <2>4, HuntsAssumption DEF Create, Locals, Pre, Chain
    <3> QED
      BY <1>2, <3>1 DEF Chain
  <2>5. [NoChain EXCEPT !.state = "created", !.tries = 1] \in Chain
    <3>1. NoChain \in Chain /\ 1 \in 0..MaxTries
      BY Constants, HuntsAssumption
    <3> QED
      BY ONLY <3>1, NextAttempt
  <2>6. chain' \in [Repos -> Chain]
    <3>1. CASE job.resume
      <4> DEFINE new == [chain[R] EXCEPT !.state = "created", !.tries = chain[R].tries + 1]
      <4>1. chain' = [chain EXCEPT ![R] = new]
        BY <1>7, <3>1 DEF Create
      <4>2. new \in Chain
        BY <2>4, <3>1
      <4> HIDE DEF new
      <4> QED
        BY <4>1, <4>2
    <3>2. CASE ~job.resume
      <4> DEFINE new == [NoChain EXCEPT !.state = "created", !.tries = 1]
      <4>1. chain' = [chain EXCEPT ![R] = new]
        BY <1>7, <3>2 DEF Create
      <4>2. new \in Chain
        BY <2>5
      <4> HIDE DEF new
      <4> QED
        BY <4>1, <4>2
    <3> QED
      BY <3>1, <3>2
  <2>7. pc' \in {"mark", "tree"}
    BY <1>7 DEF Create
  <2> QED
    BY <1>1, <1>7, <2>3, <2>6, <2>7 DEF Create, Locals, R, Pre
<1>8. CASE Refused
  BY <1>8, TypeEndCycle DEF Refused
<1>9. CASE Mark
  <2>1. [chain[R] EXCEPT !.full = job.full, !.request = IF job.full THEN job.request ELSE 0]
          \in Chain
    BY <1>2, Constants DEF Chain
  <2>2. chain' \in [Repos -> Chain]
    BY <1>9, <2>1 DEF Mark
  <2>3. repo' = [repo EXCEPT ![R] = Attempted(repo[R])] /\ asks' = asks /\ job' = job
    BY <1>9 DEF Mark
  <2>4. repo' \in [Repos -> Row] /\ Counted'
    BY <1>1, <1>2, <2>3, TypeAttempted, TypeRow
  <2>5. fresh' \in [Repos -> BOOLEAN]
    BY <1>1, <1>9 DEF Mark, ReadNewest, Job
  <2> QED
    BY <1>1, <1>9, <2>2, <2>4, <2>5 DEF Mark, Locals, R, Pre
<1>10. CASE Launch
  <2>1. [chain[R] EXCEPT !.state = "working"] \in Chain
          /\ [chain[R] EXCEPT !.state = "working", !.pinned = job.head,
                 !.from = job.last, !.told = job.full] \in Chain
    BY <1>2 DEF Chain
  <2>2. chain' \in [Repos -> Chain]
    BY <1>10, <2>1 DEF Launch
  <2> QED
    BY <1>1, <1>10, <2>2 DEF Launch, Locals, Counted, R, Pre
<1>11. CASE TreeNotMade
  <2>1. chain' \in [Repos -> Chain]
    BY <1>11, Constants DEF TreeNotMade
  <2> QED
    BY <1>1, <1>2, <1>11, <2>1, TypeEnd DEF TreeNotMade
<1> QED
  BY <1>3, <1>4, <1>5, <1>6, <1>7, <1>8, <1>9, <1>10, <1>11 DEF Opening

LEMMA TypeWorking ==
  ASSUME TypeInv, Working PROVE TypeInv'
<1> USE DEF TypeInv, TypeOK, db, cycle, hands, past, Pcs
<1>1. pc = "work" /\ R \in Repos
  BY DEF Working, RunBreaks, WorkerPauses, WorkerFails, WorkerFinishes, Locals
<1>2. /\ repo[R] \in Row /\ chain[R] \in Chain
      /\ repo[R].attempted <= MaxClock + asks /\ repo[R].requested <= MaxClock + asks
  BY <1>1 DEF Counted
<1>3. CASE RunBreaks
  BY <1>1, <1>2, <1>3, TypeEnd DEF RunBreaks
<1>4. CASE WorkerPauses
  <2>1. [chain[R] EXCEPT !.state = "suspended"] \in Chain
    BY <1>2 DEF Chain
  <2>2. chain' \in [Repos -> Chain]
    BY <1>4, <2>1 DEF WorkerPauses
  <2> QED
    BY <1>4, <2>2, TypeEndCycle DEF WorkerPauses
<1>5. CASE WorkerFails
  <2>1. chain' \in [Repos -> Chain]
    BY <1>5, Constants DEF WorkerFails
  <2> QED
    BY <1>1, <1>2, <1>5, <2>1, TypeEnd DEF WorkerFails
<1>6. CASE WorkerFinishes
  <2>1. [chain[R] EXCEPT !.state = "done"] \in Chain
    BY <1>2 DEF Chain
  <2>2. chain' \in [Repos -> Chain]
    BY <1>6, <2>1 DEF WorkerFinishes
  <2>3. chain[R].from \in Shas /\ chain[R].pinned \in Shas
    BY <1>2 DEF Chain
  <2>4. (chain[R].from + 1)..chain[R].pinned \subseteq 1..MaxTip
    BY <2>3, HuntsAssumption DEF Shas
  <2>5. reviewed' \in [Repos -> SUBSET (1..MaxTip)]
    BY <1>6, <2>4 DEF WorkerFinishes
  <2>6. swept' \in [Repos -> Shas]
    BY <1>6, <2>3 DEF WorkerFinishes, Later
  <2> QED
    BY <1>1, <1>6, <2>2, <2>5, <2>6 DEF WorkerFinishes, Locals, Counted, R, Pre
<1> QED
  BY <1>3, <1>4, <1>5, <1>6 DEF Working

LEMMA TypeConcluding ==
  ASSUME TypeInv, Concluding PROVE TypeInv'
<1> USE DEF TypeInv, TypeOK, db, cycle, hands, past, Pcs
<1>1. pc \in {"water", "full", "settle"} /\ R \in Repos
  BY DEF Concluding, SetLastHunt, SetLastFull, Settle, Locals
<1>2. /\ repo[R] \in Row /\ chain[R].pinned \in Shas /\ job.request <= MaxClock + asks
      /\ repo[R].attempted <= MaxClock + asks /\ repo[R].requested <= MaxClock + asks
  BY <1>1 DEF Counted, Chain
<1>3. CASE SetLastHunt
  <2> DEFINE row == [Took(repo[R]) EXCEPT !.mark = chain[R].pinned]
  <2>1. row \in Row /\ row.requested = repo[R].requested /\ row.attempted = repo[R].attempted
    BY <1>2 DEF Took, Row
  <2>2. repo' = [repo EXCEPT ![R] = row] /\ asks' = asks /\ job' = job
    BY <1>3 DEF SetLastHunt
  <2>3. ahead' \in [Repos -> SUBSET Repos]
    BY <1>3 DEF SetLastHunt, BumpOrder
  <2> HIDE DEF row
  <2>4. repo' \in [Repos -> Row] /\ Counted'
    BY <1>1, <1>2, <2>1, <2>2, TypeRow
  <2> QED
    BY <1>1, <1>3, <2>3, <2>4 DEF SetLastHunt, Locals, R, Pre
<1>4. CASE SetLastFull
  <2> DEFINE at  == IF job.full \/ repo[R].fullAt = "never" THEN "waits" ELSE repo[R].fullAt
             row == [repo[R] EXCEPT !.fullAt = at]
  <2>1. repo' = [repo EXCEPT ![R] = row] /\ asks' = asks /\ job' = job
    BY <1>4 DEF SetLastFull
  <2>2. at \in {"never", "waits", "due"}
    BY <1>2 DEF Row
  <2> HIDE DEF at
  <2>3. row \in Row /\ row.requested = repo[R].requested /\ row.attempted = repo[R].attempted
    BY <1>2, <2>2 DEF Row
  <2> HIDE DEF row
  <2>4. repo' \in [Repos -> Row] /\ Counted'
    BY <1>1, <1>2, <2>1, <2>3, TypeRow
  <2> QED
    BY <1>1, <1>4, <2>4 DEF SetLastFull, Locals, R, Pre
<1>5. CASE Settle
  <2> DEFINE row == IF Settles(repo[R]) THEN [repo[R] EXCEPT !.requested = 0] ELSE repo[R]
  <2>1. /\ [repo[R] EXCEPT !.requested = 0] \in Row
        /\ [repo[R] EXCEPT !.requested = 0].requested = 0
        /\ [repo[R] EXCEPT !.requested = 0].attempted = repo[R].attempted
    BY <1>2, Constants DEF Row
  <2>2. row \in Row /\ row.requested <= MaxClock + asks /\ row.attempted <= MaxClock + asks
    BY <1>2, <2>1, HuntsAssumption
  <2>3. chain' \in [Repos -> Chain] /\ EndAttempt(row)
    BY <1>5, Constants DEF Settle
  <2> HIDE DEF row
  <2> QED
    BY <1>1, <1>5, <2>2, <2>3, TypeEnd DEF Settle
<1> QED
  BY <1>3, <1>4, <1>5 DEF Concluding

(* A new request is later than every one of the repo's, and in its bound. *)
LEMMA RequestsGrow ==
  ASSUME TypeInv, NEW r \in Repos, NEW now \in 1..MaxClock
  PROVE  /\ NewRequest(r, now) \in Nat
         /\ NewRequest(r, now) > repo[r].requested
         /\ NewRequest(r, now) > repo[r].attempted
         /\ NewRequest(r, now) <= MaxClock + asks + 1
<1>1. /\ repo[r].requested \in Nat /\ repo[r].requested <= MaxClock + asks
      /\ repo[r].attempted \in Nat /\ repo[r].attempted <= MaxClock + asks
  BY DEF TypeInv, TypeOK, Counted, Row, Requests
<1> QED
  BY <1>1, HuntsAssumption DEF NewRequest, Later, TypeInv, TypeOK

LEMMA TypeOperator ==
  ASSUME TypeInv, Operator PROVE TypeInv'
<1> USE DEF TypeInv, TypeOK, db, cycle, hands, past, Pcs
<1>1. ASSUME NEW r \in Repos, Ask(r) PROVE TypeInv'
  <2>1. PICK now \in 1..MaxClock : repo' = [repo EXCEPT ![r].requested = NewRequest(r, now)]
    BY <1>1 DEF Ask
  <2> DEFINE new == NewRequest(r, now)
  <2>2. new \in Nat /\ new <= MaxClock + asks + 1
    BY RequestsGrow
  <2>3. asks' = asks + 1 /\ asks' \in Nat /\ asks' <= MaxAsks
    BY <1>1, HuntsAssumption DEF Ask, Counted
  <2>4. new \in Requests
    BY <2>2, <2>3, HuntsAssumption DEF Requests
  <2> HIDE DEF new
  <2>5. repo' = [repo EXCEPT ![r].requested = new]
    BY <2>1 DEF new
  <2>6. repo' \in [Repos -> Row]
    <3>1. repo' = [repo EXCEPT ![r] = [repo[r] EXCEPT !.requested = new]]
      BY <2>5
    <3>2. [repo[r] EXCEPT !.requested = new] \in Row
      BY <2>4, RequestedRow
    <3> QED
      BY <3>1, <3>2
  <2>7. job' \in Job /\ job'.repo = R /\ job'.request = job.request /\ job'.resume = job.resume
    BY <1>1 DEF Ask, Job, R
  <2>8. job = NoJob => job' = NoJob
    BY <1>1, Constants DEF Ask
  <2>9. Counted'
    BY <2>2, <2>3, <2>5, <2>7, HuntsAssumption DEF Counted, Row, Job, Requests
  <2>10. Locals'
    BY <1>1, <2>7, <2>8 DEF Ask, Locals, R
  <2> QED
    BY <1>1, <2>3, <2>6, <2>7, <2>9, <2>10, HuntsAssumption DEF Ask, Shas
<1>2. ASSUME NEW r \in Repos, Toggle(r) PROVE TypeInv'
  <2> DEFINE row == [repo[r] EXCEPT !.enabled = ~repo[r].enabled]
  <2>1. repo[r] \in Row /\ repo[r].enabled \in BOOLEAN
    BY DEF Row
  <2>2. row \in Row /\ row.requested = repo[r].requested /\ row.attempted = repo[r].attempted
    BY <2>1, SwitchedRow
  <2>3. repo' = [repo EXCEPT ![r] = row]
    BY <1>2 DEF Toggle
  <2> HIDE DEF row
  <2> QED
    BY <1>2, <2>2, <2>3, TypeRowOnly DEF Toggle
<1>3. ASSUME NEW r \in Repos, SoftDelete(r) PROVE TypeInv'
  <2> DEFINE row == [repo[r] EXCEPT !.status = "deleted"]
  <2>1. repo[r] \in Row /\ repo[r].enabled \in BOOLEAN
    BY DEF Row
  <2>2. row \in Row /\ row.requested = repo[r].requested /\ row.attempted = repo[r].attempted
    BY <2>1, StatusRow
  <2>3. repo' = [repo EXCEPT ![r] = row]
    BY <1>3 DEF SoftDelete
  <2> HIDE DEF row
  <2> QED
    BY <1>3, <2>2, <2>3, TypeRowOnly DEF SoftDelete
<1>4. ASSUME NEW r \in Repos, ReapNow(r) PROVE TypeInv'
  <2>1. [repo |-> r, at |-> "dir"] \in Step
    BY DEF Step
  <2> QED
    BY <1>4, <2>1 DEF ReapNow, Locals, Counted, R
<1>5. ASSUME NEW r \in Repos, NoteFor(r) PROVE TypeInv'
  BY <1>5 DEF NoteFor, Locals, Counted, R
<1>6. CASE AppendNote
  BY <1>6 DEF AppendNote, Locals, Counted, R
<1> QED
  BY <1>1, <1>2, <1>3, <1>4, <1>5, <1>6 DEF Operator

LEMMA TypeElsewhere ==
  ASSUME TypeInv, Elsewhere PROVE TypeInv'
<1> USE DEF TypeInv, TypeOK, db, cycle, hands, past, Pcs
<1>1. ASSUME NEW r \in Repos, Push(r) PROVE TypeInv'
  BY <1>1, HuntsAssumption DEF Push, Locals, Counted, R
<1>2. ASSUME NEW r \in Repos, ScanFallsDue(r) PROVE TypeInv'
  <2> DEFINE row == [repo[r] EXCEPT !.turn = "due"]
  <2>1. repo[r] \in Row
    OBVIOUS
  <2>2. row \in Row /\ row.requested = repo[r].requested /\ row.attempted = repo[r].attempted
    BY <2>1, DueRow
  <2>3. repo' = [repo EXCEPT ![r] = row]
    BY <1>2 DEF ScanFallsDue
  <2> HIDE DEF row
  <2> QED
    BY <1>2, <2>2, <2>3, TypeRowOnly DEF ScanFallsDue
<1>3. ASSUME NEW r \in Repos, FullFallsDue(r) PROVE TypeInv'
  <2> DEFINE row == [repo[r] EXCEPT !.fullAt = "due"]
  <2>1. repo[r] \in Row
    OBVIOUS
  <2>2. row \in Row /\ row.requested = repo[r].requested /\ row.attempted = repo[r].attempted
    BY <2>1, DueRow
  <2>3. repo' = [repo EXCEPT ![r] = row]
    BY <1>3 DEF FullFallsDue
  <2> HIDE DEF row
  <2> QED
    BY <1>3, <2>2, <2>3, TypeRowOnly DEF FullFallsDue
<1>4. CASE Crash
  BY <1>4, Constants, HuntsAssumption DEF Crash, Locals, Counted, R, Pre, Off
<1> QED
  BY <1>1, <1>2, <1>3, <1>4 DEF Elsewhere

LEMMA TypeStep ==
  ASSUME TypeInv, [Next]_vars PROVE TypeInv'
<1>1. CASE UNCHANGED vars
  BY <1>1 DEF vars, db, cycle, hands, past, TypeInv, TypeOK, Locals, Counted, R
<1> QED
  BY <1>1, TypeReaping, TypeSelecting, TypeFetching, TypeOpening, TypeWorking,
     TypeConcluding, TypeOperator, TypeElsewhere DEF Next, Daemon

(* Every variable keeps its type (Hunts, TypeOK): among them the resumes of a *)
(* chain, which never pass the give-up ceiling (resume_plan, create_job).     *)
THEOREM TypeCorrect == Spec => []TypeOK
<1>1. Spec => []TypeInv
  BY TypeInit, TypeStep, PTL DEF Spec
<1> QED
  BY <1>1, PTL DEF TypeInv

-----------------------------------------------------------------------------
(* What the steps do to the rows, field by field *)

KeepsLife(r) == repo'[r].status = repo[r].status /\ repo'[r].jobs = repo[r].jobs
KeepsMark(r) == repo'[r].mark = repo[r].mark
KeepsFull(r) == repo'[r].fullAt = repo[r].fullAt
KeepsAsks(r) == repo'[r].requested = repo[r].requested /\ repo'[r].attempted = repo[r].attempted
Keeps(r)     == KeepsLife(r) /\ KeepsMark(r) /\ KeepsFull(r) /\ KeepsAsks(r)

(* The end of an attempt keeps everything but the turn of the row it is given. *)
LEMMA EndedRows ==
  ASSUME TypeInv, R \in Repos, NEW row \in Row, EndAttempt(row)
  PROVE  /\ pc' = "idle" /\ job' = NoJob
         /\ \A r \in Repos \ {R} : Keeps(r)
         /\ repo'[R].status = row.status /\ repo'[R].mark = row.mark
         /\ repo'[R].fullAt = row.fullAt /\ repo'[R].requested = row.requested
         /\ repo'[R].attempted = row.attempted /\ repo'[R].jobs = row.jobs
<1>1. repo'[R] = [row EXCEPT !.turn = "waits"] /\ \A r \in Repos \ {R} : repo'[r] = repo[r]
  BY TookRow DEF EndAttempt, TypeInv, TypeOK
<1> QED
  BY <1>1 DEF EndAttempt, Row, Keeps, KeepsLife, KeepsMark, KeepsFull, KeepsAsks

LEMMA AttemptedRow ==
  ASSUME TypeInv, R \in Repos
  PROVE  /\ Attempted(repo[R]) \in Row
         /\ Attempted(repo[R]).status = repo[R].status
         /\ Attempted(repo[R]).jobs = repo[R].jobs
         /\ Attempted(repo[R]).mark = repo[R].mark
         /\ Attempted(repo[R]).fullAt = repo[R].fullAt
         /\ Attempted(repo[R]).requested = repo[R].requested
         /\ Attempted(repo[R]).attempted =
              IF job.request # 0 THEN job.request ELSE repo[R].attempted
<1> DEFINE row == [repo[R] EXCEPT !.attempted = job.request]
<1>1. repo[R] \in Row /\ job.request \in Requests
  BY DEF TypeInv, TypeOK, Job
<1>2. /\ row \in Row /\ row.status = repo[R].status /\ row.mark = repo[R].mark
      /\ row.fullAt = repo[R].fullAt /\ row.requested = repo[R].requested
      /\ row.jobs = repo[R].jobs /\ row.attempted = job.request
  BY <1>1 DEF Row
<1>3. Attempted(repo[R]) = IF job.request # 0 THEN row ELSE repo[R]
  BY DEF Attempted
<1> HIDE DEF row
<1> QED
  BY <1>1, <1>2, <1>3

LEMMA RowsOfReaping ==
  ASSUME TypeInv, Reaping, NEW r \in Repos
  PROVE  /\ KeepsMark(r) /\ KeepsFull(r) /\ KeepsAsks(r) /\ repo'[r].jobs = repo[r].jobs
         /\ \/ repo'[r].status = repo[r].status
            \/ /\ repo[r].status = "deleted" /\ repo'[r].status = "gone"
               /\ \E w \in Who : reaper[w].at = "row" /\ reaper[w].repo = r
<1> USE DEF KeepsMark, KeepsFull, KeepsAsks, db, cycle, hands, past
<1>1. ASSUME NEW w \in Who, DropRow(w)
      PROVE  /\ KeepsMark(r) /\ KeepsFull(r) /\ KeepsAsks(r) /\ repo'[r].jobs = repo[r].jobs
             /\ \/ repo'[r].status = repo[r].status
                \/ /\ repo[r].status = "deleted" /\ repo'[r].status = "gone"
                   /\ reaper[w].at = "row" /\ reaper[w].repo = r
  <2> DEFINE now == IF repo[r].status = "deleted" THEN "gone" ELSE repo[r].status
  <2>1. repo[r] \in Row /\ repo \in [Repos -> Row]
    BY DEF TypeInv, TypeOK
  <2>2. CASE reaper[w].repo # r
    BY <1>1, <2>1, <2>2 DEF DropRow
  <2>3. CASE reaper[w].repo = r
    <3>1. repo'[r] = [repo[r] EXCEPT !.status = now]
      BY <1>1, <2>1, <2>3 DEF DropRow
    <3> QED
      BY <1>1, <2>1, <2>3, <3>1 DEF DropRow, Row
  <2> QED
    BY <2>2, <2>3
<1>2. CASE repo' = repo
  BY <1>2
<1> QED
  BY <1>1, <1>2 DEF Reaping, Reaped, ReapFlagged, RemoveDir, RemoveNotes, RemovalFails

LEMMA RowsOfSelecting ==
  ASSUME TypeInv, Selecting, NEW r \in Repos
  PROVE  Keeps(r)
<1> USE DEF Keeps, KeepsLife, KeepsMark, KeepsFull, KeepsAsks, db, cycle, hands, past
<1>1. ASSUME NEW q \in Repos, GiveUp(q) PROVE Keeps(r)
  <2>1. repo[r] \in Row /\ repo'[r] \in {repo[r], [repo[r] EXCEPT !.turn = "waits"]}
    BY <1>1, TookRow DEF GiveUp, TypeInv, TypeOK
  <2> QED
    BY <2>1 DEF Row
<1>2. CASE repo' = repo
  BY <1>2
<1> QED
  BY <1>1, <1>2 DEF Selecting, StartCycle, PickOther, Resume, Pick

LEMMA RowsOfFetching ==
  ASSUME TypeInv, Fetching, NEW r \in Repos
  PROVE  /\ KeepsLife(r) /\ KeepsMark(r) /\ KeepsFull(r)
         /\ repo'[r].requested = repo[r].requested
         /\ repo'[r].attempted = IF FetchFails /\ r = R /\ job.request # 0
                                 THEN job.request ELSE repo[r].attempted
<1> USE DEF Keeps, KeepsLife, KeepsMark, KeepsFull, KeepsAsks, db, cycle, hands, past
<1>1. CASE FetchFails
  <2>1. R \in Repos
    BY <1>1 DEF FetchFails, TypeInv, Locals
  <2> QED
    BY <1>1, <2>1, AttemptedRow, EndedRows DEF FetchFails
<1>2. CASE repo' = repo /\ ~FetchFails
  BY <1>2
<1>3. CASE repo' = repo /\ FetchFails
  BY <1>1, <1>3
<1> QED
  BY <1>1, <1>2, <1>3 DEF Fetching, ReadRow, Sync, CloneStarts, CloneEnds, Fetch

LEMMA RowsOfOpening ==
  ASSUME TypeInv, Opening, NEW r \in Repos
  PROVE  /\ repo'[r].status = repo[r].status /\ KeepsFull(r)
         /\ repo'[r].requested = repo[r].requested
         /\ repo'[r].jobs = IF Create /\ r = R THEN TRUE ELSE repo[r].jobs
         /\ repo'[r].mark = IF r # R THEN repo[r].mark
                            ELSE IF Skip THEN job.head
                            ELSE IF Scope /\ RehuntDue THEN 0 ELSE repo[r].mark
         /\ repo'[r].attempted = IF Mark /\ r = R /\ job.request # 0
                                 THEN job.request ELSE repo[r].attempted
<1> USE DEF Keeps, KeepsLife, KeepsMark, KeepsFull, KeepsAsks, db, cycle, hands, past
<1> DEFINE Goal == /\ repo'[r].status = repo[r].status /\ KeepsFull(r)
                   /\ repo'[r].requested = repo[r].requested
                   /\ repo'[r].jobs = IF Create /\ r = R THEN TRUE ELSE repo[r].jobs
                   /\ repo'[r].mark = IF r # R THEN repo[r].mark
                                      ELSE IF Skip THEN job.head
                                      ELSE IF Scope /\ RehuntDue THEN 0 ELSE repo[r].mark
                   /\ repo'[r].attempted = IF Mark /\ r = R /\ job.request # 0
                                           THEN job.request ELSE repo[r].attempted
<1>1. R \in Repos /\ repo[R] \in Row /\ repo \in [Repos -> Row] /\ job.head \in Shas
  BY DEF Opening, Skip, Scope, Granted, Denied, Create, Refused, Mark, Launch,
         TreeNotMade, TypeInv, TypeOK, Locals, Job
<1>2. /\ Skip => pc = "scope" /\ pc' = "idle"
      /\ Scope => pc = "scope" /\ pc' = "gate"
      /\ Create => pc = "create" /\ pc' \in {"mark", "tree"}
      /\ Mark => pc = "mark"
      /\ Granted \/ Denied => pc = "gate"
      /\ Refused => pc = "create" /\ pc' = "idle"
      /\ Launch \/ TreeNotMade => pc = "tree"
  BY DEF Skip, Scope, Granted, Denied, Create, Refused, Mark, Launch, TreeNotMade,
         EndCycle, EndAttempt
<1>3. CASE Skip
  <2> DEFINE row == [repo[R] EXCEPT !.turn = "waits", !.mark = job.head]
  <2>1. repo' = [repo EXCEPT ![R] = row]
    BY <1>1, <1>3, TookRow DEF Skip
  <2>2. /\ row.status = repo[R].status /\ row.jobs = repo[R].jobs /\ row.mark = job.head
        /\ row.fullAt = repo[R].fullAt /\ row.requested = repo[R].requested
        /\ row.attempted = repo[R].attempted
    BY <1>1 DEF Row
  <2> HIDE DEF row
  <2>3. ~Create /\ ~Mark /\ ~Scope
    BY <1>2, <1>3
  <2> QED
    BY <1>1, <1>3, <2>1, <2>2, <2>3
<1>4. CASE Scope
  <2> DEFINE row == [repo[R] EXCEPT !.mark = 0]
  <2>1. repo' = IF RehuntDue THEN [repo EXCEPT ![R] = row] ELSE repo
    BY <1>4 DEF Scope
  <2>2. /\ row.status = repo[R].status /\ row.jobs = repo[R].jobs /\ row.mark = 0
        /\ row.fullAt = repo[R].fullAt /\ row.requested = repo[R].requested
        /\ row.attempted = repo[R].attempted
    BY <1>1 DEF Row
  <2> HIDE DEF row
  <2>3. ~Create /\ ~Mark /\ ~Skip
    BY <1>2, <1>4
  <2> QED
    BY <1>1, <1>4, <2>1, <2>2, <2>3
<1>5. CASE Create
  <2> DEFINE row == [repo[R] EXCEPT !.jobs = TRUE]
  <2>1. repo' = [repo EXCEPT ![R] = row]
    BY <1>5 DEF Create
  <2>2. /\ row.status = repo[R].status /\ row.jobs = TRUE /\ row.mark = repo[R].mark
        /\ row.fullAt = repo[R].fullAt /\ row.requested = repo[R].requested
        /\ row.attempted = repo[R].attempted
    BY <1>1 DEF Row
  <2> HIDE DEF row
  <2>3. ~Skip /\ ~Mark /\ ~Scope
    BY <1>2, <1>5
  <2> QED
    BY <1>1, <1>5, <2>1, <2>2, <2>3
<1>6. CASE Mark
  <2>1. repo' = [repo EXCEPT ![R] = Attempted(repo[R])]
    BY <1>6 DEF Mark
  <2>2. ~Skip /\ ~Create /\ ~Scope
    BY <1>2, <1>6
  <2> QED
    BY <1>1, <1>6, <2>1, <2>2, AttemptedRow
<1>7. CASE TreeNotMade
  <2>1. ~Skip /\ ~Create /\ ~Scope /\ ~Mark
    BY <1>2, <1>7
  <2> QED
    BY <1>1, <1>7, <2>1, EndedRows DEF TreeNotMade
<1>8. CASE Granted \/ Denied \/ Refused \/ Launch
  <2>1. repo' = repo
    BY <1>8 DEF Granted, Denied, Refused, Launch
  <2>2. ~Skip /\ ~Create /\ ~Scope /\ ~Mark
    BY <1>2, <1>8
  <2> QED
    BY <2>1, <2>2
<1> QED
  BY <1>3, <1>4, <1>5, <1>6, <1>7, <1>8 DEF Opening

LEMMA RowsOfWorking ==
  ASSUME TypeInv, Working, NEW r \in Repos
  PROVE  Keeps(r)
<1>1. R \in Repos /\ repo[R] \in Row
  BY DEF Working, RunBreaks, WorkerPauses, WorkerFails, WorkerFinishes, TypeInv, TypeOK, Locals
<1>2. CASE EndAttempt(repo[R])
  BY <1>1, <1>2, EndedRows DEF Keeps, KeepsLife, KeepsMark, KeepsFull, KeepsAsks
<1>3. CASE repo' = repo
  BY <1>3 DEF Keeps, KeepsLife, KeepsMark, KeepsFull, KeepsAsks
<1> QED
  BY <1>2, <1>3 DEF Working, RunBreaks, WorkerPauses, WorkerFails, WorkerFinishes

LEMMA RowsOfSetLastHunt ==
  ASSUME TypeInv, SetLastHunt, NEW r \in Repos
  PROVE  /\ KeepsLife(r) /\ KeepsFull(r) /\ KeepsAsks(r)
         /\ repo'[r].mark = IF r = R THEN chain[R].pinned ELSE repo[r].mark
<1> DEFINE row == [repo[R] EXCEPT !.turn = "waits", !.mark = chain[R].pinned]
<1>1. R \in Repos /\ repo[R] \in Row /\ repo \in [Repos -> Row]
  BY DEF SetLastHunt, TypeInv, TypeOK, Locals
<1>2. repo' = [repo EXCEPT ![R] = row]
  BY <1>1, TookRow DEF SetLastHunt
<1>3. /\ row.status = repo[R].status /\ row.jobs = repo[R].jobs /\ row.mark = chain[R].pinned
      /\ row.fullAt = repo[R].fullAt /\ row.requested = repo[R].requested
      /\ row.attempted = repo[R].attempted
  BY <1>1 DEF Row
<1> HIDE DEF row
<1> QED
  BY <1>1, <1>2, <1>3 DEF KeepsLife, KeepsFull, KeepsAsks

LEMMA RowsOfSetLastFull ==
  ASSUME TypeInv, SetLastFull, NEW r \in Repos
  PROVE  /\ KeepsLife(r) /\ KeepsMark(r) /\ KeepsAsks(r)
         /\ repo'[r].fullAt = IF r = R /\ (job.full \/ repo[r].fullAt = "never")
                              THEN "waits" ELSE repo[r].fullAt
<1> DEFINE at  == IF job.full \/ repo[R].fullAt = "never" THEN "waits" ELSE repo[R].fullAt
           row == [repo[R] EXCEPT !.fullAt = at]
<1>1. R \in Repos /\ repo[R] \in Row /\ repo \in [Repos -> Row]
  BY DEF SetLastFull, TypeInv, TypeOK, Locals
<1>2. repo' = [repo EXCEPT ![R] = row]
  BY DEF SetLastFull
<1>3. at = IF job.full \/ repo[R].fullAt = "never" THEN "waits" ELSE repo[R].fullAt
  OBVIOUS
<1> HIDE DEF at
<1>4. /\ row.status = repo[R].status /\ row.jobs = repo[R].jobs /\ row.mark = repo[R].mark
      /\ row.fullAt = at /\ row.requested = repo[R].requested
      /\ row.attempted = repo[R].attempted
  BY <1>1 DEF Row
<1> HIDE DEF row
<1> QED
  BY <1>1, <1>2, <1>3, <1>4 DEF KeepsLife, KeepsMark, KeepsAsks

LEMMA RowsOfSettle ==
  ASSUME TypeInv, Settle, NEW r \in Repos
  PROVE  /\ KeepsLife(r) /\ KeepsMark(r) /\ KeepsFull(r)
         /\ repo'[r].requested = IF r = R /\ Settles(repo[R]) THEN 0 ELSE repo[r].requested
         /\ repo'[r].attempted = repo[r].attempted
<1> DEFINE new == [repo[R] EXCEPT !.requested = 0]
           row == IF Settles(repo[R]) THEN new ELSE repo[R]
<1>1. R \in Repos /\ repo[R] \in Row
  BY DEF Settle, TypeInv, TypeOK, Locals
<1>2. /\ new \in Row /\ new.status = repo[R].status /\ new.jobs = repo[R].jobs
      /\ new.mark = repo[R].mark /\ new.fullAt = repo[R].fullAt /\ new.requested = 0
      /\ new.attempted = repo[R].attempted
  BY <1>1, Constants DEF Row
<1>3. EndAttempt(row)
  BY DEF Settle
<1> HIDE DEF new
<1>4. /\ row \in Row /\ row.status = repo[R].status /\ row.jobs = repo[R].jobs
      /\ row.mark = repo[R].mark /\ row.fullAt = repo[R].fullAt
      /\ row.requested = IF Settles(repo[R]) THEN 0 ELSE repo[R].requested
      /\ row.attempted = repo[R].attempted
  BY <1>1, <1>2
<1> HIDE DEF row
<1> QED
  BY <1>1, <1>3, <1>4, EndedRows DEF Keeps, KeepsLife, KeepsMark, KeepsFull, KeepsAsks

LEMMA RowsOfAsk ==
  ASSUME TypeInv, NEW q \in Repos, Ask(q)
  PROVE  /\ \A r \in Repos \ {q} : Keeps(r)
         /\ KeepsLife(q) /\ KeepsMark(q) /\ KeepsFull(q)
         /\ repo'[q].attempted = repo[q].attempted
         /\ repo'[q].requested \in Nat
         /\ repo'[q].requested > repo[q].requested
         /\ repo'[q].requested > repo[q].attempted
<1>1. PICK now \in 1..MaxClock : repo' = [repo EXCEPT ![q].requested = NewRequest(q, now)]
  BY DEF Ask
<1> DEFINE n == NewRequest(q, now)
<1>2. n \in Nat /\ n > repo[q].requested /\ n > repo[q].attempted
  BY RequestsGrow
<1>3. repo' = [repo EXCEPT ![q] = [repo[q] EXCEPT !.requested = n]]
  BY <1>1
<1> HIDE DEF n
<1>4. repo[q] \in Row /\ repo \in [Repos -> Row]
  BY DEF TypeInv, TypeOK
<1> QED
  BY <1>2, <1>3, <1>4 DEF Row, Keeps, KeepsLife, KeepsMark, KeepsFull, KeepsAsks

LEMMA RowsOfOperator ==
  ASSUME TypeInv, Operator, NEW r \in Repos, ~Ask(r)
  PROVE  /\ KeepsMark(r) /\ KeepsFull(r) /\ KeepsAsks(r)
         /\ repo'[r].jobs = repo[r].jobs
         /\ \/ repo'[r].status = repo[r].status
            \/ repo'[r].status = "deleted" /\ SoftDelete(r)
<1> DEFINE Goal == /\ KeepsMark(r) /\ KeepsFull(r) /\ KeepsAsks(r)
                   /\ repo'[r].jobs = repo[r].jobs
                   /\ \/ repo'[r].status = repo[r].status
                      \/ repo'[r].status = "deleted" /\ SoftDelete(r)
<1>1. repo[r] \in Row /\ repo \in [Repos -> Row]
  BY DEF TypeInv, TypeOK
<1>2. ASSUME NEW q \in Repos, Ask(q) PROVE Goal
  BY <1>2, RowsOfAsk DEF Keeps, KeepsLife
<1>3. ASSUME NEW q \in Repos, Toggle(q) PROVE Goal
  BY <1>1, <1>3 DEF Toggle, Row, KeepsMark, KeepsFull, KeepsAsks
<1>4. ASSUME NEW q \in Repos, SoftDelete(q) PROVE Goal
  <2>1. CASE q = r
    <3>1. repo'[r] = [repo[r] EXCEPT !.status = "deleted"]
      BY <1>1, <1>4, <2>1 DEF SoftDelete
    <3> QED
      BY <1>1, <1>4, <2>1, <3>1 DEF Row, KeepsMark, KeepsFull, KeepsAsks
  <2>2. CASE q # r
    BY <1>1, <1>4, <2>2 DEF SoftDelete, KeepsMark, KeepsFull, KeepsAsks
  <2> QED
    BY <2>1, <2>2
<1>5. CASE repo' = repo
  BY <1>5 DEF KeepsMark, KeepsFull, KeepsAsks
<1> QED
  BY <1>2, <1>3, <1>4, <1>5 DEF Operator, ReapNow, NoteFor, AppendNote, db

LEMMA RowsOfElsewhere ==
  ASSUME TypeInv, Elsewhere, NEW r \in Repos
  PROVE  /\ KeepsLife(r) /\ KeepsMark(r) /\ KeepsAsks(r)
         /\ KeepsFull(r) \/ (repo[r].fullAt = "waits" /\ repo'[r].fullAt = "due")
<1> DEFINE Goal == /\ KeepsLife(r) /\ KeepsMark(r) /\ KeepsAsks(r)
                   /\ KeepsFull(r) \/ (repo[r].fullAt = "waits" /\ repo'[r].fullAt = "due")
<1>1. repo[r] \in Row /\ repo \in [Repos -> Row]
  BY DEF TypeInv, TypeOK
<1>2. ASSUME NEW q \in Repos, ScanFallsDue(q) PROVE Goal
  BY <1>1, <1>2 DEF ScanFallsDue, Row, KeepsLife, KeepsMark, KeepsFull, KeepsAsks
<1>3. ASSUME NEW q \in Repos, FullFallsDue(q) PROVE Goal
  <2>1. CASE q = r
    <3>1. repo'[r] = [repo[r] EXCEPT !.fullAt = "due"]
      BY <1>1, <1>3, <2>1 DEF FullFallsDue
    <3> QED
      BY <1>1, <1>3, <2>1, <3>1 DEF FullFallsDue, Row, KeepsLife, KeepsMark, KeepsFull, KeepsAsks
  <2>2. CASE q # r
    BY <1>1, <1>3, <2>2 DEF FullFallsDue, KeepsLife, KeepsMark, KeepsFull, KeepsAsks
  <2> QED
    BY <2>1, <2>2
<1>4. CASE repo' = repo
  BY <1>4 DEF KeepsLife, KeepsMark, KeepsFull, KeepsAsks
<1> QED
  BY <1>2, <1>3, <1>4 DEF Elsewhere, Push, Crash, db

-----------------------------------------------------------------------------
(* Deletion: a repo with a chain has jobs, and one with jobs is live. *)

LifeInv ==
  /\ \A r \in Repos : ~Live(r) => ~repo[r].jobs
  /\ \A r \in Repos : chain[r] # NoChain => repo[r].jobs
  /\ pc \in Created => repo[R].jobs

LEMMA LifeKept ==
  ASSUME TypeInv, LifeInv,
         \A r \in Repos : /\ repo'[r].jobs = repo[r].jobs
                          /\ \/ repo'[r].status = repo[r].status
                             \/ repo[r].status # "live"
                             \/ ~repo[r].jobs
                          /\ chain'[r] # NoChain => chain[r] # NoChain,
         pc' \in Created => pc \in Created /\ R' = R
  PROVE  LifeInv'
<1>1. pc \in Created => R \in Repos
  BY DEF TypeInv, Locals, Created
<1> QED
  BY <1>1 DEF LifeInv, Live

(* The steps on a job's chain come after its row. *)
LEMMA LifeOfJob ==
  ASSUME TypeInv, LifeInv, pc \in Created, pc' \in Created \cup {"idle"}, R' = R \/ pc' = "idle",
         \A r \in Repos : KeepsLife(r),
         \A r \in Repos \ {R} : chain'[r] = chain[r]
  PROVE  LifeInv'
<1>1. R \in Repos /\ "idle" \notin Created
  BY DEF TypeInv, Locals, Created
<1> QED
  BY <1>1 DEF LifeInv, Live, KeepsLife

LEMMA LifeStep ==
  ASSUME TypeInv, LifeInv, [Next]_vars PROVE LifeInv'
<1> USE DEF db, cycle, hands, past, KeepsLife
<1>0. chain \in [Repos -> Chain]
  BY DEF TypeInv, TypeOK
<1>1. CASE UNCHANGED vars
  BY <1>1, LifeKept DEF vars, R
<1>2. CASE Reaping
  BY <1>2, LifeKept, RowsOfReaping
     DEF Reaping, Reaped, ReapFlagged, RemoveDir, RemoveNotes, RemovalFails, DropRow, R
<1>3. CASE Selecting
  <2>1. ASSUME NEW r \in Repos PROVE chain'[r] # NoChain => chain[r] # NoChain
    <3>1. CASE StartCycle
      BY <3>1 DEF StartCycle, NoChain
    <3>2. ASSUME NEW q \in Repos, GiveUp(q) PROVE chain'[r] # NoChain => chain[r] # NoChain
      BY <1>0, <3>2 DEF GiveUp
    <3> QED
      BY <1>3, <3>1, <3>2 DEF Selecting, PickOther, Resume, Pick
  <2>2. pc' \notin Created
    BY <1>3 DEF Selecting, StartCycle, PickOther, GiveUp, Resume, Pick, Reconciled, Created
  <2> QED
    BY <1>3, <2>1, <2>2, LifeKept, RowsOfSelecting DEF Keeps
<1>4. CASE Fetching
  BY <1>4, LifeKept, RowsOfFetching
     DEF Fetching, ReadRow, Sync, CloneStarts, CloneEnds, Fetch, FetchFails, EndCycle,
         EndAttempt, R, Created
<1>5. CASE Opening
  BY <1>0, <1>5, RowsOfOpening
     DEF Opening, Skip, Scope, Granted, Denied, Create, Refused, Mark, Launch,
         TreeNotMade, EndCycle, EndAttempt, R, Created, LifeInv, Live, TypeInv, Locals
<1>6. CASE Working
  BY <1>0, <1>6, LifeOfJob, RowsOfWorking
     DEF Working, RunBreaks, WorkerPauses, WorkerFails, WorkerFinishes, EndCycle,
         EndAttempt, R, Created, Keeps
<1>7. CASE Concluding
  BY <1>0, <1>7, LifeOfJob, RowsOfSetLastHunt, RowsOfSetLastFull, RowsOfSettle
     DEF Concluding, SetLastHunt, SetLastFull, Settle, EndAttempt, R, Created
<1>8. CASE Operator
  <2>1. chain' = chain /\ pc' = pc /\ R' = R
    <3>1. ASSUME NEW r \in Repos, Ask(r) PROVE chain' = chain /\ pc' = pc /\ R' = R
      <4>1. [job EXCEPT !.newest = FALSE].repo = job.repo
        BY DEF TypeInv, TypeOK, Job
      <4> QED
        BY <3>1, <4>1 DEF Ask, R
    <3> QED
      BY <1>8, <3>1 DEF Operator, Toggle, SoftDelete, ReapNow, NoteFor, AppendNote, R
  <2>2. ASSUME NEW r \in Repos
        PROVE  /\ repo'[r].jobs = repo[r].jobs
               /\ repo'[r].status = repo[r].status \/ ~repo[r].jobs
    <3>1. CASE Ask(r)
      BY <3>1, RowsOfAsk
    <3>2. CASE ~Ask(r)
      BY <1>8, <3>2, RowsOfOperator DEF SoftDelete
    <3> QED
      BY <3>1, <3>2
  <2> QED
    BY <2>1, <2>2, LifeKept
<1>9. CASE Elsewhere
  BY <1>9, LifeKept, RowsOfElsewhere
     DEF Elsewhere, Push, ScanFallsDue, FullFallsDue, Crash, R, Created
<1> QED
  BY <1>1, <1>2, <1>3, <1>4, <1>5, <1>6, <1>7, <1>8, <1>9 DEF Next, Daemon

-----------------------------------------------------------------------------
(* Notes: who holds the lock, and what is gone when the row goes. *)

LockInv ==
  /\ noting # NoRepo => Live(noting) /\ \A w \in Who : reaper[w] = Off
  /\ \A w \in Who : reaper[w].at = "row" => ~disk[reaper[w].repo].note
  /\ \A r \in Repos : repo[r].status = "gone" => ~disk[r].note

LEMMA LockKept ==
  ASSUME TypeInv, LockInv,
         \A r \in Repos : /\ repo'[r].status = repo[r].status
                          /\ disk'[r].note => disk[r].note,
         UNCHANGED hands
  PROVE  LockInv'
BY DEF LockInv, TypeInv, TypeOK, Locals, hands, Live

LEMMA LockStep ==
  ASSUME TypeInv, LockInv, [Next]_vars PROVE LockInv'
<1> USE DEF db, cycle, past, KeepsLife
<1>0. /\ disk \in [Repos -> [dir : {"none", "partial", "clone"}, note : BOOLEAN]]
      /\ reaper \in [Who -> Step] /\ NoRepo \notin Repos
  BY Constants DEF TypeInv, TypeOK
<1>1. CASE UNCHANGED vars
  BY <1>1, LockKept DEF vars
<1>2. CASE Reaping
  <2>1. CASE ReapFlagged
    BY <1>0, <2>1 DEF ReapFlagged, LockFree, LockInv, Live, TypeInv, TypeOK
  <2>2. ASSUME NEW w \in Who, reaper[w].at # "off" PROVE noting = NoRepo /\ reaper[w].repo \in Repos
    BY <2>2 DEF LockInv, Off, TypeInv, Locals
  <2>3. ASSUME NEW w \in Who, RemoveDir(w) PROVE LockInv'
    BY <1>0, <2>2, <2>3 DEF RemoveDir, Goes, LockInv, Live, hands, Step
  <2>4. ASSUME NEW w \in Who, RemoveNotes(w) PROVE LockInv'
    BY <1>0, <2>2, <2>4 DEF RemoveNotes, Goes, LockInv, Live, hands, Step
  <2>5. ASSUME NEW w \in Who, DropRow(w) PROVE LockInv'
    BY <1>0, <1>2, <2>2, <2>5, RowsOfReaping DEF DropRow, Stops, Off, LockInv, Live, hands, Step
  <2>6. ASSUME NEW w \in Who, RemovalFails(w) PROVE LockInv'
    BY <1>0, <2>2, <2>6 DEF RemovalFails, Stops, Off, LockInv, Live, hands, Step
  <2> QED
    BY <1>2, <2>1, <2>3, <2>4, <2>5, <2>6 DEF Reaping, Reaped
<1>3. CASE Selecting
  BY <1>3, LockKept, RowsOfSelecting
     DEF Selecting, StartCycle, PickOther, GiveUp, Resume, Pick, Keeps
<1>4. CASE Fetching
  <2>1. \A r \in Repos : disk'[r].note = disk[r].note
    BY <1>0, <1>4 DEF Fetching, ReadRow, Sync, CloneStarts, CloneEnds, Fetch, FetchFails
  <2>2. UNCHANGED hands
    BY <1>4 DEF Fetching, ReadRow, Sync, CloneStarts, CloneEnds, Fetch, FetchFails
  <2> QED
    BY <1>4, <2>1, <2>2, LockKept, RowsOfFetching
<1>5. CASE Opening
  BY <1>5, LockKept, RowsOfOpening
     DEF Opening, Skip, Scope, Granted, Denied, Create, Refused, Mark, Launch, TreeNotMade
<1>6. CASE Working
  BY <1>6, LockKept, RowsOfWorking
     DEF Working, RunBreaks, WorkerPauses, WorkerFails, WorkerFinishes, Keeps
<1>7. CASE Concluding
  BY <1>7, LockKept, RowsOfSetLastHunt, RowsOfSetLastFull, RowsOfSettle
     DEF Concluding, SetLastHunt, SetLastFull, Settle
<1>8. CASE Operator
  <2>1. ASSUME NEW r \in Repos, Ask(r) PROVE LockInv'
    BY <2>1, LockKept, RowsOfAsk DEF Ask, Keeps
  <2>2. ASSUME NEW r \in Repos, Toggle(r) PROVE LockInv'
    <3>1. \A q \in Repos : repo'[q].status = repo[q].status
      BY <2>2 DEF Toggle, TypeInv, TypeOK, Row
    <3> QED
      BY <2>2, <3>1, LockKept DEF Toggle
  <2>3. ASSUME NEW r \in Repos, SoftDelete(r) PROVE LockInv'
    <3>1. \A q \in Repos : repo'[q].status = "gone" => repo[q].status = "gone"
      BY <2>3 DEF SoftDelete, TypeInv, TypeOK, Row
    <3> QED
      BY <2>3, <3>1 DEF SoftDelete, LockFree, LockInv, hands
  <2>4. ASSUME NEW r \in Repos, ReapNow(r) PROVE LockInv'
    BY <1>0, <2>4 DEF ReapNow, LockFree, LockInv, Live
  <2>5. ASSUME NEW r \in Repos, NoteFor(r) PROVE LockInv'
    BY <1>0, <2>5 DEF NoteFor, LockFree, LockInv, Live
  <2>6. CASE AppendNote
    BY <1>0, <2>6 DEF AppendNote, LockInv, Live, Off
  <2> QED
    BY <1>8, <2>1, <2>2, <2>3, <2>4, <2>5, <2>6 DEF Operator
<1>9. CASE Elsewhere
  <2>1. CASE Crash
    BY <1>0, <2>1 DEF Crash, LockInv, Live, Off
  <2> QED
    BY <1>9, <2>1, LockKept, RowsOfElsewhere DEF Elsewhere, Push, ScanFallsDue, FullFallsDue
<1> QED
  BY <1>1, <1>2, <1>3, <1>4, <1>5, <1>6, <1>7, <1>8, <1>9 DEF Next, Daemon

-----------------------------------------------------------------------------
(* What the steps do to the chains, field by field *)

KeepsChain(r) ==
  /\ chain'[r].pinned = chain[r].pinned /\ chain'[r].full = chain[r].full
  /\ chain'[r].request = chain[r].request /\ chain'[r].from = chain[r].from
  /\ chain'[r].told = chain[r].told

LEMMA ChainWithState ==
  ASSUME NEW c \in Chain, NEW s \in {"none", "created", "working", "suspended", "done"},
         NEW n \in 0..MaxTries
  PROVE  LET a == [c EXCEPT !.state = s]
             b == [c EXCEPT !.state = s, !.tries = n]
         IN  /\ a.state = s /\ a.pinned = c.pinned /\ a.full = c.full
             /\ a.request = c.request /\ a.from = c.from /\ a.told = c.told
             /\ b.state = s /\ b.pinned = c.pinned /\ b.full = c.full
             /\ b.request = c.request /\ b.from = c.from /\ b.told = c.told
BY DEF Chain

LEMMA ChainsOfSelecting ==
  ASSUME TypeInv, Selecting, NEW r \in Repos
  PROVE  /\ chain'[r] = NoChain \/ KeepsChain(r)
         /\ \/ chain'[r].state \in {chain[r].state, "none"}
            \/ chain[r].state = "working" /\ chain'[r].state = "suspended"
         /\ StartCycle => chain'[r].state \in {"none", "suspended"}
<1>1. chain[r] \in Chain /\ chain \in [Repos -> Chain] /\ NoChain.state = "none"
  BY DEF TypeInv, TypeOK, NoChain
<1>2. CASE StartCycle
  <2>1. chain'[r] = NoChain \/ (chain[r].state = "working" /\ chain'[r] = [chain[r] EXCEPT !.state = "suspended"])
          \/ (chain'[r] = chain[r] /\ chain[r].state \notin {"created", "working", "done"})
    BY <1>2 DEF StartCycle
  <2> QED
    BY <1>1, <2>1 DEF KeepsChain, Chain
<1>3. ASSUME NEW q \in Repos, GiveUp(q)
      PROVE chain'[r] \in {chain[r], NoChain} /\ pc = "reap"
  BY <1>1, <1>3 DEF GiveUp, Reconciled
<1>4. StartCycle => pc = "idle"
  BY DEF StartCycle
<1>5. CASE chain' = chain /\ ~StartCycle
  BY <1>5 DEF KeepsChain
<1> QED
  BY <1>1, <1>2, <1>3, <1>4, <1>5 DEF Selecting, PickOther, Resume, Pick, db, KeepsChain

LEMMA ChainsElsewhere ==
  ASSUME Reaping \/ Fetching \/ Operator \/ Elsewhere
  PROVE  chain' = chain
BY DEF Reaping, Reaped, ReapFlagged, RemoveDir, RemoveNotes, DropRow, RemovalFails,
       Fetching, ReadRow, Sync, CloneStarts, CloneEnds, Fetch, FetchFails,
       Operator, Ask, Toggle, SoftDelete, ReapNow, NoteFor, AppendNote,
       Elsewhere, Push, ScanFallsDue, FullFallsDue, Crash, db

LEMMA ChainsOfCreate ==
  ASSUME TypeInv, Create
  PROVE  /\ chain'[R].state = "created"
         /\ job.resume => KeepsChain(R)
         /\ ~job.resume => /\ chain'[R].pinned = 0 /\ ~chain'[R].full
                           /\ chain'[R].request = 0 /\ chain'[R].from = 0 /\ ~chain'[R].told
         /\ \A r \in Repos \ {R} : chain'[r] = chain[r]
<1>1. R \in Repos /\ chain[R] \in Chain /\ chain \in [Repos -> Chain]
        /\ NoChain \in Chain /\ 1 \in 0..MaxTries
  BY Constants, HuntsAssumption DEF Create, TypeInv, TypeOK, Locals
<1>2. CASE job.resume
  <2>1. chain[R].tries + 1 \in 0..MaxTries
    BY <1>1, <1>2, HuntsAssumption DEF Create, TypeInv, Locals, Pre, Chain
  <2>2. chain' = [chain EXCEPT ![R] =
                    [chain[R] EXCEPT !.state = "created", !.tries = chain[R].tries + 1]]
    BY <1>2 DEF Create
  <2> QED
    BY <1>1, <1>2, <2>1, <2>2, ChainWithState DEF KeepsChain
<1>3. CASE ~job.resume
  <2>1. chain' = [chain EXCEPT ![R] = [NoChain EXCEPT !.state = "created", !.tries = 1]]
    BY <1>3 DEF Create
  <2>2. /\ NoChain.pinned = 0 /\ NoChain.full = FALSE /\ NoChain.request = 0
        /\ NoChain.from = 0 /\ NoChain.told = FALSE
    BY DEF NoChain
  <2> QED
    BY <1>1, <1>3, <2>1, <2>2, ChainWithState
<1> QED
  BY <1>2, <1>3

LEMMA ChainsOfMark ==
  ASSUME TypeInv, Mark
  PROVE  /\ chain'[R].state = chain[R].state /\ chain'[R].pinned = chain[R].pinned
         /\ chain'[R].from = chain[R].from /\ chain'[R].told = chain[R].told
         /\ chain'[R].full = job.full
         /\ chain'[R].request = IF job.full THEN job.request ELSE 0
         /\ \A r \in Repos \ {R} : chain'[r] = chain[r]
<1> DEFINE req == IF job.full THEN job.request ELSE 0
<1>1. R \in Repos /\ chain[R] \in Chain /\ chain \in [Repos -> Chain]
  BY DEF Mark, TypeInv, TypeOK, Locals
<1>2. chain' = [chain EXCEPT ![R] = [chain[R] EXCEPT !.full = job.full, !.request = req]]
  BY <1>1 DEF Mark
<1> HIDE DEF req
<1>3. /\ chain'[R] = [chain[R] EXCEPT !.full = job.full, !.request = req]
      /\ \A r \in Repos \ {R} : chain'[r] = chain[r]
  BY <1>1, <1>2
<1>4. /\ chain'[R].state = chain[R].state /\ chain'[R].pinned = chain[R].pinned
      /\ chain'[R].from = chain[R].from /\ chain'[R].told = chain[R].told
      /\ chain'[R].full = job.full /\ chain'[R].request = req
  BY <1>1, <1>3 DEF Chain
<1> QED
  BY <1>3, <1>4 DEF req

LEMMA ChainsOfLaunch ==
  ASSUME TypeInv, Launch
  PROVE  /\ chain'[R].state = "working"
         /\ job.resume => KeepsChain(R)
         /\ ~job.resume => /\ chain'[R].pinned = job.head /\ chain'[R].from = job.last
                           /\ chain'[R].told = job.full
                           /\ chain'[R].full = chain[R].full
                           /\ chain'[R].request = chain[R].request
         /\ \A r \in Repos \ {R} : chain'[r] = chain[r]
<1>1. R \in Repos /\ chain[R] \in Chain /\ chain \in [Repos -> Chain]
  BY DEF Launch, TypeInv, TypeOK, Locals
<1>2. CASE job.resume
  <2>1. chain' = [chain EXCEPT ![R] = [chain[R] EXCEPT !.state = "working"]]
    BY <1>2 DEF Launch
  <2> QED
    BY <1>1, <1>2, <2>1 DEF KeepsChain, Chain
<1>3. CASE ~job.resume
  <2>1. chain' = [chain EXCEPT ![R] = [chain[R] EXCEPT !.state = "working", !.pinned = job.head,
                                                      !.from = job.last, !.told = job.full]]
    BY <1>3 DEF Launch
  <2> QED
    BY <1>1, <1>3, <2>1 DEF Chain
<1> QED
  BY <1>2, <1>3

LEMMA ChainsOfWorking ==
  ASSUME TypeInv, Working
  PROVE  /\ \A r \in Repos \ {R} : chain'[r] = chain[r]
         /\ \/ chain'[R] = NoChain /\ pc' = "idle"
            \/ /\ KeepsChain(R)
               /\ \/ RunBreaks /\ chain'[R].state = chain[R].state
                  \/ WorkerPauses /\ chain'[R].state = "suspended"
                  \/ WorkerFinishes /\ chain'[R].state = "done"
<1>1. R \in Repos /\ chain[R] \in Chain /\ chain \in [Repos -> Chain]
  BY DEF Working, RunBreaks, WorkerPauses, WorkerFails, WorkerFinishes, TypeInv, TypeOK, Locals
<1>2. CASE RunBreaks
  BY <1>2 DEF RunBreaks, KeepsChain
<1>3. CASE WorkerPauses
  BY <1>1, <1>3 DEF WorkerPauses, KeepsChain, Chain
<1>4. CASE WorkerFails
  BY <1>1, <1>4 DEF WorkerFails, EndAttempt
<1>5. CASE WorkerFinishes
  BY <1>1, <1>5 DEF WorkerFinishes, KeepsChain, Chain
<1> QED
  BY <1>2, <1>3, <1>4, <1>5 DEF Working

-----------------------------------------------------------------------------
(* What the steps do to the locals of run_hunt, field by field *)

KeepsJob ==
  /\ job'.repo = job.repo /\ job'.resume = job.resume /\ job'.head = job.head
  /\ job'.last = job.last /\ job'.full = job.full /\ job'.request = job.request

LEMMA JobsPicked ==
  ASSUME TypeInv, NEW r \in Repos
  PROVE  /\ Resume(r) => /\ job'.repo = r /\ job'.resume /\ job'.head = chain[r].pinned
                         /\ job'.last = 0 /\ ~job'.full /\ job'.request = 0
         /\ Pick(r) => /\ job'.repo = r /\ ~job'.resume
                       /\ job'.last = 0 /\ ~job'.full /\ job'.request = 0
<1>1. NoJob \in Job
  BY Constants
<1>2. /\ NoJob.last = 0 /\ NoJob.full = FALSE /\ NoJob.request = 0 /\ NoJob.resume = FALSE
  BY DEF NoJob
<1>3. ASSUME Resume(r)
      PROVE  /\ job'.repo = r /\ job'.resume /\ job'.head = chain[r].pinned
             /\ job'.last = 0 /\ ~job'.full /\ job'.request = 0
  <2>1. job' = [NoJob EXCEPT !.repo = r, !.resume = TRUE, !.head = chain[r].pinned]
    BY <1>3 DEF Resume
  <2> QED
    BY <1>1, <1>2, <2>1 DEF Job
<1>4. ASSUME Pick(r)
      PROVE  job'.repo = r /\ ~job'.resume /\ job'.last = 0 /\ ~job'.full /\ job'.request = 0
  <2>1. job' = [NoJob EXCEPT !.repo = r]
    BY <1>4 DEF Pick
  <2> QED
    BY <1>1, <1>2, <2>1 DEF Job
<1> QED
  BY <1>3, <1>4

LEMMA JobsRead ==
  ASSUME TypeInv, ReadRow
  PROVE  \/ job' = NoJob /\ pc' = "idle"
         \/ /\ job'.repo = R /\ job'.resume = job.resume /\ job'.head = job.head
            /\ job'.full = job.full
            /\ job'.last = repo[R].mark /\ job'.request = repo[R].requested
            /\ job'.newest /\ pc' = IF job.resume THEN "scope" ELSE "sync"
<1>1. job \in Job
  BY DEF TypeInv, TypeOK
<1>2. CASE ~Live(R)
  BY <1>2 DEF ReadRow, EndCycle
<1>3. CASE Live(R)
  <2>1. job' = [job EXCEPT !.last = repo[R].mark, !.request = repo[R].requested,
                           !.newest = TRUE]
          /\ pc' = IF job.resume THEN "scope" ELSE "sync"
    BY <1>3 DEF ReadRow
  <2> QED
    BY <1>1, <2>1 DEF Job, R
<1> QED
  BY <1>2, <1>3

LEMMA JobsFetched ==
  ASSUME TypeInv, Fetch
  PROVE  /\ job'.repo = job.repo /\ job'.resume = job.resume /\ job'.head = tip[R]
         /\ job'.last = job.last /\ job'.full = job.full /\ job'.request = job.request
         /\ job'.newest = job.newest
BY DEF Fetch, TypeInv, TypeOK, Job

LEMMA JobsScoped ==
  ASSUME TypeInv, Scope
  PROVE  /\ job'.repo = job.repo /\ job'.resume = job.resume /\ job'.head = job.head
         /\ job'.request = job.request /\ job'.newest = job.newest
         /\ job'.last = IF RehuntDue THEN 0 ELSE job.last
         /\ job'.full \in BOOLEAN
         /\ job'.last # 0 => ~job'.full
         /\ job'.last = 0 /\ (RehuntDue \/ ResumedFull) => job'.full
<1> DEFINE last == IF RehuntDue THEN 0 ELSE job.last
<1>1. PICK full \in BOOLEAN :
        /\ last # 0 => ~full
        /\ last = 0 /\ (RehuntDue \/ ResumedFull) => full
        /\ job' = [job EXCEPT !.last = last, !.full = full]
  BY DEF Scope
<1>2. last = IF RehuntDue THEN 0 ELSE job.last
  OBVIOUS
<1> HIDE DEF last
<1>3. /\ job'.repo = job.repo /\ job'.resume = job.resume /\ job'.head = job.head
      /\ job'.request = job.request /\ job'.newest = job.newest
      /\ job'.last = last /\ job'.full = full
  BY <1>1 DEF TypeInv, TypeOK, Job
<1> QED
  BY <1>1, <1>2, <1>3

LEMMA JobsAsked ==
  ASSUME TypeInv, NEW r \in Repos, Ask(r)
  PROVE  KeepsJob /\ job'.newest = IF job.repo = r THEN FALSE ELSE job.newest
<1>1. job \in Job /\ job' = IF job.repo = r THEN [job EXCEPT !.newest = FALSE] ELSE job
  BY DEF Ask, TypeInv, TypeOK
<1> QED
  BY <1>1 DEF Job, KeepsJob

-----------------------------------------------------------------------------
(* Requests: what a hunt has read or a chain has accepted is never later than *)
(* the request on the row, and earlier when nobody has read that one.         *)

AskInv ==
  /\ \A r \in Repos : chain[r].request <= repo[r].requested
  /\ R # NoRepo => job.request <= repo[R].requested
  /\ \A r \in Repos : fresh[r] => Urgent(r) /\ chain[r].request < repo[r].requested
  /\ R # NoRepo /\ fresh[R] /\ ~job.newest => job.request < repo[R].requested

LEMMA AskTypes ==
  ASSUME TypeInv
  PROVE  /\ \A r \in Repos : repo[r].requested \in Nat /\ repo[r].attempted \in Nat
                              /\ chain[r].request \in Nat
         /\ job.request \in Nat /\ NoChain.request = 0
         /\ R \in Repos \cup {NoRepo} /\ NoRepo \notin Repos
BY Constants DEF TypeInv, TypeOK, Row, Chain, Job, Requests, R, NoChain

LEMMA AskKept ==
  ASSUME TypeInv, TypeInv', AskInv,
         \A r \in Repos : /\ KeepsAsks(r) /\ fresh'[r] = fresh[r]
                          /\ chain'[r].request \in {chain[r].request, 0},
         \/ R' = R /\ job'.request = job.request /\ job'.newest = job.newest
         \/ job'.request = 0
  PROVE  AskInv'
<1>1. R' \in Repos \cup {NoRepo}
  BY DEF TypeInv, TypeOK, Job, R
<1> QED
  BY <1>1, AskTypes DEF AskInv, KeepsAsks, Urgent

(* The step that reads the newest request may take it out of the queue. *)
LEMMA AskWhenRead ==
  ASSUME TypeInv, TypeInv', AskInv, R \in Repos,
         \A r \in Repos : repo'[r].requested = repo[r].requested,
         \A r \in Repos \ {R} : /\ repo'[r].attempted = repo[r].attempted
                                /\ fresh'[r] = fresh[r]
                                /\ chain'[r] = chain[r],
         job.request # 0 => repo'[R].attempted = job.request,
         job.request = 0 => repo'[R].attempted = repo[R].attempted,
         fresh'[R] => fresh[R] /\ (job.request = 0 \/ ~job.newest),
         chain'[R].request \in {chain[R].request, job.request, 0},
         job' = job \/ job' = NoJob
  PROVE  AskInv'
<1>1. job'.request \in {job.request, 0} /\ R' \in {R, NoRepo} /\ (job' = job => job'.newest = job.newest)
  BY Constants DEF R
<1>2. \A r \in Repos : chain'[r].request <= repo'[r].requested
  BY AskTypes DEF AskInv
<1>3. R' # NoRepo => job'.request <= repo'[R'].requested
  BY <1>1, AskTypes DEF AskInv
<1>4. ASSUME NEW r \in Repos, fresh'[r]
      PROVE  Urgent(r)' /\ chain'[r].request < repo'[r].requested
  <2>1. CASE r # R
    BY <1>4, <2>1 DEF AskInv, Urgent
  <2>2. CASE r = R
    <3>1. fresh[R] /\ repo[R].requested # 0 /\ repo[R].requested # repo[R].attempted
            /\ chain[R].request < repo[R].requested
      BY <1>4, <2>2 DEF AskInv, Urgent
    <3>2. CASE job.request = 0
      BY <2>2, <3>1, <3>2, AskTypes DEF Urgent
    <3>3. CASE job.request # 0
      <4>1. job.request < repo[R].requested
        BY <1>4, <2>2, <3>1, <3>3, AskTypes DEF AskInv
      <4> QED
        BY <2>2, <3>1, <3>3, <4>1, AskTypes DEF Urgent
    <3> QED
      BY <3>2, <3>3
  <2> QED
    BY <2>1, <2>2
<1>5. R' # NoRepo /\ fresh'[R'] /\ ~job'.newest => job'.request < repo'[R'].requested
  <2>1. CASE job' = NoJob
    BY <2>1, Constants DEF R
  <2>2. CASE job' = job
    BY <2>2, AskTypes DEF AskInv, R
  <2> QED
    BY <2>1, <2>2
<1> QED
  BY <1>2, <1>3, <1>4, <1>5 DEF AskInv

LEMMA AskOfFetching ==
  ASSUME TypeInv, TypeInv', AskInv, Fetching PROVE AskInv'
<1> USE DEF db, cycle, hands, past
<1>0. NoJob.request = 0
  BY Constants
<1>1. CASE ReadRow
  <2>1. chain' = chain /\ fresh' = fresh /\ repo' = repo /\ R \in Repos
    BY <1>1 DEF ReadRow, TypeInv, Locals
  <2>2. CASE job' = NoJob
    BY <1>0, <2>1, <2>2, AskKept DEF KeepsAsks
  <2>3. CASE job' # NoJob
    <3>1. R' = R /\ job'.request = repo[R].requested /\ job'.newest
      BY <1>1, <2>3, JobsRead DEF R
    <3> QED
      BY <2>1, <3>1, AskTypes DEF AskInv, Urgent
  <2> QED
    BY <2>2, <2>3
<1>2. CASE FetchFails
  <2>1. /\ chain' = chain /\ job' = NoJob /\ R \in Repos
        /\ fresh' = [fresh EXCEPT ![R] = fresh[R] /\ ~(job.request # 0 /\ job.newest)]
    BY <1>2 DEF FetchFails, ReadNewest, EndAttempt, TypeInv, Locals
  <2>2. fresh \in [Repos -> BOOLEAN]
    BY DEF TypeInv, TypeOK
  <2>3. /\ \A r \in Repos \ {R} : fresh'[r] = fresh[r]
        /\ fresh'[R] => fresh[R] /\ (job.request = 0 \/ ~job.newest)
    BY <2>1, <2>2
  <2>4. \A r \in Repos : /\ repo'[r].requested = repo[r].requested
                         /\ repo'[r].attempted = IF r = R /\ job.request # 0
                                                 THEN job.request ELSE repo[r].attempted
    BY <1>2, RowsOfFetching
  <2> QED
    BY <2>1, <2>3, <2>4, AskWhenRead
<1>3. CASE Fetch
  BY <1>3, JobsFetched, AskKept, RowsOfFetching DEF Fetch, R, KeepsAsks
<1>4. CASE Sync \/ CloneStarts \/ CloneEnds
  <2>1. chain' = chain /\ fresh' = fresh /\ repo' = repo /\ job' = job
    BY <1>4 DEF Sync, CloneStarts, CloneEnds
  <2> QED
    BY <2>1, AskKept DEF R, KeepsAsks
<1> QED
  BY <1>1, <1>2, <1>3, <1>4 DEF Fetching

LEMMA AskOfOpening ==
  ASSUME TypeInv, TypeInv', AskInv, Opening PROVE AskInv'
<1> USE DEF db, cycle, hands, past
<1>0. NoJob.request = 0 /\ chain \in [Repos -> Chain] /\ NoChain.request = 0
  BY Constants DEF TypeInv, TypeOK, NoChain
<1>1. CASE Mark
  <2>1. R \in Repos /\ job' = job
        /\ fresh' = [fresh EXCEPT ![R] = fresh[R] /\ ~(job.request # 0 /\ job.newest)]
    BY <1>1 DEF Mark, ReadNewest, TypeInv, Locals
  <2>2. fresh \in [Repos -> BOOLEAN]
    BY DEF TypeInv, TypeOK
  <2>3. /\ \A r \in Repos \ {R} : fresh'[r] = fresh[r]
        /\ fresh'[R] => fresh[R] /\ (job.request = 0 \/ ~job.newest)
    BY <2>1, <2>2
  <2>4. \A r \in Repos : /\ repo'[r].requested = repo[r].requested
                         /\ repo'[r].attempted = IF r = R /\ job.request # 0
                                                 THEN job.request ELSE repo[r].attempted
    BY <1>1, RowsOfOpening DEF Opening
  <2>5. /\ \A r \in Repos \ {R} : chain'[r] = chain[r]
        /\ chain'[R].request \in {job.request, 0}
    BY <1>1, ChainsOfMark
  <2> QED
    BY <2>1, <2>3, <2>4, <2>5, AskWhenRead
<1>2. CASE ~Mark
  <2>1. \A r \in Repos : KeepsAsks(r)
    BY <1>2, RowsOfOpening DEF KeepsAsks
  <2>2. fresh' = fresh
    BY <1>2 DEF Opening, Skip, Scope, Granted, Denied, Create, Refused, Launch, TreeNotMade
  <2>3. \A r \in Repos : chain'[r].request \in {chain[r].request, 0}
    <3>1. CASE Create
      BY <3>1, ChainsOfCreate DEF KeepsChain
    <3>2. CASE Launch
      BY <3>2, ChainsOfLaunch DEF KeepsChain
    <3>3. CASE TreeNotMade
      BY <1>0, <3>3 DEF TreeNotMade
    <3> QED
      BY <1>2, <3>1, <3>2, <3>3 DEF Opening, Skip, Scope, Granted, Denied, Refused
  <2>4. \/ R' = R /\ job'.request = job.request /\ job'.newest = job.newest
        \/ job'.request = 0
    BY <1>0, <1>2, JobsScoped DEF Opening, Skip, Granted, Denied, Create, Refused, Launch,
       TreeNotMade, EndCycle, EndAttempt, R
  <2> QED
    BY <2>1, <2>2, <2>3, <2>4, AskKept
<1> QED
  BY <1>1, <1>2

LEMMA AskOfSelecting ==
  ASSUME TypeInv, TypeInv', AskInv, Selecting PROVE AskInv'
<1> USE DEF db, cycle, hands, past
<1>0. NoJob.request = 0 /\ NoChain.request = 0
  BY Constants DEF NoChain
<1>1. \A r \in Repos : KeepsAsks(r) /\ chain'[r].request \in {chain[r].request, 0}
  BY <1>0, RowsOfSelecting, ChainsOfSelecting DEF Keeps, KeepsChain
<1>2. fresh' = fresh
  BY DEF Selecting, StartCycle, PickOther, GiveUp, Resume, Pick
<1>3. job' = job \/ job'.request = 0
  BY <1>0, JobsPicked DEF Selecting, StartCycle, PickOther, GiveUp
<1> QED
  BY <1>1, <1>2, <1>3, AskKept DEF R

LEMMA AskOfWorking ==
  ASSUME TypeInv, TypeInv', AskInv, Working PROVE AskInv'
<1>1. fresh' = fresh /\ (job' = job \/ job' = NoJob)
  BY DEF Working, RunBreaks, WorkerPauses, WorkerFails, WorkerFinishes, EndCycle, EndAttempt, past
<1>2. \A r \in Repos : chain'[r].request \in {chain[r].request, 0}
  BY ChainsOfWorking DEF KeepsChain, NoChain
<1>3. \A r \in Repos : KeepsAsks(r)
  BY RowsOfWorking DEF Keeps
<1> QED
  BY <1>1, <1>2, <1>3, AskKept, Constants DEF R

LEMMA AskOfConcluding ==
  ASSUME TypeInv, TypeInv', AskInv, Concluding PROVE AskInv'
<1>1. CASE SetLastHunt
  BY <1>1, AskKept, RowsOfSetLastHunt DEF SetLastHunt, R, past
<1>2. CASE SetLastFull
  BY <1>2, AskKept, RowsOfSetLastFull DEF SetLastFull, R, past
<1>3. CASE Settle
  <2>1. /\ R \in Repos /\ fresh' = fresh /\ job' = NoJob
        /\ chain'[R].request = 0 /\ \A r \in Repos \ {R} : chain'[r] = chain[r]
    BY <1>3, Constants DEF Settle, EndAttempt, past, NoChain, TypeInv, TypeOK, Locals
  <2>2. CASE Settles(repo[R])
    <3>1. ~fresh[R]
      BY <2>1, <2>2, AskTypes DEF Settles, AskInv
    <3>2. \A r \in Repos : /\ repo'[r].requested = IF r = R THEN 0 ELSE repo[r].requested
                           /\ repo'[r].attempted = repo[r].attempted
      BY <1>3, <2>2, RowsOfSettle
    <3>3. \A r \in Repos : chain'[r].request <= repo'[r].requested
      BY <2>1, <3>2, AskTypes DEF AskInv
    <3>4. \A r \in Repos : fresh'[r] => Urgent(r)' /\ chain'[r].request < repo'[r].requested
      BY <2>1, <3>1, <3>2 DEF AskInv, Urgent
    <3> QED
      BY <2>1, <3>3, <3>4, Constants DEF AskInv, R
  <2>3. CASE ~Settles(repo[R])
    <3>1. \A r \in Repos : KeepsAsks(r)
      BY <1>3, <2>3, RowsOfSettle DEF KeepsAsks
    <3> QED
      BY <2>1, <3>1, AskKept, Constants
  <2> QED
    BY <2>2, <2>3
<1> QED
  BY <1>1, <1>2, <1>3 DEF Concluding

LEMMA AskOfOperator ==
  ASSUME TypeInv, TypeInv', AskInv, Operator PROVE AskInv'
<1>1. ASSUME NEW q \in Repos, Ask(q) PROVE AskInv'
  <2>1. /\ chain' = chain /\ fresh' = [fresh EXCEPT ![q] = TRUE]
        /\ R' = R /\ job'.request = job.request
        /\ job'.newest = IF R = q THEN FALSE ELSE job.newest
    BY <1>1, JobsAsked DEF Ask, KeepsJob, R
  <2>2. fresh'[q] /\ \A r \in Repos \ {q} : fresh'[r] = fresh[r]
    BY <2>1 DEF TypeInv, TypeOK
  <2>3. /\ \A r \in Repos \ {q} : KeepsAsks(r)
        /\ repo'[q].attempted = repo[q].attempted
        /\ repo'[q].requested \in Nat
        /\ repo'[q].requested > repo[q].requested
        /\ repo'[q].requested > repo[q].attempted
    BY <1>1, RowsOfAsk DEF Keeps
  <2>4. \A r \in Repos : chain'[r].request <= repo'[r].requested
    BY <2>1, <2>3, AskTypes DEF AskInv, KeepsAsks
  <2>5. R' # NoRepo => job'.request <= repo'[R'].requested
    BY <2>1, <2>3, AskTypes DEF AskInv, KeepsAsks
  <2>6. \A r \in Repos : fresh'[r] => Urgent(r)' /\ chain'[r].request < repo'[r].requested
    BY <2>1, <2>2, <2>3, AskTypes DEF AskInv, KeepsAsks, Urgent
  <2>7. R' # NoRepo /\ fresh'[R'] /\ ~job'.newest => job'.request < repo'[R'].requested
    BY <2>1, <2>2, <2>3, AskTypes DEF AskInv, KeepsAsks
  <2> QED
    BY <2>4, <2>5, <2>6, <2>7 DEF AskInv
<1>2. CASE \A r \in Repos : ~Ask(r)
  <2>1. chain' = chain /\ fresh' = fresh /\ job' = job
    BY <1>2 DEF Operator, Toggle, SoftDelete, ReapNow, NoteFor, AppendNote, db, cycle, past
  <2>2. \A r \in Repos : KeepsAsks(r)
    BY <1>2, RowsOfOperator
  <2> QED
    BY <2>1, <2>2, AskKept DEF R
<1> QED
  BY <1>1, <1>2

LEMMA AskStep ==
  ASSUME TypeInv, TypeInv', AskInv, [Next]_vars PROVE AskInv'
<1> USE DEF db, cycle, hands, past
<1>1. CASE UNCHANGED vars
  BY <1>1, AskKept DEF vars, R, KeepsAsks
<1>2. CASE Reaping
  <2>1. fresh' = fresh /\ job' = job /\ chain' = chain
    BY <1>2 DEF Reaping, Reaped, ReapFlagged, RemoveDir, RemoveNotes, RemovalFails, DropRow
  <2> QED
    BY <1>2, <2>1, AskKept, RowsOfReaping DEF R
<1>3. CASE Elsewhere
  <2>1. fresh' = fresh /\ (job' = job \/ job' = NoJob) /\ chain' = chain
    BY <1>3 DEF Elsewhere, Push, ScanFallsDue, FullFallsDue, Crash
  <2> QED
    BY <1>3, <2>1, AskKept, RowsOfElsewhere, Constants DEF R
<1> QED
  BY <1>1, <1>2, <1>3, AskOfSelecting, AskOfFetching, AskOfOpening, AskOfWorking,
     AskOfConcluding, AskOfOperator DEF Next, Daemon

-----------------------------------------------------------------------------
(* Reviews: below the watermark, below where a chain's range begins and below *)
(* where a hunt has read that it will, every commit has been reviewed.        *)

Concluded == {"water", "full", "settle"}

ReviewInv ==
  /\ \A r \in Repos : 1..repo[r].mark \subseteq reviewed[r]
  /\ \A r \in Repos : 1..chain[r].from \subseteq reviewed[r]
  /\ R # NoRepo => 1..job.last \subseteq reviewed[R]
  /\ pc \in Concluded => 1..chain[R].pinned \subseteq reviewed[R]

LEMMA ReviewTypes ==
  ASSUME TypeInv
  PROVE  /\ \A r \in Repos : repo[r].mark \in Nat /\ chain[r].from \in Nat /\ chain[r].pinned \in Nat
         /\ job.last \in Nat /\ job.head \in Nat
         /\ NoChain.from = 0 /\ NoJob.last = 0 /\ NoJob.repo = NoRepo
         /\ 1..0 = {}
         /\ pc \notin {"idle", "reap"} => R \in Repos
BY Constants DEF TypeInv, TypeOK, Row, Chain, Job, Shas, R, NoChain, NoJob, Locals

LEMMA ReviewKept ==
  ASSUME TypeInv, TypeInv', ReviewInv,
         \A r \in Repos : /\ reviewed[r] \subseteq reviewed'[r]
                          /\ repo'[r].mark \in {repo[r].mark, 0}
                          /\ chain'[r].from \in {chain[r].from, 0},
         \/ R' = R /\ job'.last = job.last
         \/ job'.last = 0,
         pc' \in Concluded => pc \in Concluded /\ R' = R /\ chain'[R].pinned = chain[R].pinned
  PROVE  ReviewInv'
<1>1. R' \in Repos \cup {NoRepo} /\ (pc \in Concluded => R \in Repos)
  BY DEF TypeInv, TypeOK, Job, R, Concluded, Locals
<1>2. \A r \in Repos : 1..repo'[r].mark \subseteq reviewed'[r]
  BY ReviewTypes DEF ReviewInv
<1>3. \A r \in Repos : 1..chain'[r].from \subseteq reviewed'[r]
  BY ReviewTypes DEF ReviewInv
<1>4. R' # NoRepo => 1..job'.last \subseteq reviewed'[R']
  BY <1>1, ReviewTypes DEF ReviewInv
<1>5. pc' \in Concluded => 1..chain'[R'].pinned \subseteq reviewed'[R']
  BY <1>1, ReviewTypes DEF ReviewInv
<1> QED
  BY <1>2, <1>3, <1>4, <1>5 DEF ReviewInv

LEMMA ReviewOfFetching ==
  ASSUME TypeInv, TypeInv', ReviewInv, Fetching PROVE ReviewInv'
<1> USE DEF db, cycle, hands, past
<1>1. /\ chain' = chain /\ reviewed' = reviewed /\ pc' \notin Concluded
      /\ \A r \in Repos : repo'[r].mark = repo[r].mark
  BY ChainsElsewhere, RowsOfFetching
     DEF Fetching, ReadRow, Sync, CloneStarts, CloneEnds, Fetch, FetchFails, EndCycle,
         EndAttempt, Concluded, KeepsMark
<1>2. CASE ReadRow
  <2>1. CASE job' = NoJob
    BY <1>1, <2>1, ReviewKept, ReviewTypes
  <2>2. CASE job' # NoJob
    <3>1. R' = R /\ job'.last = repo[R].mark
      BY <1>2, <2>2, JobsRead DEF R
    <3> QED
      BY <1>1, <1>2, <3>1, ReviewTypes DEF ReviewInv, ReadRow
  <2> QED
    BY <2>1, <2>2
<1>3. CASE ~ReadRow
  <2>1. (R' = R /\ job'.last = job.last) \/ job'.last = 0
    BY <1>3, JobsFetched, ReviewTypes DEF Fetching, Sync, CloneStarts, CloneEnds, FetchFails,
       EndAttempt, R
  <2> QED
    BY <1>1, <2>1, ReviewKept
<1> QED
  BY <1>2, <1>3

LEMMA ReviewOfOpening ==
  ASSUME TypeInv, TypeInv', ReviewInv, Opening PROVE ReviewInv'
<1> USE DEF db, cycle, hands, past
<1>1. reviewed' = reviewed /\ pc' \notin Concluded
  BY DEF Opening, Skip, Scope, Granted, Denied, Create, Refused, Mark, Launch, TreeNotMade,
         EndCycle, EndAttempt, Concluded, ReadNewest
<1>2. CASE Skip
  <2>1. R \in Repos /\ chain' = chain /\ job' = NoJob /\ job.last = job.head
    BY <1>2 DEF Skip, EndCycle, TypeInv, Locals
  <2>2. \A r \in Repos : repo'[r].mark = IF r = R THEN job.last ELSE repo[r].mark
    BY <1>2, <2>1, RowsOfOpening DEF Opening
  <2> QED
    BY <1>1, <2>1, <2>2, ReviewTypes, Constants DEF ReviewInv, R
<1>3. CASE Launch
  <2>1. R \in Repos /\ job' = job /\ repo' = repo
    BY <1>3 DEF Launch, TypeInv, Locals
  <2>2. /\ chain'[R].from \in {chain[R].from, job.last}
        /\ \A r \in Repos \ {R} : chain'[r] = chain[r]
    BY <1>3, ChainsOfLaunch DEF KeepsChain
  <2> QED
    BY <1>1, <2>1, <2>2, Constants DEF ReviewInv, R
<1>4. CASE ~Skip /\ ~Launch
  <2>1. \A r \in Repos : repo'[r].mark \in {repo[r].mark, 0}
    BY <1>4, RowsOfOpening
  <2>2. \A r \in Repos : chain'[r].from \in {chain[r].from, 0}
    <3>1. CASE TreeNotMade
      BY <3>1, ReviewTypes DEF TreeNotMade, TypeInv, TypeOK
    <3> QED
      BY <1>4, <3>1, ChainsOfCreate, ChainsOfMark
         DEF Opening, Scope, Granted, Denied, Refused, KeepsChain
  <2>3. (R' = R /\ job'.last = job.last) \/ job'.last = 0
    BY <1>4, JobsScoped, ReviewTypes DEF Opening, Granted, Denied, Create, Refused, Mark,
       TreeNotMade, EndCycle, EndAttempt, R
  <2> QED
    BY <1>1, <2>1, <2>2, <2>3, ReviewKept
<1> QED
  BY <1>2, <1>3, <1>4

LEMMA ReviewOfWorking ==
  ASSUME TypeInv, TypeInv', ReviewInv, Working PROVE ReviewInv'
<1> USE DEF db, cycle, hands, past
<1>1. \A r \in Repos : /\ repo'[r].mark = repo[r].mark
                       /\ chain'[r].from \in {chain[r].from, 0}
  BY RowsOfWorking, ChainsOfWorking, ReviewTypes DEF Keeps, KeepsMark, KeepsChain
<1>2. CASE WorkerFinishes
  <2>1. /\ R \in Repos /\ R' = R /\ job' = job
        /\ reviewed' = [reviewed EXCEPT ![R] =
                          reviewed[R] \cup ((chain[R].from + 1)..chain[R].pinned)]
    BY <1>2 DEF WorkerFinishes, TypeInv, Locals, R
  <2>2. /\ \A r \in Repos \ {R} : reviewed'[r] = reviewed[r]
        /\ reviewed'[R] = reviewed[R] \cup ((chain[R].from + 1)..chain[R].pinned)
    BY <2>1 DEF TypeInv, TypeOK
  <2>3. 1..chain[R].pinned \subseteq reviewed'[R]
    BY <2>1, <2>2, ReviewTypes DEF ReviewInv
  <2>4. chain'[R].pinned = chain[R].pinned
    BY <1>2, <2>1 DEF WorkerFinishes, TypeInv, TypeOK, Chain
  <2>5. \A r \in Repos : reviewed[r] \subseteq reviewed'[r]
    BY <2>2
  <2> QED
    BY <1>1, <2>1, <2>3, <2>4, <2>5, ReviewTypes, Constants DEF ReviewInv
<1>3. CASE ~WorkerFinishes
  BY <1>1, <1>3, ReviewKept, ReviewTypes
     DEF Working, RunBreaks, WorkerPauses, WorkerFails, EndCycle, EndAttempt, Concluded, R
<1> QED
  BY <1>2, <1>3

LEMMA ReviewOfConcluding ==
  ASSUME TypeInv, TypeInv', ReviewInv, Concluding PROVE ReviewInv'
<1> USE DEF db, cycle, hands, past, Concluded
<1>1. CASE SetLastHunt
  <2>1. R \in Repos /\ pc = "water" /\ R' = R /\ job' = job /\ chain' = chain /\ reviewed' = reviewed
    BY <1>1 DEF SetLastHunt, TypeInv, Locals, R
  <2> QED
    BY <1>1, <2>1, RowsOfSetLastHunt, ReviewTypes, Constants DEF ReviewInv
<1>2. CASE SetLastFull
  BY <1>2, ReviewKept, RowsOfSetLastFull DEF SetLastFull, KeepsMark, R
<1>3. CASE Settle
  BY <1>3, ReviewKept, ReviewTypes, RowsOfSettle DEF Settle, EndAttempt, KeepsMark, TypeInv, TypeOK
<1> QED
  BY <1>1, <1>2, <1>3 DEF Concluding

LEMMA ReviewStep ==
  ASSUME TypeInv, TypeInv', ReviewInv, [Next]_vars PROVE ReviewInv'
<1> USE DEF db, cycle, hands, past
<1>1. CASE UNCHANGED vars
  BY <1>1, ReviewKept DEF vars, R
<1>2. CASE Reaping
  <2>1. reviewed' = reviewed /\ job' = job /\ pc' = pc /\ chain' = chain
    BY <1>2 DEF Reaping, Reaped, ReapFlagged, RemoveDir, RemoveNotes, RemovalFails, DropRow
  <2> QED
    BY <1>2, <2>1, ReviewKept, RowsOfReaping DEF R, KeepsMark
<1>3. CASE Selecting
  <2>1. reviewed' = reviewed /\ pc' \notin Concluded
    BY <1>3 DEF Selecting, StartCycle, PickOther, GiveUp, Resume, Pick, Reconciled, Concluded
  <2>2. \A r \in Repos : /\ repo'[r].mark = repo[r].mark
                         /\ chain'[r].from \in {chain[r].from, 0}
    BY <1>3, RowsOfSelecting, ChainsOfSelecting, ReviewTypes DEF Keeps, KeepsMark, KeepsChain
  <2>3. job' = job \/ job'.last = 0
    BY <1>3, JobsPicked, ReviewTypes DEF Selecting, StartCycle, PickOther, GiveUp
  <2> QED
    BY <2>1, <2>2, <2>3, ReviewKept DEF R
<1>4. CASE Operator
  <2>1. /\ reviewed' = reviewed /\ chain' = chain /\ pc' = pc
        /\ \A r \in Repos : repo'[r].mark = repo[r].mark
    <3>1. \A r \in Repos : repo'[r].mark = repo[r].mark
      BY <1>4, RowsOfAsk, RowsOfOperator DEF Keeps, KeepsMark
    <3> QED
      BY <1>4, <3>1 DEF Operator, Ask, Toggle, SoftDelete, ReapNow, NoteFor, AppendNote
  <2>2. R' = R /\ job'.last = job.last
    <3>1. ASSUME NEW q \in Repos, Ask(q) PROVE R' = R /\ job'.last = job.last
      BY <3>1, JobsAsked DEF KeepsJob, R
    <3> QED
      BY <1>4, <3>1 DEF Operator, Toggle, SoftDelete, ReapNow, NoteFor, AppendNote, R
  <2> QED
    BY <2>1, <2>2, ReviewKept
<1>5. CASE Elsewhere
  <2>1. /\ reviewed' = reviewed /\ chain' = chain
        /\ (job' = job /\ pc' = pc) \/ (job' = NoJob /\ pc' = "idle")
    BY <1>5 DEF Elsewhere, Push, ScanFallsDue, FullFallsDue, Crash
  <2> QED
    BY <1>5, <2>1, ReviewKept, ReviewTypes, RowsOfElsewhere DEF R, KeepsMark, Concluded
<1> QED
  BY <1>1, <1>2, <1>3, <1>4, <1>5, ReviewOfFetching, ReviewOfOpening, ReviewOfWorking,
     ReviewOfConcluding DEF Next, Daemon

-----------------------------------------------------------------------------
(* The chain as the steps of run_hunt leave it for one another *)

Opened == {"scope", "gate", "create", "mark", "tree"}

StateInv ==
  /\ pc \in Pre => chain[R].state = IF job.resume THEN "suspended" ELSE "none"
  /\ pc = "mark" => chain[R].state = "created"
  /\ pc = "tree" => chain[R].state = "created"
  /\ pc = "work" => chain[R].state = "working"
  /\ pc \in Concluded => chain[R].state = "done"
  /\ \A r \in Repos : pc # "idle" /\ r # R => chain[r].state \in {"none", "suspended"}

PinInv ==
  /\ \A r \in Repos : chain[r].state \in {"suspended", "working", "done"} => chain[r].pinned # 0
  /\ pc \in Opened \/ (pc = "read" /\ job.resume) => job.head # 0
  /\ pc = "tree" /\ job.resume => chain[R].pinned # 0

ColdInv ==
  /\ pc \in {"sync", "clone", "cloning", "fetch", "mark"} => ~job.resume
  /\ pc = "mark" => chain[R].pinned = 0 /\ ~chain[R].full /\ chain[R].request = 0
  /\ pc = "tree" /\ ~job.resume =>
       /\ chain[R].pinned = 0 /\ chain[R].full = job.full
       /\ chain[R].request = IF job.full THEN job.request ELSE 0

ShapeInv == StateInv /\ PinInv /\ ColdInv

LEMMA ShapeTypes ==
  ASSUME TypeInv
  PROVE  /\ pc \notin {"idle", "reap"} => R \in Repos
         /\ pc \in {"idle", "reap"} => R = NoRepo
         /\ pc \in Pcs
         /\ NoRepo \notin Repos
         /\ NoChain.state = "none"
         /\ \A r \in Repos : chain[r].state \in {"none", "created", "working", "suspended", "done"}
BY Constants DEF TypeInv, TypeOK, Locals, R, NoChain, Chain

(* A step that leaves the chains and the cycle's place as they are, or ends it *)
LEMMA ShapeKept ==
  ASSUME TypeInv, ShapeInv, chain' = chain,
         \/ pc' = "idle"
         \/ /\ pc' = pc /\ R' = R /\ job'.resume = job.resume /\ job'.head = job.head
            /\ job'.full = job.full /\ job'.request = job.request
  PROVE  ShapeInv'
BY DEF ShapeInv, StateInv, PinInv, ColdInv, Pre, Opened, Concluded

LEMMA ShapeOfSelecting ==
  ASSUME TypeInv, TypeInv', ShapeInv, Selecting PROVE ShapeInv'
<1> USE DEF db, cycle, hands, past
<1>1. \A r \in Repos : chain'[r].state \in {"suspended", "working", "done"} => chain'[r].pinned # 0
  BY ShapeTypes, ChainsOfSelecting DEF ShapeInv, PinInv, KeepsChain
<1>2. CASE StartCycle
  BY <1>1, <1>2, ChainsOfSelecting
     DEF StartCycle, ShapeInv, StateInv, PinInv, ColdInv, Pre, Opened, Concluded
<1>3. CASE PickOther
  BY <1>3, ShapeKept DEF PickOther
<1>4. ASSUME NEW r \in Repos, GiveUp(r) PROVE ShapeInv'
  <2>1. pc = "reap" /\ pc' = "reap" /\ R' = R /\ R = NoRepo
    BY <1>4, ShapeTypes DEF GiveUp, Reconciled, R
  <2>2. \A q \in Repos : chain'[q].state \in {chain[q].state, "none"}
    BY <1>4, ShapeTypes DEF GiveUp, TypeInv, TypeOK
  <2> QED
    BY <1>1, <2>1, <2>2, ShapeTypes
       DEF ShapeInv, StateInv, PinInv, ColdInv, Pre, Opened, Concluded
<1>5. ASSUME NEW r \in Repos, Resume(r) PROVE ShapeInv'
  <2>1. pc = "reap" /\ pc' = "read" /\ R' = r /\ job'.resume /\ chain' = chain
          /\ chain[r].state = "suspended" /\ job'.head = chain[r].pinned
    BY <1>5, JobsPicked DEF Resume, Reconciled, Resumable, R
  <2>2. \A q \in Repos : chain[q].state \in {"none", "suspended"}
    BY <2>1, ShapeTypes DEF ShapeInv, StateInv
  <2> QED
    BY <1>1, <2>1, <2>2 DEF ShapeInv, StateInv, PinInv, ColdInv, Pre, Opened, Concluded
<1>6. ASSUME NEW r \in Repos, Pick(r) PROVE ShapeInv'
  <2>1. pc = "reap" /\ pc' = "read" /\ R' = r /\ ~job'.resume /\ chain' = chain
          /\ ~Resumable(r) /\ Live(r)
    BY <1>6, JobsPicked DEF Pick, Reconciled, Huntable, R
  <2>2. \A q \in Repos : chain[q].state \in {"none", "suspended"}
    BY <2>1, ShapeTypes DEF ShapeInv, StateInv
  <2>3. chain[r].state = "none"
    BY <2>1, <2>2 DEF Resumable
  <2> QED
    BY <1>1, <2>1, <2>2, <2>3 DEF ShapeInv, StateInv, PinInv, ColdInv, Pre, Opened, Concluded
<1> QED
  BY <1>2, <1>3, <1>4, <1>5, <1>6 DEF Selecting

LEMMA ShapeOfFetching ==
  ASSUME TypeInv, TypeInv', ShapeInv, Fetching PROVE ShapeInv'
<1> USE DEF db, cycle, hands, past
<1> USE DEF ShapeInv, StateInv, PinInv, ColdInv, Pre, Opened, Concluded
<1>0. chain' = chain
  BY ChainsElsewhere
<1>1. CASE pc' = "idle"
  BY <1>0, <1>1, ShapeKept
<1>2. CASE ReadRow /\ pc' # "idle"
  <2>1. R' = R /\ job'.resume = job.resume /\ job'.head = job.head
          /\ pc = "read" /\ pc' = IF job.resume THEN "scope" ELSE "sync"
    BY <1>2, JobsRead DEF ReadRow, R
  <2> QED
    BY <1>0, <2>1
<1>3. CASE Sync \/ CloneStarts \/ CloneEnds
  BY <1>0, <1>3 DEF Sync, CloneStarts, CloneEnds, R
<1>4. CASE Fetch
  <2>1. R' = R /\ job'.resume = job.resume /\ job'.head = tip[R] /\ R \in Repos
          /\ pc = "fetch" /\ pc' = "scope"
    BY <1>4, JobsFetched, ShapeTypes DEF Fetch, R
  <2>2. tip[R] # 0
    BY <2>1 DEF TypeInv, TypeOK
  <2> QED
    BY <1>0, <2>1, <2>2
<1> QED
  BY <1>1, <1>2, <1>3, <1>4 DEF Fetching, FetchFails, EndAttempt

LEMMA ShapeOfOpening ==
  ASSUME TypeInv, TypeInv', ShapeInv, Opening PROVE ShapeInv'
<1> USE DEF db, cycle, hands, past
<1>0. /\ NoChain.state = "none"
      /\ \A r \in Repos \ {R} : chain[r].state \in {"none", "suspended"}
  <2>1. pc # "idle"
    BY DEF Opening, Skip, Scope, Granted, Denied, Create, Refused, Mark, Launch, TreeNotMade
  <2> QED
    BY <2>1, ShapeTypes DEF ShapeInv, StateInv
<1>1. CASE Skip \/ Denied \/ Refused
  BY <1>1, ShapeKept DEF Skip, Denied, Refused, EndCycle
<1>2. CASE Granted
  BY <1>2 DEF Granted, R, ShapeInv, StateInv, PinInv, ColdInv, Pre, Opened, Concluded
<1>3. CASE Scope
  BY <1>3, JobsScoped DEF Scope, R, ShapeInv, StateInv, PinInv, ColdInv, Pre, Opened, Concluded
<1>4. CASE Create
  <2>1. /\ R \in Repos /\ R' = R /\ job' = job /\ pc = "create"
        /\ pc' = IF job.resume THEN "tree" ELSE "mark"
    BY <1>4, ShapeTypes DEF Create, R
  <2>2. job.resume => chain[R].pinned # 0
    BY <2>1 DEF ShapeInv, StateInv, PinInv, Pre
  <2> QED
    BY <1>0, <1>4, <2>1, <2>2, ChainsOfCreate
       DEF ShapeInv, StateInv, PinInv, ColdInv, Pre, Opened, Concluded, KeepsChain
<1>5. CASE Mark
  <2>1. R \in Repos /\ R' = R /\ job' = job /\ pc = "mark" /\ pc' = "tree" /\ ~job.resume
    BY <1>5, ShapeTypes DEF Mark, R, ShapeInv, ColdInv
  <2> QED
    BY <1>0, <1>5, <2>1, ChainsOfMark
       DEF ShapeInv, StateInv, PinInv, ColdInv, Pre, Opened, Concluded
<1>6. CASE Launch
  <2>1. R \in Repos /\ R' = R /\ job' = job /\ pc = "tree" /\ pc' = "work"
    BY <1>6, ShapeTypes DEF Launch, R
  <2> QED
    BY <1>0, <1>6, <2>1, ChainsOfLaunch
       DEF ShapeInv, StateInv, PinInv, ColdInv, Pre, Opened, Concluded, KeepsChain
<1>7. CASE TreeNotMade
  <2>1. R \in Repos /\ pc' = "idle" /\ chain' = [chain EXCEPT ![R] = NoChain]
    BY <1>7, ShapeTypes DEF TreeNotMade, EndAttempt
  <2> QED
    BY <1>0, <2>1 DEF ShapeInv, StateInv, PinInv, ColdInv, Pre, Opened, Concluded, TypeInv, TypeOK
<1> QED
  BY <1>1, <1>2, <1>3, <1>4, <1>5, <1>6, <1>7 DEF Opening

LEMMA ShapeOfWorking ==
  ASSUME TypeInv, TypeInv', ShapeInv, Working PROVE ShapeInv'
<1>1. /\ R \in Repos /\ pc = "work"
      /\ pc' = IF WorkerFinishes THEN "water" ELSE "idle"
      /\ WorkerFinishes => R' = R
  BY ShapeTypes DEF Working, RunBreaks, WorkerPauses, WorkerFails, WorkerFinishes, EndCycle,
     EndAttempt, R
<1>2. /\ chain[R].pinned # 0 /\ NoChain.state = "none"
      /\ \A r \in Repos \ {R} : chain[r].state \in {"none", "suspended"}
  BY <1>1, ShapeTypes DEF ShapeInv, StateInv, PinInv
<1> QED
  BY <1>1, <1>2, ChainsOfWorking
     DEF ShapeInv, StateInv, PinInv, ColdInv, Pre, Opened, Concluded, KeepsChain, WorkerPauses,
         RunBreaks, EndAttempt, EndCycle

LEMMA ShapeOfConcluding ==
  ASSUME TypeInv, TypeInv', ShapeInv, Concluding PROVE ShapeInv'
<1> USE DEF ShapeInv, StateInv, PinInv, ColdInv, Pre, Opened, Concluded
<1>1. CASE SetLastHunt \/ SetLastFull
  BY <1>1 DEF SetLastHunt, SetLastFull, R
<1>2. CASE Settle
  <2>1. R \in Repos /\ pc' = "idle" /\ chain' = [chain EXCEPT ![R] = NoChain]
    BY <1>2, ShapeTypes DEF Settle, EndAttempt
  <2> QED
    BY <2>1, ShapeTypes DEF TypeInv, TypeOK
<1> QED
  BY <1>1, <1>2 DEF Concluding

LEMMA ShapeStep ==
  ASSUME TypeInv, TypeInv', ShapeInv, [Next]_vars PROVE ShapeInv'
<1> USE DEF db, cycle, hands, past
<1>1. CASE UNCHANGED vars
  BY <1>1, ShapeKept DEF vars, R
<1>2. CASE Reaping
  BY <1>2, ShapeKept, ChainsElsewhere
     DEF Reaping, Reaped, ReapFlagged, RemoveDir, RemoveNotes, RemovalFails, DropRow, R
<1>3. CASE Operator
  <2>1. ASSUME NEW q \in Repos, Ask(q) PROVE pc' = pc /\ KeepsJob
    BY <2>1, JobsAsked DEF Ask
  <2>2. pc' = pc /\ (job' = job \/ KeepsJob)
    BY <1>3, <2>1 DEF Operator, Toggle, SoftDelete, ReapNow, NoteFor, AppendNote
  <2> QED
    BY <1>3, <2>2, ShapeKept, ChainsElsewhere DEF KeepsJob, R
<1>4. CASE Elsewhere
  BY <1>4, ShapeKept, ChainsElsewhere DEF Elsewhere, Push, ScanFallsDue, FullFallsDue, Crash, R
<1> QED
  BY <1>1, <1>2, <1>3, <1>4, ShapeOfSelecting, ShapeOfFetching, ShapeOfOpening, ShapeOfWorking,
     ShapeOfConcluding DEF Next, Daemon

-----------------------------------------------------------------------------
(* Answers: a hunt or a chain that carries the newest request reviews, in     *)
(* full, at least the commits there were when that request was made.          *)

RowAnswered ==
  \A r \in Repos : /\ wanted[r] <= tip[r]
                   /\ repo[r].requested = 0 => wanted[r] <= swept[r]

HuntAnswers ==
  pc \in Opened /\ ~job.resume /\ job.request # 0 =>
    /\ job.request = repo[R].requested => wanted[R] <= job.head
    /\ pc # "scope" => job.full

ChainAnswers ==
  \A r \in Repos :
    /\ chain[r].request # 0 => chain[r].full
    /\ chain[r].pinned # 0 =>
         /\ chain[r].full <=> chain[r].told
         /\ chain[r].request # 0 /\ chain[r].request = repo[r].requested =>
              wanted[r] <= chain[r].pinned

SweepDone == pc \in Concluded /\ chain[R].told => chain[R].pinned <= swept[R]

AnswerInv == RowAnswered /\ HuntAnswers /\ ChainAnswers /\ SweepDone

LEMMA AnswerTypes ==
  ASSUME TypeInv
  PROVE  /\ \A r \in Repos : /\ wanted[r] \in Nat /\ swept[r] \in Nat /\ tip[r] \in Nat
                             /\ chain[r].pinned \in Nat /\ chain[r].told \in BOOLEAN
                             /\ chain[r].full \in BOOLEAN
         /\ job.head \in Nat /\ job.full \in BOOLEAN
         /\ NoChain.pinned = 0 /\ NoChain.request = 0 /\ NoChain.full = FALSE
         /\ NoChain.told = FALSE
         /\ pc \notin {"idle", "reap"} => R \in Repos
BY HuntsAssumption DEF TypeInv, TypeOK, Locals, Chain, Job, Shas, NoChain, R

LEMMA AnswerKept ==
  ASSUME TypeInv, TypeInv', AnswerInv,
         \A r \in Repos : /\ repo'[r].requested = repo[r].requested
                          /\ wanted'[r] = wanted[r]
                          /\ swept[r] <= swept'[r] /\ tip[r] <= tip'[r]
                          /\ chain'[r] = NoChain \/ KeepsChain(r),
         \/ pc' \notin Opened \cup Concluded
         \/ /\ pc' = pc /\ R' = R /\ KeepsJob /\ chain' = chain
         \/ /\ pc' \in Opened \ {"scope"} /\ pc \in Opened \ {"scope"} /\ R' = R /\ job' = job
  PROVE  AnswerInv'
<1>0. pc' \in Opened \cup Concluded => R' \in Repos
  BY AnswerTypes DEF TypeInv, Locals, Opened, Concluded
<1>00. \A r \in Repos : /\ wanted'[r] \in Nat /\ swept'[r] \in Nat /\ tip'[r] \in Nat
  BY HuntsAssumption DEF TypeInv, TypeOK, Shas
<1>1. RowAnswered'
  BY <1>00, AnswerTypes DEF AnswerInv, RowAnswered
<1>2. HuntAnswers'
  BY <1>0 DEF AnswerInv, HuntAnswers, KeepsJob, Opened, Concluded
<1>3. ChainAnswers'
  BY AnswerTypes DEF AnswerInv, ChainAnswers, KeepsChain
<1>4. SweepDone'
  <2>1. CASE pc' \in Concluded
    <3>1. pc' = pc /\ R' = R /\ chain' = chain
      BY <2>1 DEF Opened, Concluded
    <3> QED
      BY <1>0, <1>00, <2>1, <3>1, AnswerTypes DEF AnswerInv, SweepDone
  <2> QED
    BY <2>1 DEF SweepDone
<1> QED
  BY <1>1, <1>2, <1>3, <1>4 DEF AnswerInv

LEMMA AnswerOfFetching ==
  ASSUME TypeInv, TypeInv', AnswerInv, ShapeInv, Fetching PROVE AnswerInv'
<1> USE DEF db, cycle, hands, past
<1>1. /\ chain' = chain /\ wanted' = wanted /\ swept' = swept /\ tip' = tip
      /\ \A r \in Repos : repo'[r].requested = repo[r].requested
  BY ChainsElsewhere, RowsOfFetching
     DEF Fetching, ReadRow, Sync, CloneStarts, CloneEnds, Fetch, FetchFails
<1>2. \A r \in Repos : swept[r] <= swept'[r] /\ tip[r] <= tip'[r] /\ KeepsChain(r)
  BY <1>1, AnswerTypes DEF KeepsChain
<1>3. CASE ReadRow /\ job.resume /\ pc' = "scope"
  <2>1. job'.resume
    BY <1>3, JobsRead
  <2> QED
    BY <1>1, <1>3, <2>1 DEF AnswerInv, RowAnswered, HuntAnswers, ChainAnswers, SweepDone, Concluded
<1>4. CASE Fetch
  <2>1. R' = R /\ job'.head = tip[R] /\ R \in Repos /\ pc' = "scope"
    BY <1>4, JobsFetched, AnswerTypes DEF Fetch, R
  <2> QED
    BY <1>1, <2>1, AnswerTypes
       DEF AnswerInv, RowAnswered, HuntAnswers, ChainAnswers, SweepDone, Concluded
<1>5. CASE pc' \notin Opened \cup Concluded
  BY <1>1, <1>2, <1>5, AnswerKept
<1> QED
  BY <1>3, <1>4, <1>5, JobsRead
     DEF Fetching, ReadRow, Sync, CloneStarts, CloneEnds, FetchFails, EndAttempt, Opened, Concluded

LEMMA AnswerOfOpening ==
  ASSUME TypeInv, TypeInv', AnswerInv, ShapeInv, Opening PROVE AnswerInv'
<1> USE DEF db, cycle, hands, past
<1>1. /\ wanted' = wanted /\ swept' = swept /\ tip' = tip /\ pc' \notin Concluded
      /\ pc \in Opened /\ R \in Repos
      /\ \A r \in Repos : repo'[r].requested = repo[r].requested
  <2>1. pc \in Opened /\ wanted' = wanted /\ swept' = swept /\ tip' = tip /\ pc' \notin Concluded
    BY DEF Opening, Skip, Scope, Granted, Denied, Create, Refused, Mark, Launch, TreeNotMade,
         EndCycle, EndAttempt, Concluded, Opened
  <2> QED
    BY <2>1, RowsOfOpening, AnswerTypes DEF Opened
<1>2. \A r \in Repos : swept[r] <= swept'[r] /\ tip[r] <= tip'[r]
  BY <1>1, AnswerTypes
<1>3. RowAnswered' /\ SweepDone'
  BY <1>1, AnswerTypes DEF AnswerInv, RowAnswered, SweepDone
<1>4. CASE Skip \/ Denied \/ Refused
  BY <1>1, <1>2, <1>4, AnswerKept DEF Skip, Denied, Refused, EndCycle, Opened, Concluded, KeepsChain
<1>5. CASE Scope
  <2>1. /\ chain' = chain /\ R' = R /\ pc' = "gate" /\ pc = "scope"
        /\ job'.resume = job.resume /\ job'.request = job.request /\ job'.head = job.head
    BY <1>5, JobsScoped DEF Scope, R
  <2>2. ~job.resume /\ job.request # 0 => job'.full
    BY <1>5, JobsScoped DEF RehuntDue
  <2>3. HuntAnswers'
    BY <1>1, <2>1, <2>2 DEF AnswerInv, HuntAnswers, Opened
  <2>4. ChainAnswers'
    BY <1>1, <2>1 DEF AnswerInv, ChainAnswers
  <2> QED
    BY <1>3, <2>3, <2>4 DEF AnswerInv
<1>6. CASE Granted
  <2>1. chain' = chain /\ job' = job /\ R' = R /\ pc = "gate" /\ pc' = "create"
    BY <1>6 DEF Granted, R
  <2> QED
    BY <1>1, <1>2, <2>1, AnswerKept DEF Opened, KeepsChain
<1>7. CASE Create \/ Mark
  <2>1. job' = job /\ R' = R /\ pc \in {"create", "mark"} /\ pc' \in {"mark", "tree"}
    BY <1>7 DEF Create, Mark, R
  <2>2. HuntAnswers'
    BY <1>1, <2>1 DEF AnswerInv, HuntAnswers, Opened
  <2>3. ChainAnswers'
    <3>1. CASE Create
      BY <1>1, <3>1, ChainsOfCreate DEF AnswerInv, ChainAnswers, KeepsChain
    <3>2. CASE Mark
      <4>1. chain'[R].pinned = 0
        BY <3>2, ChainsOfMark DEF Mark, ShapeInv, ColdInv
      <4> QED
        BY <1>1, <3>2, <4>1, ChainsOfMark DEF AnswerInv, ChainAnswers
    <3> QED
      BY <1>7, <3>1, <3>2
  <2> QED
    BY <1>3, <2>2, <2>3 DEF AnswerInv
<1>8. CASE Launch
  <2>1. job' = job /\ pc = "tree" /\ pc' = "work"
    BY <1>8 DEF Launch
  <2>2. HuntAnswers'
    BY <2>1 DEF HuntAnswers, Opened
  <2>3. ChainAnswers'
    <3>1. CASE job.resume
      BY <1>1, <1>8, <3>1, ChainsOfLaunch DEF AnswerInv, ChainAnswers, KeepsChain
    <3>2. CASE ~job.resume
      <4>1. /\ chain[R].full = job.full
            /\ chain[R].request = IF job.full THEN job.request ELSE 0
        BY <2>1, <3>2 DEF ShapeInv, ColdInv
      <4> QED
        BY <1>1, <1>8, <2>1, <3>2, <4>1, ChainsOfLaunch
           DEF AnswerInv, ChainAnswers, HuntAnswers, Opened
    <3> QED
      BY <3>1, <3>2
  <2> QED
    BY <1>3, <2>2, <2>3 DEF AnswerInv
<1>9. CASE TreeNotMade
  <2>1. pc' = "idle" /\ \A r \in Repos : chain'[r] = NoChain \/ KeepsChain(r)
    BY <1>1, <1>9 DEF TreeNotMade, EndAttempt, TypeInv, TypeOK, KeepsChain
  <2> QED
    BY <1>1, <1>2, <2>1, AnswerKept DEF Opened, Concluded
<1> QED
  BY <1>4, <1>5, <1>6, <1>7, <1>8, <1>9 DEF Opening

LEMMA AnswerOfWorking ==
  ASSUME TypeInv, TypeInv', AnswerInv, ShapeInv, Working PROVE AnswerInv'
<1> USE DEF past
<1>1. /\ R \in Repos /\ wanted' = wanted /\ tip' = tip
      /\ \A r \in Repos : /\ repo'[r].requested = repo[r].requested
                          /\ chain'[r] = NoChain \/ KeepsChain(r)
  <2>1. pc = "work" /\ wanted' = wanted /\ tip' = tip
    BY DEF Working, RunBreaks, WorkerPauses, WorkerFails, WorkerFinishes
  <2> QED
    BY <2>1, RowsOfWorking, ChainsOfWorking, AnswerTypes DEF Keeps, KeepsAsks, KeepsChain
<1>2. CASE WorkerFinishes
  <2>1. /\ R' = R /\ pc' = "water" /\ KeepsChain(R)
        /\ swept' = [swept EXCEPT ![R] = IF chain[R].told THEN Later(swept[R], chain[R].pinned)
                                         ELSE swept[R]]
    BY <1>1, <1>2, AnswerTypes DEF WorkerFinishes, R, KeepsChain, TypeInv, TypeOK, Chain
  <2>2. /\ \A r \in Repos : swept[r] <= swept'[r]
        /\ chain[R].told => chain[R].pinned <= swept'[R]
    <3>1. /\ \A r \in Repos \ {R} : swept'[r] = swept[r]
          /\ swept'[R] = IF chain[R].told THEN Later(swept[R], chain[R].pinned) ELSE swept[R]
      BY <1>1, <2>1 DEF TypeInv, TypeOK
    <3>2. Later(swept[R], chain[R].pinned) >= swept[R] /\ Later(swept[R], chain[R].pinned) >= chain[R].pinned
      BY <1>1, AnswerTypes DEF Later
    <3>3. \A r \in Repos : swept[r] <= swept[r]
      BY AnswerTypes
    <3> QED
      BY <1>1, <3>1, <3>2, <3>3, AnswerTypes DEF Later
  <2>3. \A r \in Repos : swept'[r] \in Nat
    BY DEF TypeInv, TypeOK, Shas
  <2>4. RowAnswered'
    BY <1>1, <2>2, <2>3, AnswerTypes DEF AnswerInv, RowAnswered
  <2>5. HuntAnswers'
    BY <2>1 DEF HuntAnswers, Opened
  <2>6. ChainAnswers'
    BY <1>1, AnswerTypes DEF AnswerInv, ChainAnswers, KeepsChain
  <2>7. SweepDone'
    BY <1>1, <2>1, <2>2 DEF SweepDone, KeepsChain
  <2> QED
    BY <2>4, <2>5, <2>6, <2>7 DEF AnswerInv
<1>3. CASE ~WorkerFinishes
  <2>1. swept' = swept /\ pc' = "idle"
    BY <1>3 DEF Working, RunBreaks, WorkerPauses, WorkerFails, EndCycle, EndAttempt
  <2> QED
    BY <1>1, <2>1, AnswerKept, AnswerTypes DEF Opened, Concluded
<1> QED
  BY <1>2, <1>3

LEMMA AnswerOfConcluding ==
  ASSUME TypeInv, TypeInv', AnswerInv, ShapeInv, Concluding PROVE AnswerInv'
<1> USE DEF past
<1>1. CASE SetLastHunt \/ SetLastFull
  <2>1. /\ chain' = chain /\ R' = R /\ wanted' = wanted /\ swept' = swept /\ tip' = tip
        /\ pc \in Concluded /\ pc' \in Concluded
        /\ \A r \in Repos : repo'[r].requested = repo[r].requested
    BY <1>1, RowsOfSetLastHunt, RowsOfSetLastFull
       DEF SetLastHunt, SetLastFull, R, Concluded, KeepsAsks
  <2> QED
    BY <2>1, AnswerTypes
       DEF AnswerInv, RowAnswered, HuntAnswers, ChainAnswers, SweepDone, Opened, Concluded
<1>2. CASE Settle
  <2>1. /\ pc = "settle" /\ pc' = "idle" /\ wanted' = wanted /\ swept' = swept /\ tip' = tip
        /\ R \in Repos
    BY <1>2, AnswerTypes DEF Settle, EndAttempt
  <2>2. \A r \in Repos : chain'[r] = NoChain \/ chain'[r] = chain[r]
    BY <1>2 DEF Settle, TypeInv, TypeOK
  <2>3. ASSUME Settles(repo[R]) PROVE wanted[R] <= swept[R]
    <3>1. repo[R].requested = chain[R].request /\ chain[R].pinned # 0
      BY <2>1, <2>3 DEF Settles, ShapeInv, StateInv, PinInv, Concluded
    <3>2. CASE chain[R].request = 0
      BY <2>1, <3>1, <3>2 DEF AnswerInv, RowAnswered
    <3>3. CASE chain[R].request # 0
      BY <2>1, <3>1, <3>3, AnswerTypes DEF AnswerInv, ChainAnswers, SweepDone, Concluded
    <3> QED
      BY <3>2, <3>3
  <2>4. RowAnswered'
    BY <1>2, <2>1, <2>3, RowsOfSettle DEF AnswerInv, RowAnswered
  <2>5. ChainAnswers'
    <3> SUFFICES ASSUME NEW r \in Repos, chain'[r] # NoChain
                 PROVE  /\ chain[r].request # 0 => chain[r].full
                        /\ chain[r].pinned # 0 =>
                             /\ chain[r].full <=> chain[r].told
                             /\ chain[r].request # 0 /\ chain[r].request = repo'[r].requested =>
                                  wanted[r] <= chain[r].pinned
      BY <2>1, <2>2, AnswerTypes DEF ChainAnswers
    <3>1. r # R
      BY <1>2 DEF Settle, TypeInv, TypeOK
    <3> QED
      BY <1>2, <3>1, RowsOfSettle DEF AnswerInv, ChainAnswers
  <2> QED
    BY <2>1, <2>4, <2>5 DEF AnswerInv, HuntAnswers, SweepDone, Opened, Concluded
<1> QED
  BY <1>1, <1>2 DEF Concluding

LEMMA AnswerOfAsk ==
  ASSUME TypeInv, TypeInv', AnswerInv, AskInv, NEW q \in Repos, Ask(q) PROVE AnswerInv'
<1>1. /\ chain' = chain /\ pc' = pc /\ R' = R /\ swept' = swept /\ tip' = tip /\ KeepsJob
      /\ wanted'[q] = tip[q] /\ \A r \in Repos \ {q} : wanted'[r] = wanted[r]
  BY JobsAsked DEF Ask, KeepsJob, R, TypeInv, TypeOK
<1>2. /\ \A r \in Repos \ {q} : repo'[r].requested = repo[r].requested
      /\ repo'[q].requested \in Nat /\ repo'[q].requested > repo[q].requested
  BY RowsOfAsk DEF Keeps, KeepsAsks
<1>3. /\ repo'[q].requested # 0 /\ repo'[q].requested # chain[q].request
      /\ R = q => repo'[q].requested # job.request
  BY <1>2, AskTypes DEF AskInv
<1>4. RowAnswered'
  BY <1>1, <1>2, <1>3, AnswerTypes DEF AnswerInv, RowAnswered
<1>5. HuntAnswers'
  <2>1. pc \in Opened => R \in Repos
    BY AnswerTypes DEF Opened
  <2> QED
    BY <1>1, <1>2, <1>3, <2>1 DEF AnswerInv, HuntAnswers, KeepsJob
<1>6. ChainAnswers' /\ SweepDone'
  BY <1>1, <1>2, <1>3 DEF AnswerInv, ChainAnswers, SweepDone
<1> QED
  BY <1>4, <1>5, <1>6 DEF AnswerInv

LEMMA AnswerStep ==
  ASSUME TypeInv, TypeInv', AnswerInv, ShapeInv, AskInv, [Next]_vars PROVE AnswerInv'
<1> USE DEF db, cycle, hands, past
<1>0. \A r \in Repos : swept[r] <= swept[r] /\ tip[r] <= tip[r] /\ tip[r] <= tip[r] + 1
  BY AnswerTypes
<1>1. CASE UNCHANGED vars
  BY <1>0, <1>1, AnswerKept DEF vars, R, KeepsJob, KeepsChain
<1>2. CASE Reaping
  <2>1. /\ wanted' = wanted /\ swept' = swept /\ tip' = tip /\ chain' = chain
        /\ pc' = pc /\ job' = job
    BY <1>2 DEF Reaping, Reaped, ReapFlagged, RemoveDir, RemoveNotes, RemovalFails, DropRow
  <2> QED
    BY <1>0, <1>2, <2>1, AnswerKept, RowsOfReaping DEF KeepsAsks, KeepsJob, KeepsChain, R
<1>3. CASE Selecting
  <2>1. wanted' = wanted /\ swept' = swept /\ tip' = tip /\ pc' \notin Opened \cup Concluded
    BY <1>3 DEF Selecting, StartCycle, PickOther, GiveUp, Resume, Pick, Reconciled, Opened, Concluded
  <2> QED
    BY <1>0, <1>3, <2>1, AnswerKept, RowsOfSelecting, ChainsOfSelecting DEF Keeps, KeepsAsks
<1>4. CASE Operator
  <2>1. CASE \A q \in Repos : ~Ask(q)
    <3>1. /\ wanted' = wanted /\ swept' = swept /\ tip' = tip /\ chain' = chain
          /\ pc' = pc /\ job' = job
      BY <1>4, <2>1 DEF Operator, Toggle, SoftDelete, ReapNow, NoteFor, AppendNote
    <3> QED
      BY <1>0, <1>4, <2>1, <3>1, AnswerKept, RowsOfOperator DEF KeepsAsks, KeepsJob, KeepsChain, R
  <2> QED
    BY <2>1, AnswerOfAsk
<1>5. CASE Elsewhere
  <2>1. /\ wanted' = wanted /\ swept' = swept /\ chain' = chain
        /\ (job' = job /\ pc' = pc) \/ (job' = NoJob /\ pc' = "idle")
    BY <1>5 DEF Elsewhere, Push, ScanFallsDue, FullFallsDue, Crash
  <2>2. \A r \in Repos : tip[r] <= tip'[r]
    <3>1. ASSUME NEW q \in Repos, Push(q) PROVE \A r \in Repos : tip[r] <= tip'[r]
      BY <1>0, <3>1 DEF Push, TypeInv, TypeOK
    <3> QED
      BY <1>0, <1>5, <3>1 DEF Elsewhere, ScanFallsDue, FullFallsDue, Crash
  <2> QED
    BY <1>0, <1>5, <2>1, <2>2, AnswerKept, RowsOfElsewhere
       DEF KeepsAsks, KeepsJob, KeepsChain, R, Opened, Concluded
<1> QED
  BY <1>1, <1>2, <1>3, <1>4, <1>5, AnswerOfFetching, AnswerOfOpening, AnswerOfWorking,
     AnswerOfConcluding DEF Next, Daemon

-----------------------------------------------------------------------------
(* Scope: whether a hunt is full shows in the watermark, which is NULL while  *)
(* its chain lasts, and a chain under way has a scope its prompt agrees with. *)

Alive == {"created", "working", "suspended"}

MarkInv ==
  /\ \A r \in Repos : repo[r].mark = 0 /\ repo[r].fullAt = "waits" => repo[r].requested # 0
  /\ pc \in {"sync", "clone", "cloning", "fetch", "scope"} /\ ~job.resume /\ job.last = 0
       /\ repo[R].fullAt = "waits" => job.request # 0
  /\ pc \in (Pre \cup Created) \ {"read", "full", "settle"} => repo[R].mark = job.last
  /\ pc \in {"full", "settle"} => repo[R].mark # 0

FullInv ==
  /\ pc \in {"gate", "create", "mark", "tree"} /\ ~job.resume =>
       IF job.full THEN job.last = 0 ELSE job.last # 0 \/ repo[R].fullAt = "never"
  /\ \/ pc \in {"work", "water", "full"}
     \/ pc \in {"gate", "create", "tree"} /\ job.resume
     => repo[R].fullAt = "never" \/ (job.full <=> chain[R].told)

ToldInv ==
  \A r \in Repos : chain[r].state \in Alive /\ chain[r].pinned # 0 =>
    IF chain[r].told THEN repo[r].mark = 0 ELSE repo[r].mark # 0 \/ repo[r].fullAt = "never"

ScopeInv == MarkInv /\ FullInv /\ ToldInv

LEMMA ScopeKept ==
  ASSUME TypeInv, ScopeInv,
         \A r \in Repos : /\ KeepsMark(r)
                          /\ repo[r].requested # 0 => repo'[r].requested # 0
                          /\ KeepsFull(r) \/ (repo[r].fullAt = "waits" /\ repo'[r].fullAt = "due")
                          /\ chain'[r].state \in Alive /\ chain'[r].pinned # 0 =>
                               /\ chain[r].state \in Alive /\ chain'[r].pinned = chain[r].pinned
                               /\ chain'[r].told = chain[r].told,
         \/ pc' \in {"idle", "reap", "read"}
         \/ pc' = pc /\ KeepsJob /\ chain'[R].told = chain[R].told
  PROVE  ScopeInv'
<1>1. pc \notin {"idle", "reap"} => R \in Repos
  BY ReviewTypes
<1>2. R' = R \/ pc' \in {"idle", "reap", "read"}
  BY DEF KeepsJob, R
<1>3. MarkInv'
  <2>1. \A r \in Repos : repo'[r].mark = 0 /\ repo'[r].fullAt = "waits" => repo'[r].requested # 0
    BY DEF ScopeInv, MarkInv, KeepsMark, KeepsFull
  <2>2. CASE pc' \in {"idle", "reap", "read"}
    BY <2>1, <2>2 DEF MarkInv, Pre, Created
  <2>3. CASE pc' = pc /\ R' = R /\ KeepsJob /\ pc \notin {"idle", "reap"}
    BY <1>1, <2>1, <2>3 DEF ScopeInv, MarkInv, KeepsMark, KeepsFull, KeepsJob
  <2> QED
    BY <1>2, <2>2, <2>3
<1>4. FullInv'
  BY <1>1, <1>2 DEF ScopeInv, FullInv, KeepsFull, KeepsJob
<1>5. ToldInv'
  BY DEF ScopeInv, ToldInv, KeepsMark, KeepsFull
<1> QED
  BY <1>3, <1>4, <1>5 DEF ScopeInv

LEMMA ScopeOfSelecting ==
  ASSUME TypeInv, ScopeInv, Selecting PROVE ScopeInv'
<1>1. pc' \in {"idle", "reap", "read"}
  BY DEF Selecting, StartCycle, PickOther, GiveUp, Resume, Pick, Reconciled, cycle
<1>2. \A r \in Repos : chain'[r].state \in Alive /\ chain'[r].pinned # 0 =>
                               /\ chain[r].state \in Alive /\ chain'[r].pinned = chain[r].pinned
                               /\ chain'[r].told = chain[r].told
  BY ChainsOfSelecting DEF Alive, KeepsChain, NoChain
<1> QED
  BY <1>1, <1>2, ScopeKept, RowsOfSelecting DEF Keeps, KeepsAsks

LEMMA ScopeOfFetching ==
  ASSUME TypeInv, ScopeInv, Fetching PROVE ScopeInv'
<1> USE DEF db, cycle, hands, past
<1>1. /\ chain' = chain
      /\ \A r \in Repos : KeepsMark(r) /\ KeepsFull(r) /\ repo'[r].requested = repo[r].requested
  BY ChainsElsewhere, RowsOfFetching
<1>2. CASE pc' = "idle"
  BY <1>1, <1>2, ScopeKept
<1>3. CASE pc' # "idle"
  <2>1. /\ R' = R /\ R \in Repos /\ job'.resume = job.resume
        /\ IF ReadRow THEN job'.last = repo[R].mark /\ job'.request = repo[R].requested
           ELSE job'.last = job.last /\ job'.request = job.request
        /\ IF ReadRow THEN pc = "read" ELSE pc \in {"sync", "clone", "cloning", "fetch"}
        /\ pc' \in {"sync", "clone", "cloning", "fetch", "scope"}
    <3>1. CASE ReadRow
      BY <1>3, <3>1, JobsRead, ReviewTypes DEF ReadRow, R
    <3>2. CASE Fetch
      BY <3>2, JobsFetched, ReviewTypes DEF Fetch, ReadRow, R
    <3>3. CASE Sync \/ CloneStarts \/ CloneEnds
      BY <3>3, ReviewTypes DEF Sync, CloneStarts, CloneEnds, ReadRow, R
    <3> QED
      BY <1>3, <3>1, <3>2, <3>3 DEF Fetching, FetchFails, EndAttempt
  <2>2. MarkInv'
    BY <1>1, <2>1 DEF ScopeInv, MarkInv, Pre, Created, KeepsMark, KeepsFull
  <2>3. FullInv'
    BY <2>1 DEF FullInv
  <2>4. ToldInv'
    BY <1>1 DEF ScopeInv, ToldInv, KeepsMark, KeepsFull
  <2> QED
    BY <2>2, <2>3, <2>4 DEF ScopeInv
<1> QED
  BY <1>2, <1>3

(* Scope decides: a resumed hunt is full if its chain was told so, and a cold *)
(* one that is not full has a watermark or is the repo's first.               *)
LEMMA ScopeOfScope ==
  ASSUME TypeInv, ScopeInv, ShapeInv, AnswerInv, AskInv, Scope PROVE ScopeInv'
<1>1. /\ R \in Repos /\ R' = R /\ chain' = chain /\ pc = "scope" /\ pc' = "gate"
      /\ \A r \in Repos : /\ KeepsFull(r) /\ repo'[r].requested = repo[r].requested
                          /\ repo'[r].mark = IF r = R /\ RehuntDue THEN 0 ELSE repo[r].mark
  <2>1. pc = "scope" /\ pc' = "gate" /\ chain' = chain
    BY DEF Scope
  <2>2. ~Skip
    BY <2>1 DEF Skip, EndCycle
  <2> QED
    BY <2>1, <2>2, RowsOfOpening, ReviewTypes, JobsScoped DEF Opening, R
<1>2. /\ job'.resume = job.resume /\ job'.last = IF RehuntDue THEN 0 ELSE job.last
      /\ job'.full \in BOOLEAN /\ (job'.last # 0 => ~job'.full)
      /\ job'.last = 0 /\ (RehuntDue \/ ResumedFull) => job'.full
  BY JobsScoped
<1>3. repo[R].mark = job.last
  BY <1>1 DEF ScopeInv, MarkInv, Pre, Created
<1>4. RehuntDue => ~job.resume /\ (repo[R].requested # 0 \/ repo[R].fullAt = "due")
  BY <1>1, AskTypes, Constants DEF RehuntDue, AskInv
<1>5. MarkInv'
  <2>1. \A r \in Repos : repo'[r].mark = 0 /\ repo'[r].fullAt = "waits" => repo'[r].requested # 0
    BY <1>1, <1>4 DEF ScopeInv, MarkInv, KeepsFull
  <2> QED
    BY <1>1, <1>2, <1>3, <2>1 DEF MarkInv
<1>6. CASE job.resume
  <2>1. chain[R].state = "suspended" /\ chain[R].pinned # 0 /\ ~RehuntDue
    BY <1>1, <1>4, <1>6 DEF ShapeInv, StateInv, PinInv, Pre
  <2>2. chain[R].told => ResumedFull
    BY <1>1, <1>6, <2>1 DEF AnswerInv, ChainAnswers, ResumedFull
  <2>3. IF chain[R].told THEN job.last = 0 ELSE job.last # 0 \/ repo[R].fullAt = "never"
    BY <1>1, <1>3, <2>1 DEF ScopeInv, ToldInv, Alive
  <2>4. FullInv'
    BY <1>1, <1>2, <1>6, <2>1, <2>2, <2>3, AnswerTypes DEF FullInv, KeepsFull
  <2>5. ToldInv'
    BY <1>1, <2>1 DEF ScopeInv, ToldInv, KeepsFull
  <2> QED
    BY <1>5, <2>4, <2>5 DEF ScopeInv
<1>7. CASE ~job.resume
  <2>1. chain[R].state = "none"
    BY <1>1, <1>7 DEF ShapeInv, StateInv, Pre
  <2>2. ~RehuntDue /\ job.last = 0 => repo[R].fullAt = "never"
    <3>1. repo[R].fullAt \in {"never", "waits", "due"}
      BY <1>1 DEF TypeInv, TypeOK, Row
    <3> QED
      BY <1>1, <1>7, <3>1 DEF RehuntDue, ScopeInv, MarkInv
  <2>3. FullInv'
    BY <1>1, <1>2, <1>7, <2>2 DEF FullInv, KeepsFull
  <2>4. ToldInv'
    BY <1>1, <2>1 DEF ScopeInv, ToldInv, KeepsFull, Alive
  <2> QED
    BY <1>5, <2>3, <2>4 DEF ScopeInv
<1> QED
  BY <1>6, <1>7

LEMMA ScopeOfOpening ==
  ASSUME TypeInv, ScopeInv, ShapeInv, AnswerInv, AskInv, Opening PROVE ScopeInv'
<1> USE DEF db, cycle, hands, past
<1>1. /\ R \in Repos
      /\ \A r \in Repos : KeepsFull(r) /\ repo'[r].requested = repo[r].requested
      /\ \A r \in Repos \ {R} : KeepsMark(r)
  <2>1. pc \in Opened
    BY DEF Opening, Skip, Scope, Granted, Denied, Create, Refused, Mark, Launch, TreeNotMade,
         Opened
  <2> QED
    BY <2>1, RowsOfOpening, ReviewTypes DEF Opened, KeepsMark
<1>2. CASE Skip
  <2>1. pc' = "idle" /\ chain' = chain /\ pc = "scope" /\ ~job.resume /\ job.last = job.head
    BY <1>2 DEF Skip, EndCycle
  <2>2. chain[R].state = "none" /\ repo[R].mark = job.last
    BY <2>1 DEF ShapeInv, StateInv, Pre, ScopeInv, MarkInv, Created
  <2>3. \A r \in Repos : KeepsMark(r)
    BY <1>1, <1>2, <2>1, <2>2, RowsOfOpening DEF KeepsMark
  <2> QED
    BY <1>1, <2>1, <2>3, ScopeKept
<1>3. CASE ~Skip /\ ~Scope
  <2>1. \A r \in Repos : KeepsMark(r)
    BY <1>3, RowsOfOpening DEF KeepsMark
  <2>2. CASE Denied \/ Refused
    BY <1>1, <2>1, <2>2, ScopeKept DEF Denied, Refused, EndCycle
  <2>3. CASE TreeNotMade
    <3>1. /\ pc' = "idle" /\ \A r \in Repos : chain'[r] = chain[r] \/ chain'[r] = NoChain
      BY <2>3 DEF TreeNotMade, EndAttempt, TypeInv, TypeOK
    <3> QED
      BY <1>1, <2>1, <3>1, ShapeTypes, ScopeKept DEF Alive
  <2>4. CASE Granted \/ Create \/ Mark \/ Launch
    <3>1. /\ R' = R /\ job' = job
          /\ \/ Granted /\ pc = "gate" /\ pc' = "create" /\ chain' = chain
             \/ Create /\ pc = "create" /\ pc' = IF job.resume THEN "tree" ELSE "mark"
             \/ Mark /\ pc = "mark" /\ pc' = "tree" /\ ~job.resume
             \/ Launch /\ pc = "tree" /\ pc' = "work"
      BY <2>4 DEF Granted, Create, Mark, Launch, R, ShapeInv, ColdInv
    <3>2. MarkInv'
      BY <1>1, <2>1, <3>1 DEF ScopeInv, MarkInv, KeepsMark, KeepsFull, Pre, Created
    <3>3. /\ job.resume \/ Granted => chain'[R].told = chain[R].told
          /\ Launch /\ ~job.resume => chain'[R].told = job.full
      BY <3>1, ChainsOfCreate, ChainsOfLaunch DEF KeepsChain, Mark, Granted, Create, Launch
    <3>4. FullInv'
      BY <1>1, <3>1, <3>3, AnswerTypes DEF ScopeInv, FullInv, KeepsFull
    <3>5. ToldInv'
      <4>1. \A r \in Repos \ {R} : chain'[r] = chain[r]
        BY <3>1, ChainsOfCreate, ChainsOfMark, ChainsOfLaunch
      <4>2. CASE Granted
        BY <1>1, <2>1, <3>1, <4>1, <4>2 DEF Granted, ScopeInv, ToldInv, KeepsMark, KeepsFull
      <4>3. CASE Create
        <5>1. CASE job.resume
          <6>1. chain[R].state = "suspended" /\ KeepsChain(R)
            BY <4>3, <5>1, ChainsOfCreate DEF Create, ShapeInv, StateInv, Pre
          <6> QED
            BY <1>1, <2>1, <4>1, <6>1 DEF ScopeInv, ToldInv, KeepsMark, KeepsFull, KeepsChain, Alive
        <5>2. CASE ~job.resume
          BY <1>1, <2>1, <4>1, <4>3, <5>2, ChainsOfCreate DEF ScopeInv, ToldInv, KeepsMark, KeepsFull
        <5> QED
          BY <5>1, <5>2
      <4>4. CASE Mark
        <5>1. chain'[R].pinned = 0
          BY <4>4, ChainsOfMark DEF Mark, ShapeInv, ColdInv
        <5> QED
          BY <1>1, <2>1, <4>1, <5>1 DEF ScopeInv, ToldInv, KeepsMark, KeepsFull
      <4>5. CASE Launch
        <5>1. CASE job.resume
          <6>1. chain[R].state = "created" /\ KeepsChain(R)
            BY <4>5, <5>1, ChainsOfLaunch DEF Launch, ShapeInv, StateInv
          <6> QED
            BY <1>1, <2>1, <4>1, <6>1 DEF ScopeInv, ToldInv, KeepsMark, KeepsFull, KeepsChain, Alive
        <5>2. CASE ~job.resume
          <6>1. pc = "tree"
            BY <4>5 DEF Launch
          <6>2. /\ IF job.full THEN job.last = 0 ELSE job.last # 0 \/ repo[R].fullAt = "never"
                /\ repo[R].mark = job.last
            BY <5>2, <6>1 DEF ScopeInv, FullInv, MarkInv, Created
          <6> QED
            BY <1>1, <2>1, <3>3, <4>1, <4>5, <5>2, <6>2
               DEF ScopeInv, ToldInv, KeepsMark, KeepsFull
        <5> QED
          BY <5>1, <5>2
      <4> QED
        BY <2>4, <4>2, <4>3, <4>4, <4>5
    <3> QED
      BY <3>2, <3>4, <3>5 DEF ScopeInv
  <2> QED
    BY <1>3, <2>2, <2>3, <2>4 DEF Opening
<1> QED
  BY <1>2, <1>3, ScopeOfScope

LEMMA ScopeOfWorking ==
  ASSUME TypeInv, ScopeInv, ShapeInv, Working PROVE ScopeInv'
<1>1. /\ R \in Repos /\ pc = "work" /\ \A r \in Repos : Keeps(r)
      /\ pc' = IF WorkerFinishes THEN "water" ELSE "idle"
      /\ WorkerFinishes => job' = job /\ R' = R /\ pc = "work"
  BY RowsOfWorking, ReviewTypes
     DEF Working, RunBreaks, WorkerPauses, WorkerFails, WorkerFinishes, EndCycle, EndAttempt, R
<1>2. chain[R].state = "working"
  BY <1>1 DEF ShapeInv, StateInv
<1>3. \A r \in Repos : chain'[r].state \in Alive /\ chain'[r].pinned # 0 =>
                         /\ chain[r].state \in Alive /\ chain'[r].pinned = chain[r].pinned
                         /\ chain'[r].told = chain[r].told
  BY <1>1, <1>2, ChainsOfWorking, ShapeTypes DEF KeepsChain, Alive
<1>4. CASE WorkerFinishes
  <2>1. chain'[R].told = chain[R].told
    BY <1>1, <1>4, ChainsOfWorking DEF KeepsChain
  <2>2. MarkInv'
    BY <1>1, <1>4 DEF ScopeInv, MarkInv, Keeps, KeepsMark, KeepsFull, KeepsAsks, Pre, Created
  <2>3. FullInv'
    BY <1>1, <1>4, <2>1 DEF ScopeInv, FullInv, Keeps, KeepsFull
  <2>4. ToldInv'
    BY <1>1, <1>3 DEF ScopeInv, ToldInv, Keeps, KeepsMark, KeepsFull
  <2> QED
    BY <2>2, <2>3, <2>4 DEF ScopeInv
<1>5. CASE ~WorkerFinishes
  BY <1>1, <1>3, <1>5, ScopeKept DEF Keeps, KeepsAsks
<1> QED
  BY <1>4, <1>5

LEMMA ScopeOfConcluding ==
  ASSUME TypeInv, ScopeInv, ShapeInv, Concluding PROVE ScopeInv'
<1> USE DEF past, Alive
<1>1. R \in Repos /\ pc \in Concluded /\ chain[R].state = "done" /\ chain[R].pinned # 0
  BY ReviewTypes
     DEF Concluding, SetLastHunt, SetLastFull, Settle, Concluded, ShapeInv, StateInv, PinInv
<1>2. CASE SetLastHunt
  <2>1. /\ chain' = chain /\ job' = job /\ R' = R /\ pc = "water" /\ pc' = "full"
        /\ \A r \in Repos : /\ KeepsFull(r) /\ repo'[r].requested = repo[r].requested
                            /\ repo'[r].mark = IF r = R THEN chain[R].pinned ELSE repo[r].mark
    BY <1>2, RowsOfSetLastHunt DEF SetLastHunt, R, KeepsAsks
  <2>2. MarkInv'
    BY <1>1, <2>1 DEF ScopeInv, MarkInv, KeepsFull
  <2>3. FullInv'
    BY <1>1, <2>1 DEF ScopeInv, FullInv, KeepsFull
  <2>4. ToldInv'
    BY <1>1, <2>1 DEF ScopeInv, ToldInv, KeepsFull
  <2> QED
    BY <2>2, <2>3, <2>4 DEF ScopeInv
<1>3. CASE SetLastFull
  <2>1. /\ chain' = chain /\ job' = job /\ R' = R /\ pc = "full" /\ pc' = "settle"
        /\ \A r \in Repos : /\ KeepsMark(r) /\ repo'[r].requested = repo[r].requested
                            /\ r # R => repo'[r].fullAt = repo[r].fullAt
    BY <1>3, RowsOfSetLastFull DEF SetLastFull, R, KeepsAsks
  <2>2. MarkInv'
    BY <1>1, <2>1 DEF ScopeInv, MarkInv, KeepsMark
  <2>3. FullInv'
    BY <2>1 DEF FullInv
  <2>4. ToldInv'
    BY <1>1, <2>1 DEF ScopeInv, ToldInv, KeepsMark
  <2> QED
    BY <2>2, <2>3, <2>4 DEF ScopeInv
<1>4. CASE Settle
  <2>1. /\ pc' = "idle" /\ pc = "settle" /\ repo[R].mark # 0
        /\ \A r \in Repos : /\ KeepsMark(r) /\ KeepsFull(r)
                            /\ r # R => repo'[r].requested = repo[r].requested
    BY <1>4, RowsOfSettle DEF Settle, EndAttempt, ScopeInv, MarkInv
  <2>2. \A r \in Repos : chain'[r] = chain[r] \/ chain'[r] = NoChain
    BY <1>4 DEF Settle, TypeInv, TypeOK
  <2>3. MarkInv'
    BY <1>1, <2>1 DEF ScopeInv, MarkInv, KeepsMark, KeepsFull, Pre, Created
  <2>4. ToldInv'
    BY <2>1, <2>2, ShapeTypes DEF ScopeInv, ToldInv, KeepsMark, KeepsFull
  <2> QED
    BY <2>1, <2>3, <2>4 DEF ScopeInv, FullInv
<1> QED
  BY <1>2, <1>3, <1>4 DEF Concluding

LEMMA ScopeStep ==
  ASSUME TypeInv, ScopeInv, ShapeInv, AnswerInv, AskInv, [Next]_vars PROVE ScopeInv'
<1> USE DEF db, cycle, hands, past
<1>1. CASE UNCHANGED vars
  BY <1>1, ScopeKept DEF vars, KeepsMark, KeepsFull, KeepsJob
<1>2. CASE Reaping
  <2>1. pc' = pc /\ job' = job /\ chain' = chain
    BY <1>2 DEF Reaping, Reaped, ReapFlagged, RemoveDir, RemoveNotes, RemovalFails, DropRow
  <2> QED
    BY <1>2, <2>1, ScopeKept, RowsOfReaping DEF KeepsAsks, KeepsJob
<1>3. CASE Operator
  <2>1. chain' = chain /\ pc' = pc /\ KeepsJob
    <3>1. ASSUME NEW q \in Repos, Ask(q) PROVE pc' = pc /\ KeepsJob
      BY <3>1, JobsAsked DEF Ask
    <3> QED
      BY <1>3, <3>1, ChainsElsewhere
         DEF Operator, Toggle, SoftDelete, ReapNow, NoteFor, AppendNote, KeepsJob
  <2>2. \A r \in Repos : KeepsMark(r) /\ KeepsFull(r) /\ (repo[r].requested # 0 => repo'[r].requested # 0)
    BY <1>3, RowsOfAsk, RowsOfOperator, AskTypes DEF KeepsAsks
  <2> QED
    BY <2>1, <2>2, ScopeKept
<1>4. CASE Elsewhere
  <2>1. chain' = chain /\ ((job' = job /\ pc' = pc) \/ pc' = "idle")
    BY <1>4 DEF Elsewhere, Push, ScanFallsDue, FullFallsDue, Crash
  <2> QED
    BY <1>4, <2>1, ScopeKept, RowsOfElsewhere DEF KeepsAsks, KeepsJob
<1> QED
  BY <1>1, <1>2, <1>3, <1>4, ScopeOfSelecting, ScopeOfFetching, ScopeOfOpening, ScopeOfWorking,
     ScopeOfConcluding DEF Next, Daemon

-----------------------------------------------------------------------------
(* The invariants together, and what they are for *)

Inv == TypeInv /\ LifeInv /\ LockInv /\ AskInv /\ ReviewInv /\ ShapeInv /\ AnswerInv /\ ScopeInv

LEMMA InvInit ==
  ASSUME Init PROVE Inv
<1>1. TypeInv
  BY TypeInit
<1>2. /\ NoChain.state = "none" /\ NoChain.pinned = 0 /\ NoChain.request = 0 /\ NoChain.from = 0
      /\ NoJob.repo = NoRepo /\ NoRepo \notin Repos /\ NoJob.last = 0 /\ NoJob.request = 0
      /\ 1..0 = {} /\ R = NoRepo /\ pc = "idle"
  BY <1>1, Constants, ShapeTypes, AnswerTypes, ReviewTypes DEF Init, R
<1>3. \A r \in Repos : /\ repo[r].status = "live" /\ ~repo[r].jobs /\ repo[r].mark = 0
                       /\ repo[r].requested = 0 /\ repo[r].fullAt = "never"
                       /\ chain[r] = NoChain /\ ~fresh[r] /\ wanted[r] = 0 /\ swept[r] = 0
                       /\ tip[r] = 1 /\ ~disk[r].note
  BY DEF Init
<1>4. LifeInv /\ LockInv
  BY <1>2, <1>3 DEF Init, LifeInv, LockInv, Live, Off, Created
<1>5. AskInv /\ ReviewInv
  BY <1>2, <1>3 DEF AskInv, ReviewInv, Concluded
<1>6. ShapeInv
  BY <1>2, <1>3 DEF ShapeInv, StateInv, PinInv, ColdInv, Pre, Opened, Concluded
<1>7. AnswerInv
  BY <1>2, <1>3 DEF AnswerInv, RowAnswered, HuntAnswers, ChainAnswers, SweepDone, Opened, Concluded
<1>8. ScopeInv
  BY <1>2, <1>3 DEF ScopeInv, MarkInv, FullInv, ToldInv, Pre, Created, Alive
<1> QED
  BY <1>1, <1>4, <1>5, <1>6, <1>7, <1>8 DEF Inv

LEMMA InvStep ==
  ASSUME Inv, [Next]_vars PROVE Inv'
BY TypeStep, LifeStep, LockStep, AskStep, ReviewStep, ShapeStep, AnswerStep, ScopeStep DEF Inv

LEMMA InvHolds == Spec => []Inv
BY InvInit, InvStep, PTL DEF Spec

(* Every hunt's watermark is covered, at any number of pauses, failures and   *)
(* deaths of the daemon (run_hunt, set_last_hunt): no commit is skipped.      *)
THEOREM WatermarkIsReviewed == Spec => []ReviewedToMark
<1>1. Inv => ReviewedToMark
  BY DEF Inv, ReviewInv, ReviewedToMark
<1> QED
  BY <1>1, InvHolds, PTL

(* A full re-hunt is never settled by a hunt that has not reviewed what there *)
(* was when the operator asked last (mark_full_history,                       *)
(* settle_full_hunt_request).                                                 *)
THEOREM RequestAnswered == Spec => []RequestIsAnswered
<1>1. Inv => RequestIsAnswered
  BY DEF Inv, AnswerInv, RowAnswered, RequestIsAnswered
<1> QED
  BY <1>1, InvHolds, PTL

(* A request no hunt has read is urgent, whatever the clock said when it was  *)
(* made and whichever hunt was running (request_full_hunt).                   *)
THEOREM RequestUrgent == Spec => []NewRequestIsUrgent
<1>1. Inv => NewRequestIsUrgent
  BY DEF Inv, AskInv, NewRequestIsUrgent
<1> QED
  BY <1>1, InvHolds, PTL

(* The attempt that concludes a chain takes it for what its first prompt said *)
(* it was, however often it was resumed in between (run_hunt, resumed_full).  *)
THEOREM ScopeSurvives == Spec => []ScopeSurvivesResume
<1>1. Inv => ScopeSurvivesResume
  BY DEF Inv, ScopeInv, FullInv, ScopeSurvivesResume
<1> QED
  BY <1>1, InvHolds, PTL

(* A repo that is deleted has no job and gets none, although a cycle may have *)
(* picked it (soft_delete_repo, create_job).                                  *)
THEOREM NoJobOfDeleted == Spec => []DeletedHasNoJobs
<1>1. Inv => DeletedHasNoJobs
  BY DEF Inv, LifeInv, DeletedHasNoJobs
<1> QED
  BY <1>1, InvHolds, PTL

(* The lock that reap_repo and add_repo_note share keeps notes from outliving *)
(* their row.                                                                 *)
THEOREM NotesGoFirst == Spec => []NoNotesWithoutRow
<1>1. Inv => NoNotesWithoutRow
  BY DEF Inv, LockInv, NoNotesWithoutRow
<1> QED
  BY <1>1, InvHolds, PTL
=============================================================================
