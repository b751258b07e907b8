------------------------- MODULE PRLifecycleProofs -------------------------
(***************************************************************************)
(* Theorems about PRLifecycle for every set of findings and every value of *)
(* the ceilings and bounds.                                                *)
(*                                                                         *)
(* The chain of argument: TypeInv is inductive on its own.  WhereInv says  *)
(* what a finding's status is while the loop works on it; KnownInv which   *)
(* PRs the forge has numbered; LeaseInv what a worker's tree holds of the  *)
(* reviewers' commits; NumberInv the order of the PR numbers of the row,   *)
(* the forge and the reviews.  Each is inductive given those before it.    *)
(***************************************************************************)
EXTENDS PRLifecycle, TLAPS

(* Only these steps work on no finding. *)
Locals == pc \notin {"sweep", "sync", "select"} => run.f \in Findings

TypeInv == TypeOK /\ Locals

-----------------------------------------------------------------------------
(* The rows the writes make, by type *)

LEMMA NoRowIsRow == NoRow \in Row /\ NoPR \in PR /\ NoPause \in Pause /\ NoRun \in Run
BY PRLifecycleAssumption
   DEF NoRow, Row, NoPR, PR, NoPause, Pause, NoRun, Run, Stamps, Heads

LEMMA RenumberedRow ==
  ASSUME NEW r \in Row, NEW n \in 0..MaxPRs
  PROVE  Renumbered(r, n) \in Row
BY DEF Renumbered, Row

LEMMA EndedRow ==
  ASSUME NEW r \in Row, NEW n \in 0..MaxPRs, NEW s \in {"CLOSED", "MERGED"}
  PROVE  Ended(r, n, s) \in Row
<1>1. Renumbered(r, n) \in Row
  BY RenumberedRow
<1> QED
  BY <1>1 DEF Ended, Row

LEMMA SyncedRow ==
  ASSUME NEW r \in Row, NEW p \in PR
  PROVE  Synced(r, p) \in Row
<1> DEFINE engaged == IF r.based THEN r.engaged ELSE p.clock
           clear   == r.addrBad /\ ~Suppressed(r, p)
           flag    == p.latest > engaged \/ (p.bad /\ ~Suppressed(r, p))
           base    == Renumbered(r, p.num)
<1>1. p.num \in 0..MaxPRs /\ p.head \in Heads /\ p.latest \in Stamps
        /\ p.bad \in BOOLEAN /\ p.clock \in Stamps
  BY DEF PR
<1>2. base \in Row
  BY <1>1, RenumberedRow
<1>3. engaged \in Stamps
  BY <1>1 DEF Row
<1>4. clear \in BOOLEAN /\ flag \in BOOLEAN
  OBVIOUS
<1>5. 0 \in Heads
  BY PRLifecycleAssumption DEF Heads
<1>6. Synced(r, p) = [base EXCEPT
        !.state = "OPEN", !.head = p.head, !.latest = p.latest,
        !.based = TRUE, !.engaged = engaged, !.bad = p.bad,
        !.flagged = flag,
        !.addrBad = IF clear THEN FALSE ELSE @,
        !.addrHead = IF clear THEN 0 ELSE @]
  BY DEF Synced
<1> HIDE DEF engaged, clear, flag, base
<1> QED
  BY <1>1, <1>2, <1>3, <1>4, <1>5, <1>6 DEF Row

LEMMA MarkedRow ==
  ASSUME NEW r \in Row, NEW s \in Stamps, NEW b \in BOOLEAN, NEW h \in Heads
  PROVE  MarkEngaged(r, s, b, h) \in Row
BY DEF MarkEngaged, Row

LEMMA SetAsideRow ==
  ASSUME NEW r \in Row PROVE SetAside(r) \in Row
BY DEF SetAside, Row

LEMMA CountedRow ==
  ASSUME NEW r \in Row, NEW w \in Keys \cup {"none"}
  PROVE  Counted(r, w) \in Row
<1> DEFINE n == IF r.why = w THEN r.attempts + 1 ELSE 1
<1>1. n \in Nat
  BY DEF Row
<1>2. Counted(r, w) = [r EXCEPT !.attempts = n, !.why = w]
  BY DEF Counted
<1> HIDE DEF n
<1> QED
  BY <1>1, <1>2 DEF Row

LEMMA StreaklessRow ==
  ASSUME NEW r \in Row PROVE Streakless(r) \in Row
BY DEF Streakless, Row

LEMMA StampedRow ==
  ASSUME TypeOK, NEW f \in Findings PROVE Stamped(f) \in Row
BY DEF Stamped, Row, TypeOK

LEMMA SettingRow ==
  ASSUME TypeOK, NEW f \in Findings, NEW r \in Row, SetRow(f, r)
  PROVE  row' \in [Findings -> Row]
BY DEF SetRow, TypeOK

LEMMA CommentedPR ==
  ASSUME NEW p \in PR, NEW s \in Stamps
  PROVE  [p EXCEPT !.clock = s, !.latest = s] \in PR
BY DEF PR

LEMMA PushedPR ==
  ASSUME NEW p \in PR, NEW h \in Heads, NEW n \in Nat, NEW b \in BOOLEAN
  PROVE  [p EXCEPT !.head = h, !.human = n, !.bad = b] \in PR
BY DEF PR

LEMMA AnsweredPR ==
  ASSUME NEW p \in PR, Answered(p).clock \in Stamps
  PROVE  Answered(p) \in PR
BY DEF Answered, PR

-----------------------------------------------------------------------------
(* What the locals are set to, by type *)

LEMMA FreshRun ==
  ASSUME NEW f \in Findings
  PROVE  LET r == [NoRun EXCEPT !.f = f] IN r \in Run /\ r.f = f
BY NoRowIsRow DEF Run, NoRun

LEMMA EndingCycle ==
  ASSUME EndCycle
  PROVE  pc' \in Pcs /\ run' \in Run /\ todo' \subseteq Findings /\ Locals'
BY NoRowIsRow DEF EndCycle, Pcs, Locals

LEMMA Pausing ==
  ASSUME TypeInv, NEW kind \in {"engage", "harvest"}, Paused(kind), run.f \in Findings
  PROVE  paused' \in [Findings -> Pause]
<1> DEFINE n == IF run.n < MaxAttempts THEN run.n + 1 ELSE run.n
           p == [kind |-> kind, n |-> n, base |-> run.base, human |-> run.human]
<1>1. n \in 0..MaxAttempts /\ run.base \in Heads /\ run.human \in Nat
  BY PRLifecycleAssumption DEF TypeInv, TypeOK, Run
<1>2. paused' = [paused EXCEPT ![run.f] = p]
  BY DEF Paused
<1> HIDE DEF n
<1>3. p \in Pause
  BY <1>1 DEF Pause
<1> QED
  BY <1>2, <1>3 DEF TypeInv, TypeOK

LEMMA TypeInit == Init => TypeInv
<1> SUFFICES ASSUME Init PROVE TypeInv
  OBVIOUS
<1>1. TypeOK
  BY NoRowIsRow, PRLifecycleAssumption DEF Init, TypeOK, Status, Pcs, Stamps
<1> QED
  BY <1>1 DEF Init, TypeInv, Locals

LEMMA TypeSweep ==
  ASSUME TypeInv, Sweep PROVE TypeInv'
<1> USE DEF TypeInv, TypeOK, At, db, bounds
<1>1. status' \in [Findings -> Status]
  BY DEF Sweep, Status
<1>2. paused' \in [Findings -> Pause]
  BY NoRowIsRow DEF Sweep
<1> QED
  BY <1>1, <1>2 DEF Sweep, Locals, Pcs

LEMMA TypeSync ==
  ASSUME TypeInv, Sync PROVE TypeInv'
<1> USE DEF TypeInv, TypeOK, Locals, At, Goto, Pcs, db, bounds
<1>1. ASSUME NEW f \in Findings, SyncOpen(f) PROVE TypeInv'
  <2>1. forge[f] \in PR /\ forge[f].clock \in Stamps
    BY DEF PR
  <2>2. row' \in [Findings -> Row]
    BY <1>1, <2>1, SyncedRow, SettingRow DEF SyncOpen
  <2> QED
    BY <1>1, <2>2 DEF SyncOpen, Fault
<1>2. ASSUME NEW f \in Findings, SyncMergedFinding(f) PROVE TypeInv'
  BY <1>2, FreshRun DEF SyncMergedFinding, Fault, Status
<1>3. ASSUME NEW f \in Findings, NEW s \in {"CLOSED", "MERGED"}
      PROVE  Ended(row[f], forge[f].num, s) \in Row
  BY EndedRow DEF PR
<1>4. ASSUME NEW f \in Findings, SyncClosedRow(f) PROVE TypeInv'
  <2>1. row' \in [Findings -> Row]
    BY <1>3, <1>4, SettingRow DEF SyncClosedRow
  <2>2. CASE pc' = "sync_closed" /\ run' = [NoRun EXCEPT !.f = f] /\ UNCHANGED <<todo, bounds>>
    BY <1>4, <2>1, <2>2, FreshRun DEF SyncClosedRow
  <2>3. CASE Fault /\ todo' = todo \ {f} /\ UNCHANGED <<row, pc, run>>
    BY <1>4, <2>1, <2>3 DEF SyncClosedRow, Fault
  <2> QED
    BY <1>4, <2>2, <2>3 DEF SyncClosedRow
<1>5. CASE SyncMergedRow
  <2>1. row' \in [Findings -> Row]
    BY <1>3, <1>5, SettingRow DEF SyncMergedRow
  <2> QED
    BY <1>5, <2>1, NoRowIsRow DEF SyncMergedRow, Fault
<1>6. CASE SyncClosedFinding
  BY <1>6, NoRowIsRow DEF SyncClosedFinding, Fault, Status
<1>7. CASE SyncDone
  BY <1>7 DEF SyncDone
<1> QED
  BY <1>1, <1>2, <1>4, <1>5, <1>6, <1>7 DEF Sync

LEMMA TypeFix ==
  ASSUME TypeInv, Fix PROVE TypeInv'
<1> USE DEF TypeInv, TypeOK, At, Goto, Pcs, db, bounds
<1>1. ASSUME NEW f \in Findings, StartFix(f) PROVE TypeInv'
  BY <1>1, FreshRun DEF StartFix, Status, Locals
<1>2. CASE ShipPush
  <2>1. forge[run.f] \in PR /\ forge[run.f].head + 1 \in Heads
    BY <1>2, PRLifecycleAssumption DEF ShipPush, Locals, PR, Heads
  <2>2. ASSUME NEW bad \in BOOLEAN
        PROVE  [forge[run.f] EXCEPT !.head = forge[run.f].head + 1, !.human = 0,
                                    !.bad = bad] \in PR
    BY <2>1 DEF PR
  <2>3. forge' \in [Findings -> PR]
    BY <1>2, <2>2 DEF ShipPush
  <2> QED
    BY <1>2, <2>3 DEF ShipPush, Locals
<1>5. CASE CreatePR
  <2>1. ASSUME forge[run.f].num < MaxPRs, forge[run.f].clock < MaxClock
        PROVE  [forge[run.f] EXCEPT !.num = forge[run.f].num + 1, !.state = "OPEN",
                                    !.clock = forge[run.f].clock + 1, !.latest = 0] \in PR
    <3>1. forge[run.f] \in PR
      BY <1>5 DEF CreatePR, Locals
    <3>2. /\ forge[run.f].num + 1 \in 0..MaxPRs
          /\ forge[run.f].clock + 1 \in Stamps /\ 0 \in Stamps
      BY <2>1, <3>1, PRLifecycleAssumption DEF PR, Stamps
    <3> QED
      BY <3>1, <3>2 DEF PR
  <2>2. forge' \in [Findings -> PR]
    BY <1>5, <2>1 DEF CreatePR
  <2> QED
    BY <1>5, <2>2 DEF CreatePR, Locals
<1>3. CASE ShipFails
  BY <1>3, EndingCycle DEF ShipFails, Released, Fault, Status
<1>4. CASE Shipped
  BY <1>4, EndingCycle DEF Shipped, Released, Status, Fault
<1> QED
  BY <1>1, <1>2, <1>3, <1>4, <1>5 DEF Fix

LEMMA EngageRun ==
  ASSUME TypeOK, NEW f \in Findings,
         NEW n \in 0..MaxAttempts, NEW base \in Heads, NEW human \in Nat
  PROVE  LET r == [NoRun EXCEPT !.f = f, !.latest = row[f].latest, !.bad = row[f].bad,
                     !.head = row[f].head, !.n = n, !.base = base, !.human = human]
         IN r \in Run
<1>1. row[f].latest \in Stamps /\ row[f].bad \in BOOLEAN /\ row[f].head \in Heads
  BY DEF TypeOK, Row
<1> QED
  BY <1>1, NoRowIsRow DEF Run, NoRun

LEMMA TypeStartEngage ==
  ASSUME TypeInv, NEW f \in Findings, StartEngage(f)
  PROVE  TypeInv'
<1> DEFINE resume == paused[f].kind = "engage"
           n     == IF resume THEN paused[f].n ELSE 0
           base  == IF resume THEN paused[f].base ELSE forge[f].head
           human == IF resume THEN paused[f].human ELSE forge[f].human
<1>1. paused[f] \in Pause /\ forge[f] \in PR
  BY DEF TypeInv, TypeOK
<1>2. n \in 0..MaxAttempts /\ base \in Heads /\ human \in Nat
  BY <1>1, PRLifecycleAssumption DEF Pause, PR
<1>3. run' = [NoRun EXCEPT !.f = f, !.latest = row[f].latest, !.bad = row[f].bad,
                !.head = row[f].head, !.n = n, !.base = base, !.human = human]
  BY DEF StartEngage
<1> HIDE DEF n, base, human
<1>4. run' \in Run
  BY <1>2, <1>3, EngageRun DEF TypeInv
<1>5. run'.f = f
  BY <1>3 DEF NoRun
<1>7. paused' \in [Findings -> Pause]
  BY NoRowIsRow DEF StartEngage, TypeInv, TypeOK
<1> QED
  BY <1>4, <1>5, <1>7
     DEF StartEngage, TypeInv, TypeOK, Locals, Pcs, bounds

LEMMA TypeStartOn ==
  ASSUME TypeInv, NEW f \in Findings, StartOn(f) PROVE TypeInv'
<1>1. CASE GiveUpEngage(f)
  <2>1. row[f] \in Row /\ row[f].latest \in Stamps
    BY DEF TypeInv, TypeOK, Row
  <2>2. row' \in [Findings -> Row]
    BY <1>1, <2>1, SetAsideRow, SettingRow DEF GiveUpEngage, TypeInv, TypeOK
  <2>4. paused' \in [Findings -> Pause]
    BY <1>1, NoRowIsRow DEF GiveUpEngage, TypeInv, TypeOK
  <2> QED
    BY <1>1, <2>2, <2>4 DEF GiveUpEngage, TypeInv, TypeOK, Locals, Fault, bounds, At
<1> QED
  BY <1>1, TypeStartEngage DEF StartOn

LEMMA TypeReviewOf ==
  ASSUME TypeInv, NEW f \in Findings, ReviewOf(f) PROVE TypeInv'
<1> USE DEF TypeInv, TypeOK, At, Pcs, db, bounds
<1>1. CASE StartHarvest(f)
  <2> DEFINE resume == paused[f].kind = "harvest" /\ Resumable(f)
             n      == IF resume THEN paused[f].n ELSE 0
             closed == row[f].state = "CLOSED"
  <2>1. n \in 0..MaxAttempts /\ closed \in BOOLEAN
    BY PRLifecycleAssumption DEF Pause
  <2>2. run' = [NoRun EXCEPT !.f = f, !.closed = closed, !.n = n]
    BY <1>1 DEF StartHarvest
  <2> HIDE DEF n, closed
  <2>3. run' \in Run /\ run'.f = f
    BY <2>1, <2>2, NoRowIsRow DEF Run, NoRun
  <2>4. paused' \in [Findings -> Pause]
    BY <1>1, NoRowIsRow DEF StartHarvest
  <2> QED
    BY <1>1, <2>3, <2>4 DEF StartHarvest, Locals
<1>2. ASSUME NEW why \in {"view", "diff", "gaveup"}
      PROVE  LET r == [NoRun EXCEPT !.f = f, !.why = why] IN r \in Run /\ r.f = f
  BY NoRowIsRow DEF Run, NoRun, Keys
<1>3. CASE HarvestNotStarted(f)
  <2>1. PICK why \in {"view", "diff"} : run' = [NoRun EXCEPT !.f = f, !.why = why]
    BY <1>3 DEF HarvestNotStarted
  <2>2. run' \in Run /\ run'.f = f
    BY <1>2, <2>1
  <2> QED
    BY <1>3, <2>2 DEF HarvestNotStarted, Fault, Locals
<1>4. CASE GiveUpHarvest(f)
  <2>1. paused' \in [Findings -> Pause]
    BY <1>4, NoRowIsRow DEF GiveUpHarvest
  <2> QED
    BY <1>2, <1>4, <2>1 DEF GiveUpHarvest, Locals
<1> QED
  BY <1>1, <1>3, <1>4 DEF ReviewOf

LEMMA ClosingPR ==
  ASSUME TypeInv, run.f \in Findings, NEW closed \in BOOLEAN, CloseRun(closed)
  PROVE  forge' \in [Findings -> PR]
<1>1. forge[run.f] \in PR
  BY DEF TypeInv, TypeOK
<1>2. PICK q \in {forge[run.f], Answered(forge[run.f])} :
        /\ q.clock \in Stamps
        /\ forge' = [forge EXCEPT ![run.f] = IF closed THEN [q EXCEPT !.state = "CLOSED"] ELSE q]
  BY DEF CloseRun
<1>3. q \in PR
  BY <1>1, <1>2, AnsweredPR
<1>4. [q EXCEPT !.state = "CLOSED"] \in PR
  BY <1>3 DEF PR
<1> DEFINE new == IF closed THEN [q EXCEPT !.state = "CLOSED"] ELSE q
<1>5. new \in PR
  BY <1>3, <1>4
<1>6. forge' = [forge EXCEPT ![run.f] = new]
  BY <1>2
<1>7. forge \in [Findings -> PR]
  BY DEF TypeInv, TypeOK
<1> HIDE DEF new
<1> QED
  BY <1>5, <1>6, <1>7

LEMMA TypeEngageWorker ==
  ASSUME TypeInv, EngageWorker PROVE TypeInv'
<1> USE DEF TypeInv, TypeOK, At, Goto, Pcs, db, bounds
<1>1. CASE EngagePauses
  BY <1>1, EndingCycle, Pausing DEF EngagePauses, Locals
<1>2. CASE EngageFails
  BY <1>2, EndingCycle DEF EngageFails
<1>3. CASE Push
  <2>1. PICK bad \in BOOLEAN :
          forge' = [forge EXCEPT ![run.f] =
                      [forge[run.f] EXCEPT !.head = forge[run.f].head + 1,
                                           !.human = run.human, !.bad = bad]]
    BY <1>3 DEF Push
  <2>2. forge[run.f] \in PR /\ run.human \in Nat /\ run.f \in Findings
    BY <1>3 DEF Push, Locals, Run
  <2>3. forge[run.f].head + 1 \in Heads
    BY <1>3, <2>2, PRLifecycleAssumption DEF Push, PR, Heads
  <2> DEFINE new == [forge[run.f] EXCEPT !.head = forge[run.f].head + 1,
                                         !.human = run.human, !.bad = bad]
  <2>4. new \in PR
    BY <2>2, <2>3, PushedPR
  <2>5. forge' \in [Findings -> PR]
    <3>1. forge' = [forge EXCEPT ![run.f] = new]
      BY <2>1
    <3> HIDE DEF new
    <3> QED
      BY <2>4, <3>1
  <2>6. run' \in Run /\ run'.f = run.f
    BY <1>3 DEF Push, Run
  <2> QED
    BY <1>3, <2>2, <2>5, <2>6 DEF Push, Locals
<1>4. CASE PushRefused
  <2>1. faults' \in Nat /\ UNCHANGED <<events, crashes, verdicts>>
    BY <1>4 DEF PushRefused, Fault
  <2> QED
    BY <1>4, <2>1, EndingCycle DEF PushRefused
<1>5. CASE NothingToPush
  BY <1>5 DEF NothingToPush, Locals
<1>6. CASE Withdraw
  BY <1>6, ClosingPR DEF Withdraw, Locals
<1>7. CASE WithdrawFails
  <2>1. faults' \in Nat /\ UNCHANGED <<events, crashes, verdicts>>
    BY <1>7 DEF WithdrawFails, Fault
  <2> QED
    BY <1>7, <2>1, ClosingPR DEF WithdrawFails, Locals
<1> QED
  BY <1>1, <1>2, <1>3, <1>4, <1>5, <1>6, <1>7 DEF EngageWorker

LEMMA TypeRecording ==
  ASSUME TypeInv, Recording PROVE TypeInv'
<1> USE DEF TypeInv, TypeOK, At, Goto, Pcs, db, bounds
<1>1. CASE Reply
  <2> DEFINE p == Answered(forge[run.f])
  <2>1. run.f \in Findings
    BY <1>1 DEF Reply, Locals
  <2>2. p \in PR
    BY <1>1, <2>1, AnsweredPR DEF Reply
  <2>3. forge' \in [Findings -> PR]
    BY <1>1, <2>2 DEF Reply
  <2>4. PICK now \in Stamps : run' = [run EXCEPT !.latest = now]
    BY <1>1 DEF Reply
  <2>5. run' \in Run /\ run'.f = run.f
    BY <2>4 DEF Run
  <2> QED
    BY <1>1, <2>1, <2>3, <2>5 DEF Reply, Locals
<1>2. CASE ReplyFails
  BY <1>2, EndingCycle DEF ReplyFails, Fault
<1>3. CASE NoReply
  BY <1>3 DEF NoReply, Locals
<1>4. ASSUME run.f \in Findings, NEW b \in BOOLEAN, NEW h \in Heads
      PROVE  MarkEngaged(row[run.f], run.latest, b, h) \in Row
  BY <1>4, MarkedRow DEF Run
<1>5. run.bad \in BOOLEAN /\ run.pushed \in BOOLEAN /\ run.head \in Heads /\ 0 \in Heads
  BY PRLifecycleAssumption DEF Run, Heads
<1>6. CASE Mark
  <2> DEFINE h == IF run.pushed THEN 0 ELSE run.head
             b == ~run.pushed /\ run.bad
  <2>1. h \in Heads /\ b \in BOOLEAN
    BY <1>5
  <2>2. run.f \in Findings
    BY <1>6 DEF Mark, Locals
  <2>3. MarkEngaged(row[run.f], run.latest, b, h) \in Row
    BY <1>4, <2>1, <2>2
  <2>4. row' \in [Findings -> Row]
    BY <1>6, <2>2, <2>3, SettingRow DEF Mark
  <2> QED
    BY <1>6, <2>4, EndingCycle DEF Mark, Fault
<1>7. CASE MarkAborted
  <2>1. run.f \in Findings
    BY <1>7 DEF MarkAborted, Locals
  <2>2. row' \in [Findings -> Row]
    BY <1>4, <1>5, <1>7, <2>1, SettingRow DEF MarkAborted
  <2> QED
    BY <1>7, <2>2, EndingCycle DEF MarkAborted, Fault
<1>8. CASE WithdrawnRow
  <2>1. run.f \in Findings
    BY <1>8 DEF WithdrawnRow, Locals
  <2>2. Ended(row[run.f], forge[run.f].num, "CLOSED") \in Row
    BY <2>1, EndedRow DEF PR
  <2>3. row' \in [Findings -> Row]
    BY <1>8, <2>1, <2>2, SettingRow DEF WithdrawnRow
  <2> QED
    BY <1>8, <2>1, <2>3, EndingCycle DEF WithdrawnRow, Fault, Locals
<1>9. CASE WithdrawnFinding
  <2>1. run.f \in Findings
    BY <1>9 DEF WithdrawnFinding, Locals
  <2>2. status' \in [Findings -> Status]
    BY <1>9 DEF WithdrawnFinding, Status
  <2>3. CASE /\ pc' = "harvest" /\ UNCHANGED <<todo, bounds>>
             /\ run' = [run EXCEPT !.closed = TRUE, !.handoff = TRUE, !.n = 0]
    <3>1. 0 \in 0..MaxAttempts
      BY PRLifecycleAssumption
    <3>2. run' \in Run /\ run'.f = run.f
      BY <2>3, <3>1 DEF Run
    <3> QED
      BY <1>9, <2>1, <2>2, <2>3, <3>2 DEF WithdrawnFinding, Locals
  <2>4. CASE EndCycle
    BY <1>9, <2>2, <2>4, EndingCycle DEF WithdrawnFinding, Fault
  <2> QED
    BY <1>9, <2>3, <2>4 DEF WithdrawnFinding
<1> QED
  BY <1>1, <1>2, <1>3, <1>6, <1>7, <1>8, <1>9 DEF Recording

LEMMA TypeHarvestWorker ==
  ASSUME TypeInv, HarvestWorker PROVE TypeInv'
<1> USE DEF TypeInv, TypeOK, At, Pcs, db, bounds
<1>1. CASE HarvestPauses
  BY <1>1, EndingCycle, Pausing DEF HarvestPauses, Locals
<1>2. CASE HarvestFails
  <2>1. CASE EndCycle
    BY <1>2, <2>1, EndingCycle DEF HarvestFails
  <2>2. ASSUME NEW why \in ReviewFails,
               pc' = "count" /\ run' = [run EXCEPT !.why = why] /\ UNCHANGED todo
        PROVE  TypeInv'
    <3>1. run' \in Run /\ run'.f = run.f
      BY <2>2 DEF Run, Keys
    <3> QED
      BY <1>2, <2>2, <3>1 DEF HarvestFails, Locals
  <2> QED
    BY <1>2, <2>1, <2>2 DEF HarvestFails
<1>3. CASE HarvestDone
  <2>1. run.f \in Findings
    BY <1>3 DEF HarvestDone, Locals
  <2>2. Stamped(run.f) \in Row /\ Streakless(row[run.f]) \in Row
    BY <2>1, StampedRow, StreaklessRow
  <2>3. Streakless(Stamped(run.f)) \in Row
    BY <2>2, StreaklessRow
  <2>4. row' \in [Findings -> Row]
    BY <1>3, <2>1, <2>2, <2>3, SettingRow DEF HarvestDone
  <2>5. status' \in [Findings -> Status]
    <3>1. ASSUME NEW to \in ClosedAs, status' = Classified(run.f, to)
          PROVE  status' \in [Findings -> Status]
      BY <3>1 DEF Classified, ClosedAs, Status
    <3> QED
      BY <1>3, <3>1 DEF HarvestDone
  <2>6. row[run.f].num \in 0..MaxPRs
    BY <2>1 DEF Row
  <2>7. reviewed' \in [Findings -> SUBSET (0..MaxPRs)]
    <3>1. UNCHANGED reviewed \/ Reviewed(run.f)
      BY <1>3 DEF HarvestDone
    <3> QED
      BY <2>1, <2>6, <3>1 DEF Reviewed
  <2>8. faults' \in Nat /\ UNCHANGED <<events, crashes, verdicts>>
    BY <1>3 DEF HarvestDone, Fault
  <2> QED
    BY <1>3, <2>4, <2>5, <2>7, <2>8, EndingCycle DEF HarvestDone
<1> QED
  BY <1>1, <1>2, <1>3 DEF HarvestWorker

LEMMA TypeHarvesting ==
  ASSUME TypeInv, Harvesting PROVE TypeInv'
<1> USE DEF TypeInv, TypeOK, At, Goto, Pcs, db, bounds
<1>1. CASE CountHarvest
  <2> DEFINE r == Counted(row[run.f], run.why)
  <2>1. run.f \in Findings /\ run.why \in Keys \cup {"none"}
    BY <1>1 DEF CountHarvest, Locals, Run
  <2>2. r \in Row
    BY <2>1, CountedRow
  <2>3. row' \in [Findings -> Row]
    BY <1>1, <2>1, <2>2, SettingRow DEF CountHarvest
  <2>4. EndCycle \/ Goto("giveup")
    BY <1>1 DEF CountHarvest
  <2>5. faults' \in Nat /\ UNCHANGED <<events, crashes, verdicts>>
    BY <1>1 DEF CountHarvest, Fault
  <2> QED
    BY <1>1, <2>1, <2>3, <2>4, <2>5, EndingCycle DEF CountHarvest, Locals
<1>2. CASE GiveUpPR
  <2>1. run.f \in Findings
    BY <1>2 DEF GiveUpPR, Locals
  <2>2. Streakless(Stamped(run.f)) \in Row
    BY <2>1, StampedRow, StreaklessRow
  <2>3. row' \in [Findings -> Row]
    BY <1>2, <2>1, <2>2, SettingRow DEF GiveUpPR
  <2>4. row[run.f].num \in 0..MaxPRs
    BY <2>1 DEF Row
  <2>5. reviewed' \in [Findings -> SUBSET (0..MaxPRs)]
    BY <1>2, <2>1, <2>4 DEF GiveUpPR, Reviewed
  <2> QED
    BY <1>2, <2>3, <2>5, EndingCycle DEF GiveUpPR, Fault
<1> QED
  BY <1>1, <1>2 DEF Harvesting

LEMMA TypeOperator ==
  ASSUME TypeInv, Operator PROVE TypeInv'
<1>1. ASSUME NEW f \in Findings, NEW from, NEW to \in Status, Answer(f, from, to)
      PROVE  TypeInv'
  BY <1>1 DEF Answer, TypeInv, TypeOK, Locals
<1>2. {"queued", "settled", "new"} \subseteq Status
  BY DEF Status
<1> QED
  BY <1>1, <1>2 DEF Operator, Verdict, Unqueue

LEMMA TypeForge ==
  ASSUME TypeInv, Forge PROVE TypeInv'
<1> USE DEF TypeInv, TypeOK
<1>1. ASSUME NEW f \in Findings, NEW p \in PR, Happens(f, p)
      PROVE  TypeInv'
  BY <1>1 DEF Happens, Locals, db
<1>2. ASSUME NEW f \in Findings PROVE forge[f] \in PR
  OBVIOUS
<1>3. ASSUME NEW f \in Findings, Comment(f) PROVE TypeInv'
  <2> DEFINE now == forge[f].clock + 1
  <2>1. now \in Stamps
    BY <1>3 DEF Comment
  <2> HIDE DEF now
  <2>2. [forge[f] EXCEPT !.clock = now, !.latest = now] \in PR
    BY <1>2, <2>1, CommentedPR
  <2> QED
    BY <1>1, <1>3, <2>2 DEF Comment, now
<1>4. ASSUME NEW f \in Findings, ReviewerPush(f) PROVE TypeInv'
  <2>1. forge[f].head + 1 \in Heads
    BY <1>2, <1>4, PRLifecycleAssumption DEF ReviewerPush, PR, Heads
  <2>2. forge[f].human + 1 \in Nat
    BY <1>2 DEF PR
  <2>3. ASSUME NEW bad \in BOOLEAN
        PROVE  [forge[f] EXCEPT !.head = @ + 1, !.human = @ + 1, !.bad = bad] \in PR
    BY <1>2, <2>1, <2>2, PushedPR
  <2> QED
    BY <1>1, <1>4, <2>3 DEF ReviewerPush
<1>5. ASSUME NEW f \in Findings, Rated(f) PROVE TypeInv'
  <2>1. [forge[f] EXCEPT !.bad = ~@] \in PR
    BY <1>2 DEF PR
  <2> QED
    BY <1>1, <1>5, <2>1 DEF Rated
<1>6. ASSUME NEW f \in Findings, NEW s \in {"OPEN", "CLOSED", "MERGED"}
      PROVE  [forge[f] EXCEPT !.state = s] \in PR
  BY <1>2 DEF PR
<1>7. ASSUME NEW f \in Findings, Merge(f) \/ Reject(f) \/ Reopen(f) PROVE TypeInv'
  BY <1>1, <1>6, <1>7 DEF Merge, Reject, Reopen
<1> QED
  BY <1>3, <1>4, <1>5, <1>7 DEF Forge

LEMMA TypeCrash ==
  ASSUME TypeInv, Crash PROVE TypeInv'
<1>1. paused' \in [Findings -> Pause]
  BY Pausing DEF Crash, TypeInv, TypeOK, Locals, At
<1> QED
  BY <1>1, EndingCycle DEF Crash, TypeInv, TypeOK

LEMMA TypeNext ==
  ASSUME TypeInv, [Next]_vars PROVE TypeInv'
<1>1. CASE Skip
  BY <1>1, EndingCycle DEF Skip, TypeInv, TypeOK, db, bounds
<1>2. CASE UNCHANGED vars
  BY <1>2 DEF TypeInv, TypeOK, Locals, vars, db, bounds
<1> QED
  BY <1>1, <1>2, TypeSweep, TypeSync, TypeFix, TypeStartOn, TypeReviewOf,
     TypeEngageWorker, TypeRecording, TypeHarvestWorker, TypeHarvesting,
     TypeOperator, TypeForge, TypeCrash
     DEF Next, Scheduler

(* Every variable keeps its type, and the loop works on a finding wherever it *)
(* uses one: no step of a fix, an engage or a harvest runs without its        *)
(* finding, also after a crash (scheduler.rs, the locals of run_engage and    *)
(* run_harvest).                                                              *)
THEOREM TypeCorrect == Spec => [](TypeOK /\ Locals)
<1>1. Init => TypeInv
  BY TypeInit
<1>2. TypeInv /\ [Next]_vars => TypeInv'
  BY TypeNext
<1>3. TypeInv => TypeOK /\ Locals
  BY DEF TypeInv
<1> QED
  BY <1>1, <1>2, <1>3, PTL DEF Spec

-----------------------------------------------------------------------------
(* What the writes do to the PR a row is about, its state and its stamp *)

Same(r, q) == r.num = q.num /\ r.state = q.state /\ r.harvested = q.harvested

(* A row that goes over to another PR loses its stamp. *)
Renews(r, q, n) == /\ r.num = n
                   /\ q.num \in {0, n} => r.harvested = q.harvested
                   /\ q.num \notin {0, n} => ~r.harvested

LEMMA RenumberedSays ==
  ASSUME NEW r \in Row, NEW n \in 0..MaxPRs
  PROVE  Renews(Renumbered(r, n), r, n)
BY DEF Renews, Renumbered, Row

LEMMA EndedSays ==
  ASSUME NEW r \in Row, NEW n \in 0..MaxPRs, NEW s \in {"CLOSED", "MERGED"}
  PROVE  Ended(r, n, s).state = s /\ Renews(Ended(r, n, s), r, n)
<1>1. Renumbered(r, n) \in Row /\ Renews(Renumbered(r, n), r, n)
  BY RenumberedRow, RenumberedSays
<1> QED
  BY <1>1 DEF Ended, Row, Renews

LEMMA SyncedSays ==
  ASSUME NEW r \in Row, NEW p \in PR
  PROVE  Synced(r, p).state = "OPEN" /\ Renews(Synced(r, p), r, p.num)
<1>1. p.num \in 0..MaxPRs
  BY DEF PR
<1>2. Renumbered(r, p.num) \in Row /\ Renews(Renumbered(r, p.num), r, p.num)
  BY <1>1, RenumberedRow, RenumberedSays
<1> QED
  BY <1>2 DEF Synced, Row, Renews

LEMMA MarkedSays ==
  ASSUME NEW r \in Row, NEW s, NEW b, NEW h
  PROVE  Same(MarkEngaged(r, s, b, h), r)
BY DEF MarkEngaged, Row, Same

LEMMA SetAsideSays ==
  ASSUME NEW r \in Row PROVE Same(SetAside(r), r)
BY DEF SetAside, Row, Same

LEMMA CountedSays ==
  ASSUME NEW r \in Row, NEW w PROVE Same(Counted(r, w), r)
BY DEF Counted, Row, Same

LEMMA StreaklessSays ==
  ASSUME NEW r \in Row PROVE Same(Streakless(r), r)
BY DEF Streakless, Row, Same

LEMMA StampedSays ==
  ASSUME TypeOK, NEW f \in Findings
  PROVE  /\ Stamped(f).harvested
         /\ Stamped(f).num = row[f].num /\ Stamped(f).state = row[f].state
BY DEF Stamped, TypeOK, Row

LEMMA StampedStreaklessSays ==
  ASSUME TypeOK, NEW f \in Findings
  PROVE  LET r == Streakless(Stamped(f))
         IN r.harvested /\ r.num = row[f].num /\ r.state = row[f].state
<1>1. Stamped(f) \in Row
  BY StampedRow
<1> QED
  BY <1>1, StreaklessSays, StampedSays DEF Same

(* What a step that sets one row leaves of the others *)
LEMMA OtherRows ==
  ASSUME TypeOK, NEW f \in Findings, NEW r, SetRow(f, r)
  PROVE  row'[f] = r /\ \A g \in Findings \ {f} : row'[g] = row[g]
BY DEF TypeOK, SetRow

-----------------------------------------------------------------------------
(* What a finding's status is while the loop works on it.  The operator's   *)
(* requests compare-and-set from statuses that none of these steps has, and *)
(* a closure that the next step turns into a verdict is recorded.           *)

AtFix    == {"ship", "create", "shipped"}
AtEngage == {"engage", "reply", "mark", "aborted", "withdrawn", "verdict"}
AtSync   == {"sync", "sync_merged", "sync_closed"}

Recorded(f) == row[f].state = "CLOSED" /\ row[f].num = forge[f].num

WhereInv ==
  /\ pc \in AtFix => status[run.f] = "fixing"
  /\ pc \in AtEngage \cup {"sync_closed"} => status[run.f] = "pr_open"
  /\ pc = "sync_merged" => status[run.f] \in {"pr_open", "merged"}
  /\ pc \notin AtSync => todo = {}
  /\ \A f \in todo : status[f] = "pr_open" \/ (pc = "sync_merged" /\ f = run.f)
  /\ pc \in {"verdict", "sync_closed"} => Recorded(run.f)
  /\ ClosedIsRecorded

LEMMA WhereInit == Init => WhereInv
BY DEF Init, WhereInv, AtFix, AtEngage, AtSync, ClosedIsRecorded

(* Between two cycles there is nothing to say but of the closed ones. *)
LEMMA WhereEnded ==
  ASSUME EndCycle, ClosedIsRecorded' PROVE WhereInv'
BY DEF EndCycle, WhereInv, AtFix, AtEngage, AtSync

LEMMA WhereSweep ==
  ASSUME TypeInv, WhereInv, Sweep PROVE WhereInv'
<1>1. ClosedIsRecorded'
  BY DEF Sweep, WhereInv, ClosedIsRecorded, TypeInv, TypeOK
<1> QED
  BY <1>1 DEF Sweep, WhereInv, AtFix, AtEngage, AtSync, TypeInv, TypeOK

LEMMA WhereSync ==
  ASSUME TypeInv, WhereInv, Sync PROVE WhereInv'
<1> USE DEF AtFix, AtEngage, AtSync, At, Recorded
<1> row \in [Findings -> Row] /\ forge \in [Findings -> PR]
      /\ status \in [Findings -> Status] /\ todo \subseteq Findings /\ TypeOK
  BY DEF TypeInv, TypeOK
<1>1. ASSUME NEW f \in Findings, SyncOpen(f) PROVE WhereInv'
  <2>1. \A g \in Findings \ {f} : row'[g] = row[g]
    BY <1>1, OtherRows DEF SyncOpen
  <2>2. status[f] = "pr_open"
    BY <1>1 DEF SyncOpen, WhereInv
  <2>3. ClosedIsRecorded'
    BY <1>1, <2>1, <2>2 DEF SyncOpen, WhereInv, ClosedIsRecorded
  <2> QED
    BY <1>1, <2>3 DEF SyncOpen, WhereInv
<1>2. ASSUME NEW f \in Findings, SyncMergedFinding(f) PROVE WhereInv'
  <2>1. ClosedIsRecorded'
    BY <1>2 DEF SyncMergedFinding, WhereInv, ClosedIsRecorded
  <2>2. run'.f = f
    BY <1>2, FreshRun DEF SyncMergedFinding
  <2> QED
    BY <1>2, <2>1, <2>2 DEF SyncMergedFinding, WhereInv
<1>3. CASE SyncMergedRow
  <2>1. run.f \in Findings
    BY <1>3 DEF SyncMergedRow, TypeInv, Locals
  <2>2. \A g \in Findings \ {run.f} : row'[g] = row[g]
    BY <1>3, <2>1, OtherRows DEF SyncMergedRow
  <2>3. ClosedIsRecorded'
    BY <1>3, <2>1, <2>2 DEF SyncMergedRow, WhereInv, ClosedIsRecorded
  <2> QED
    BY <1>3, <2>1, <2>3 DEF SyncMergedRow, WhereInv
<1>4. ASSUME NEW f \in Findings, SyncClosedRow(f) PROVE WhereInv'
  <2>1. \A g \in Findings \ {f} : row'[g] = row[g]
    BY <1>4, OtherRows DEF SyncClosedRow
  <2>2. status[f] = "pr_open"
    BY <1>4 DEF SyncClosedRow, WhereInv
  <2>3. ClosedIsRecorded'
    BY <1>4, <2>1, <2>2 DEF SyncClosedRow, WhereInv, ClosedIsRecorded
  <2>4. CASE /\ SetRow(f, Ended(row[f], forge[f].num, "CLOSED"))
             /\ pc' = "sync_closed" /\ run' = [NoRun EXCEPT !.f = f]
             /\ UNCHANGED <<todo, bounds>>
    <3>1. row'[f] = Ended(row[f], forge[f].num, "CLOSED")
      BY <2>4, OtherRows
    <3>2. row[f] \in Row /\ forge[f].num \in 0..MaxPRs
      BY DEF PR
    <3>3. row'[f].state = "CLOSED" /\ row'[f].num = forge[f].num
      BY <3>1, <3>2, EndedSays DEF Renews
    <3>4. run'.f = f
      BY <2>4, FreshRun
    <3> QED
      BY <1>4, <2>2, <2>3, <2>4, <3>3, <3>4 DEF SyncClosedRow, WhereInv
  <2>5. CASE Fault /\ todo' = todo \ {f} /\ UNCHANGED <<row, pc, run>>
    BY <1>4, <2>3, <2>5 DEF SyncClosedRow, WhereInv
  <2> QED
    BY <1>4, <2>4, <2>5 DEF SyncClosedRow
<1>5. CASE SyncClosedFinding
  <2>1. run.f \in Findings
    BY <1>5 DEF SyncClosedFinding, TypeInv, Locals
  <2>2. ClosedIsRecorded'
    BY <1>5, <2>1 DEF SyncClosedFinding, WhereInv, ClosedIsRecorded
  <2> QED
    BY <1>5, <2>1, <2>2 DEF SyncClosedFinding, WhereInv
<1>6. CASE SyncDone
  <2>1. ClosedIsRecorded'
    BY <1>6 DEF SyncDone, WhereInv, ClosedIsRecorded, db
  <2> QED
    BY <1>6, <2>1 DEF SyncDone, WhereInv, Goto, db
<1> QED
  BY <1>1, <1>2, <1>3, <1>4, <1>5, <1>6 DEF Sync

LEMMA WhereFix ==
  ASSUME TypeInv, WhereInv, Fix PROVE WhereInv'
<1> USE DEF AtFix, AtEngage, AtSync, At
<1> /\ row \in [Findings -> Row] /\ forge \in [Findings -> PR]
    /\ status \in [Findings -> Status] /\ TypeOK
  BY DEF TypeInv, TypeOK
<1>1. ASSUME NEW f \in Findings, StartFix(f) PROVE WhereInv'
  <2>1. ClosedIsRecorded'
    BY <1>1 DEF StartFix, WhereInv, ClosedIsRecorded
  <2>2. run'.f = f
    BY <1>1, FreshRun DEF StartFix
  <2> QED
    BY <1>1, <2>1, <2>2 DEF StartFix, WhereInv
<1>2. CASE ShipPush \/ CreatePR
  <2>1. run.f \in Findings
    BY <1>2 DEF ShipPush, CreatePR, TypeInv, Locals
  <2>2. status[run.f] = "fixing"
    BY <1>2 DEF ShipPush, CreatePR, WhereInv
  <2>3. \A g \in Findings \ {run.f} : forge'[g] = forge[g]
    BY <1>2 DEF ShipPush, CreatePR
  <2>4. ClosedIsRecorded'
    BY <1>2, <2>2, <2>3 DEF ShipPush, CreatePR, WhereInv, ClosedIsRecorded, db
  <2> QED
    BY <1>2, <2>1, <2>4 DEF ShipPush, CreatePR, WhereInv, Goto, db
<1>3. CASE ShipFails \/ Shipped
  <2>1. run.f \in Findings
    BY <1>3 DEF ShipFails, Shipped, TypeInv, Locals
  <2>2. ClosedIsRecorded'
    BY <1>3, <2>1 DEF ShipFails, Shipped, Released, WhereInv, ClosedIsRecorded
  <2> QED
    BY <1>3, <2>2, WhereEnded DEF ShipFails, Shipped
<1> QED
  BY <1>1, <1>2, <1>3 DEF Fix

(* A row that only says the same of another PR's state keeps the record. *)
LEMMA SameKeeps ==
  ASSUME TypeInv, ClosedIsRecorded, UNCHANGED <<status, forge>>,
         \A f \in Findings : Same(row'[f], row[f])
  PROVE  ClosedIsRecorded'
BY DEF ClosedIsRecorded, Same

LEMMA SettingSame ==
  ASSUME TypeOK, NEW f \in Findings, NEW r, SetRow(f, r), Same(r, row[f])
  PROVE  \A g \in Findings : Same(row'[g], row[g])
BY OtherRows DEF Same

LEMMA WhereStarts ==
  ASSUME TypeInv, WhereInv, NEW f \in Findings, StartOn(f) \/ ReviewOf(f)
  PROVE  WhereInv'
<1> USE DEF AtFix, AtEngage, AtSync, At
<1>1. CASE StartEngage(f)
  <2>1. ClosedIsRecorded'
    BY <1>1 DEF StartEngage, WhereInv, ClosedIsRecorded
  <2>2. run'.f = f
    BY <1>1 DEF StartEngage, NoRun
  <2> QED
    BY <1>1, <2>1, <2>2 DEF StartEngage, WhereInv
<1>2. CASE GiveUpEngage(f)
  <2>1. row[f] \in Row /\ TypeOK
    BY DEF TypeInv, TypeOK
  <2>2. \A g \in Findings : Same(row'[g], row[g])
    <3>1. CASE SetRow(f, SetAside(row[f]))
      BY <2>1, <3>1, SetAsideSays, SettingSame
    <3>2. CASE UNCHANGED row
      BY <3>2 DEF Same
    <3> QED
      BY <1>2, <3>1, <3>2 DEF GiveUpEngage
  <2>3. ClosedIsRecorded'
    BY <1>2, <2>2, SameKeeps DEF GiveUpEngage, WhereInv
  <2> QED
    BY <1>2, <2>3 DEF GiveUpEngage, WhereInv
<1>3. CASE ReviewOf(f)
  <2>1. UNCHANGED <<status, row, forge, todo>> /\ pc = "select" /\ pc' \in {"harvest", "count"}
    BY <1>3 DEF ReviewOf, StartHarvest, HarvestNotStarted, GiveUpHarvest, db
  <2>2. ClosedIsRecorded'
    BY <2>1 DEF WhereInv, ClosedIsRecorded
  <2> QED
    BY <2>1, <2>2 DEF WhereInv
<1> QED
  BY <1>1, <1>2, <1>3 DEF StartOn

LEMMA WhereEngageWorker ==
  ASSUME TypeInv, WhereInv, EngageWorker PROVE WhereInv'
<1> USE DEF AtFix, AtEngage, AtSync, At
<1>1. /\ pc = "engage" /\ UNCHANGED <<status, row>> /\ run.f \in Findings
      /\ forge \in [Findings -> PR]
  BY DEF EngageWorker, EngagePauses, EngageFails, Push, PushRefused, NothingToPush,
         Withdraw, WithdrawFails, db, TypeInv, TypeOK, Locals
<1>2. \A f \in Findings : forge'[f].num = forge[f].num
  <2>1. CASE Push
    <3>1. \A f \in Findings \ {run.f} : forge'[f] = forge[f]
      BY <1>1, <2>1 DEF Push
    <3>2. forge'[run.f].num = forge[run.f].num
      BY <1>1, <2>1 DEF Push, PR
    <3> QED
      BY <3>1, <3>2
  <2>2. ASSUME NEW closed \in BOOLEAN, CloseRun(closed)
        PROVE  \A f \in Findings : forge'[f].num = forge[f].num
    <3>1. PICK q \in {forge[run.f], Answered(forge[run.f])} :
            forge' = [forge EXCEPT ![run.f] =
                        IF closed THEN [q EXCEPT !.state = "CLOSED"] ELSE q]
      BY <2>2 DEF CloseRun
    <3>2. forge[run.f] \in PR
      BY <1>1
    <3>3. q.num = forge[run.f].num /\ [q EXCEPT !.state = "CLOSED"].num = q.num
      BY <3>2 DEF Answered, PR
    <3> QED
      BY <1>1, <3>1, <3>3
  <2> QED
    BY <2>1, <2>2 DEF EngageWorker, EngagePauses, EngageFails, PushRefused,
                      NothingToPush, Withdraw, WithdrawFails
<1>3. ClosedIsRecorded'
  BY <1>1, <1>2 DEF WhereInv, ClosedIsRecorded
<1>4. CASE EndCycle
  BY <1>3, <1>4, WhereEnded
<1>5. CASE run'.f = run.f /\ UNCHANGED todo /\ pc' \in {"reply", "withdrawn", "aborted"}
  BY <1>1, <1>3, <1>5 DEF WhereInv
<1>6. EndCycle \/ (run'.f = run.f /\ UNCHANGED todo /\ pc' \in {"reply", "withdrawn", "aborted"})
  <2>1. CASE Push
    BY <2>1 DEF Push, TypeInv, TypeOK, Run
  <2> QED
    BY <2>1 DEF EngageWorker, EngagePauses, EngageFails, PushRefused,
                NothingToPush, Withdraw, WithdrawFails, Goto
<1> QED
  BY <1>4, <1>5, <1>6

LEMMA WhereRecording ==
  ASSUME TypeInv, WhereInv, Recording PROVE WhereInv'
<1> USE DEF AtFix, AtEngage, AtSync, At
<1>1. /\ run.f \in Findings /\ row[run.f] \in Row /\ forge[run.f] \in PR
      /\ TypeOK /\ forge \in [Findings -> PR] /\ status \in [Findings -> Status]
      /\ forge[run.f].num \in 0..MaxPRs /\ status[run.f] = "pr_open"
  BY DEF Recording, Reply, ReplyFails, NoReply, Mark, MarkAborted, WithdrawnRow,
         WithdrawnFinding, TypeInv, TypeOK, Locals, PR, WhereInv
<1>2. CASE Reply
  <2>1. /\ \A g \in Findings \ {run.f} : forge'[g] = forge[g]
        /\ forge'[run.f] = Answered(forge[run.f])
    BY <1>1, <1>2 DEF Reply
  <2>2. Answered(forge[run.f]).num = forge[run.f].num
    BY <1>1 DEF Answered, PR
  <2>3. ClosedIsRecorded'
    BY <1>1, <1>2, <2>1, <2>2 DEF Reply, WhereInv, ClosedIsRecorded, db
  <2>4. run'.f = run.f
    BY <1>2 DEF Reply, TypeInv, TypeOK, Run
  <2> QED
    BY <1>1, <1>2, <2>3, <2>4 DEF Reply, WhereInv, db
<1>3. CASE ReplyFails
  BY <1>3, WhereEnded DEF ReplyFails, WhereInv, ClosedIsRecorded, db
<1>4. CASE NoReply
  BY <1>1, <1>4 DEF NoReply, WhereInv, ClosedIsRecorded, db, Goto
<1>5. CASE Mark \/ MarkAborted
  <2>1. UNCHANGED row \/ \E s, b, h : SetRow(run.f, MarkEngaged(row[run.f], s, b, h))
    BY <1>5 DEF Mark, MarkAborted
  <2>2. \A g \in Findings : Same(row'[g], row[g])
    <3>1. CASE UNCHANGED row
      BY <3>1 DEF Same
    <3>2. ASSUME NEW s, NEW b, NEW h, SetRow(run.f, MarkEngaged(row[run.f], s, b, h))
          PROVE  \A g \in Findings : Same(row'[g], row[g])
      BY <1>1, <3>2, MarkedSays, SettingSame
    <3> QED
      BY <2>1, <3>1, <3>2
  <2>3. ClosedIsRecorded'
    BY <1>5, <2>2, SameKeeps DEF Mark, MarkAborted, WhereInv
  <2> QED
    BY <1>5, <2>3, WhereEnded DEF Mark, MarkAborted
<1>6. CASE WithdrawnRow
  <2>1. \A g \in Findings \ {run.f} : row'[g] = row[g]
    BY <1>1, <1>6, OtherRows DEF WithdrawnRow
  <2>2. ClosedIsRecorded'
    BY <1>1, <1>6, <2>1 DEF WithdrawnRow, WhereInv, ClosedIsRecorded
  <2>3. CASE SetRow(run.f, Ended(row[run.f], forge[run.f].num, "CLOSED")) /\ Goto("verdict")
    <3>1. row'[run.f].state = "CLOSED" /\ row'[run.f].num = forge[run.f].num
      BY <1>1, <2>3, OtherRows, EndedSays DEF Renews
    <3> QED
      BY <1>1, <1>6, <2>2, <2>3, <3>1 DEF WithdrawnRow, WhereInv, Goto, Recorded
  <2> QED
    BY <1>6, <2>2, <2>3, WhereEnded DEF WithdrawnRow
<1>7. CASE WithdrawnFinding
  <2>1. ClosedIsRecorded'
    BY <1>1, <1>7 DEF WithdrawnFinding, WhereInv, ClosedIsRecorded, Recorded
  <2>2. CASE EndCycle
    BY <2>1, <2>2, WhereEnded
  <2>3. CASE pc' = "harvest" /\ UNCHANGED todo
    BY <1>7, <2>1, <2>3 DEF WithdrawnFinding, WhereInv
  <2> QED
    BY <1>7, <2>2, <2>3 DEF WithdrawnFinding
<1> QED
  BY <1>2, <1>3, <1>4, <1>5, <1>6, <1>7 DEF Recording

LEMMA WhereReview ==
  ASSUME TypeInv, WhereInv, HarvestWorker \/ Harvesting PROVE WhereInv'
<1> USE DEF AtFix, AtEngage, AtSync, At
<1>1. /\ run.f \in Findings /\ row[run.f] \in Row /\ TypeOK
      /\ row \in [Findings -> Row] /\ status \in [Findings -> Status]
  BY DEF HarvestWorker, HarvestPauses, HarvestFails, HarvestDone, Harvesting,
         CountHarvest, GiveUpPR, TypeInv, TypeOK, Locals
<1>2. CASE HarvestPauses
  BY <1>2, WhereEnded DEF HarvestPauses, WhereInv, ClosedIsRecorded
<1>3. CASE HarvestFails
  <2>1. ClosedIsRecorded'
    BY <1>3 DEF HarvestFails, WhereInv, ClosedIsRecorded, db
  <2> QED
    BY <1>3, <2>1, WhereEnded DEF HarvestFails, WhereInv
<1>4. \A r \in {Stamped(run.f), Streakless(row[run.f]), Streakless(Stamped(run.f))} :
        r.num = row[run.f].num /\ r.state = row[run.f].state
  BY <1>1, StampedSays, StreaklessSays, StampedStreaklessSays DEF Same
<1>5. ASSUME NEW r \in {Stamped(run.f), Streakless(row[run.f]), Streakless(Stamped(run.f))},
             SetRow(run.f, r)
      PROVE  \A g \in Findings : row'[g].num = row[g].num /\ row'[g].state = row[g].state
  BY <1>1, <1>4, <1>5, OtherRows
<1>6. CASE HarvestDone
  <2>1. \A g \in Findings : row'[g].num = row[g].num /\ row'[g].state = row[g].state
    BY <1>5, <1>6 DEF HarvestDone
  <2>2. \A g \in Findings : status'[g] = "closed" => status[g] = "closed"
    <3>1. ASSUME NEW to \in ClosedAs, status' = Classified(run.f, to)
          PROVE  \A g \in Findings : status'[g] = "closed" => status[g] = "closed"
      BY <1>1, <3>1 DEF Classified, ClosedAs
    <3> QED
      BY <1>6, <3>1 DEF HarvestDone
  <2>3. ClosedIsRecorded'
    BY <1>6, <2>1, <2>2 DEF HarvestDone, WhereInv, ClosedIsRecorded
  <2> QED
    BY <1>6, <2>3, WhereEnded DEF HarvestDone
<1>7. CASE CountHarvest
  <2>1. \A g \in Findings : Same(row'[g], row[g])
    <3>1. CASE SetRow(run.f, Counted(row[run.f], run.why))
      BY <1>1, <3>1, CountedSays, SettingSame
    <3>2. CASE UNCHANGED row
      BY <3>2 DEF Same
    <3> QED
      BY <1>7, <3>1, <3>2 DEF CountHarvest
  <2>2. ClosedIsRecorded'
    BY <1>7, <2>1, SameKeeps DEF CountHarvest, WhereInv
  <2>3. CASE EndCycle
    BY <2>2, <2>3, WhereEnded
  <2>4. CASE Goto("giveup")
    BY <1>7, <2>2, <2>4 DEF CountHarvest, WhereInv, Goto
  <2> QED
    BY <1>7, <2>3, <2>4 DEF CountHarvest
<1>8. CASE GiveUpPR
  <2>1. \A g \in Findings : row'[g].num = row[g].num /\ row'[g].state = row[g].state
    BY <1>5, <1>8 DEF GiveUpPR
  <2>2. ClosedIsRecorded'
    BY <1>8, <2>1 DEF GiveUpPR, WhereInv, ClosedIsRecorded
  <2> QED
    BY <1>8, <2>2, WhereEnded DEF GiveUpPR
<1> QED
  BY <1>2, <1>3, <1>6, <1>7, <1>8 DEF HarvestWorker, Harvesting

LEMMA WhereOperator ==
  ASSUME TypeInv, WhereInv, Operator PROVE WhereInv'
<1>1. ASSUME NEW f \in Findings, NEW from \in {"new", "settled", "closed", "queued"},
             NEW to \in {"queued", "settled", "new"}, Answer(f, from, to)
      PROVE  WhereInv'
  <2>1. status \in [Findings -> Status] /\ todo \subseteq Findings
    BY DEF TypeInv, TypeOK
  <2>2. \A g \in Findings : g # f => status'[g] = status[g]
    BY <1>1, <2>1 DEF Answer
  <2>3. status'[f] = to /\ status[f] \notin {"fixing", "pr_open", "merged"}
    BY <1>1, <2>1 DEF Answer
  <2>4. pc \in AtFix \cup AtEngage \cup {"sync_closed", "sync_merged"} => run.f \in Findings
    BY DEF AtFix, AtEngage, TypeInv, Locals
  <2>5. UNCHANGED <<row, forge, pc, run, todo>>
    BY <1>1 DEF Answer
  <2>6. ClosedIsRecorded'
    BY <2>2, <2>3, <2>5 DEF WhereInv, ClosedIsRecorded
  <2> QED
    BY <2>1, <2>2, <2>3, <2>4, <2>5, <2>6 DEF WhereInv, AtFix, AtEngage, AtSync, Recorded
<1> QED
  BY <1>1 DEF Operator, Verdict, Unqueue

LEMMA WhereForge ==
  ASSUME TypeInv, WhereInv, Forge PROVE WhereInv'
<1>1. forge \in [Findings -> PR]
  BY DEF TypeInv, TypeOK
<1>2. ASSUME NEW f \in Findings, NEW p, p.num = forge[f].num, Happens(f, p)
      PROVE  WhereInv'
  <2>1. \A g \in Findings : forge'[g].num = forge[g].num
    BY <1>1, <1>2 DEF Happens
  <2>2. UNCHANGED <<status, row, pc, run, todo>>
    BY <1>2 DEF Happens, db
  <2>3. ClosedIsRecorded'
    BY <2>1, <2>2 DEF WhereInv, ClosedIsRecorded
  <2>4. pc \in {"verdict", "sync_closed"} => run.f \in Findings
    BY DEF TypeInv, Locals
  <2> QED
    BY <2>1, <2>2, <2>3, <2>4 DEF WhereInv, AtFix, AtEngage, AtSync, Recorded
<1>3. ASSUME NEW f \in Findings
      PROVE  /\ \A s : [forge[f] EXCEPT !.state = s].num = forge[f].num
             /\ \A h, n, b : [forge[f] EXCEPT !.head = h, !.human = n, !.bad = b].num = forge[f].num
             /\ \A c : [forge[f] EXCEPT !.clock = c, !.latest = c].num = forge[f].num
             /\ \A b : [forge[f] EXCEPT !.bad = b].num = forge[f].num
  BY <1>1 DEF PR
<1>4. ASSUME NEW f \in Findings, Comment(f) PROVE WhereInv'
  BY <1>2, <1>3, <1>4 DEF Comment
<1>5. ASSUME NEW f \in Findings, ReviewerPush(f) PROVE WhereInv'
  <2>1. PICK bad \in BOOLEAN :
          Happens(f, [forge[f] EXCEPT !.head = forge[f].head + 1,
                                      !.human = forge[f].human + 1, !.bad = bad])
    BY <1>5 DEF ReviewerPush
  <2> DEFINE p == [forge[f] EXCEPT !.head = forge[f].head + 1,
                                   !.human = forge[f].human + 1, !.bad = bad]
  <2>2. p.num = forge[f].num
    BY <1>3
  <2>3. Happens(f, p)
    BY <2>1
  <2> HIDE DEF p
  <2> QED
    BY <1>2, <2>2, <2>3
<1>6. ASSUME NEW f \in Findings, Rated(f) PROVE WhereInv'
  BY <1>2, <1>3, <1>6 DEF Rated
<1>7. ASSUME NEW f \in Findings, Merge(f) \/ Reject(f) \/ Reopen(f) PROVE WhereInv'
  BY <1>2, <1>3, <1>7 DEF Merge, Reject, Reopen
<1> QED
  BY <1>4, <1>5, <1>6, <1>7 DEF Forge

LEMMA WhereNext ==
  ASSUME TypeInv, WhereInv, [Next]_vars PROVE WhereInv'
<1>1. CASE Skip
  BY <1>1, WhereEnded DEF Skip, WhereInv, ClosedIsRecorded, db
<1>2. CASE Crash
  BY <1>2, WhereEnded DEF Crash, WhereInv, ClosedIsRecorded
<1>3. CASE UNCHANGED vars
  BY <1>3 DEF vars, db, WhereInv, ClosedIsRecorded, AtFix, AtEngage, AtSync, Recorded
<1> QED
  BY <1>1, <1>2, <1>3, WhereSweep, WhereSync, WhereFix, WhereStarts, WhereEngageWorker,
     WhereRecording, WhereReview, WhereOperator, WhereForge
     DEF Next, Scheduler

(* A finding leaves pr_open for closed only with the closure of that PR     *)
(* recorded, whatever write failed and wherever the daemon died, so that    *)
(* the harvest finds it (sync_prs, withdraw_pr, list_pending_harvest).      *)
THEOREM ClosuresAreRecorded == Spec => []ClosedIsRecorded
<1>1. Init => TypeInv /\ WhereInv
  BY TypeInit, WhereInit
<1>2. (TypeInv /\ WhereInv) /\ [Next]_vars => (TypeInv /\ WhereInv)'
  BY TypeNext, WhereNext
<1>3. TypeInv /\ WhereInv => ClosedIsRecorded
  BY DEF WhereInv
<1> QED
  BY <1>1, <1>2, <1>3, PTL DEF Spec

(* What the operator decided on a closed finding stays: neither the harvest *)
(* that was running nor a sync writes over it, and nothing but a fix takes  *)
(* up what is queued (record_closed_harvest, sync_prs, ship_pr).            *)
THEOREM VerdictsStay == Spec => OperatorVerdictKept
<1> DEFINE Kept(f) ==
      status'[f] # status[f] /\ verdicts' = verdicts
        => \/ status[f] \in {"pr_open", "closed", "fixing"}
           \/ status[f] = "queued" /\ status'[f] = "fixing"
<1>1. Init => TypeInv /\ WhereInv
  BY TypeInit, WhereInit
<1>2. (TypeInv /\ WhereInv) /\ [Next]_vars => (TypeInv /\ WhereInv)'
  BY TypeNext, WhereNext
<1>3. ASSUME TypeInv, WhereInv, Next, NEW f \in Findings PROVE Kept(f)
  <2> status \in [Findings -> Status]
    BY <1>3 DEF TypeInv, TypeOK
  <2>1. CASE Sweep
    BY <1>3, <2>1 DEF Sweep
  <2>2. CASE Sync
    <3>1. ASSUME NEW g \in Findings, SyncMergedFinding(g) PROVE Kept(f)
      BY <1>3, <3>1 DEF SyncMergedFinding, WhereInv, At
    <3>2. CASE SyncClosedFinding
      BY <1>3, <3>2 DEF SyncClosedFinding, WhereInv, At, AtEngage
    <3> QED
      BY <1>3, <2>2, <3>1, <3>2 DEF Sync, SyncOpen, SyncMergedRow, SyncClosedRow, SyncDone, db
  <2>3. CASE Fix
    <3>1. ASSUME NEW g \in Findings, StartFix(g) PROVE Kept(f)
      BY <1>3, <3>1 DEF StartFix
    <3>2. CASE ShipFails \/ Shipped
      BY <1>3, <3>2 DEF ShipFails, Shipped, Released, WhereInv, At, AtFix
    <3> QED
      BY <1>3, <2>3, <3>1, <3>2 DEF Fix, ShipPush, CreatePR, db
  <2>4. CASE Recording
    <3>1. CASE WithdrawnFinding
      BY <1>3, <3>1 DEF WithdrawnFinding, WhereInv, At, AtEngage
    <3> QED
      BY <1>3, <2>4, <3>1 DEF Recording, Reply, ReplyFails, NoReply, Mark, MarkAborted,
                        WithdrawnRow, db
  <2>5. CASE HarvestWorker
    <3>1. ASSUME NEW to, status' = Classified(run.f, to) PROVE Kept(f)
      BY <1>3, <3>1 DEF Classified
    <3> QED
      BY <1>3, <2>5, <3>1 DEF HarvestWorker, HarvestPauses, HarvestFails, HarvestDone, db
  <2>6. CASE Operator
    BY <1>3, <2>6 DEF Operator, Verdict, Unqueue, Answer, TypeInv, TypeOK
  <2>7. ASSUME NEW g \in Findings, StartOn(g) \/ ReviewOf(g) PROVE UNCHANGED status
    BY <1>3, <2>7 DEF StartOn, StartEngage, GiveUpEngage, ReviewOf, StartHarvest,
                HarvestNotStarted, GiveUpHarvest, db
  <2>8. CASE EngageWorker \/ Harvesting \/ Skip
    BY <1>3, <2>8 DEF EngageWorker, EngagePauses, EngageFails, Push, PushRefused, NothingToPush,
                Withdraw, WithdrawFails, Harvesting, CountHarvest, GiveUpPR, Skip, db
  <2>9. CASE Forge \/ Crash
    BY <1>3, <2>9 DEF Forge, Comment, ReviewerPush, Rated, Merge, Reject, Reopen, Happens, Crash, db
  <2> HIDE DEF Kept
  <2>10. UNCHANGED status => Kept(f)
    BY DEF Kept
  <2> QED
    BY <1>3, <2>1, <2>2, <2>3, <2>4, <2>5, <2>6, <2>7, <2>8, <2>9, <2>10
       DEF Next, Scheduler
<1>4. (TypeInv /\ WhereInv) /\ [Next]_vars => [\A f \in Findings : Kept(f)]_vars
  BY <1>3
<1> QED
  BY <1>1, <1>2, <1>4, PTL DEF Spec, OperatorVerdictKept

-----------------------------------------------------------------------------
(* What a step may make of a PR.  Its number and its head only grow, and a   *)
(* PR the forge has has a number.                                            *)

Moved(p, q) ==
  /\ q.num >= p.num
  /\ q.head > p.head \/ (q.head = p.head /\ q.human = p.human)
  /\ q.state # "none" => q.num # 0

(* ... and, unless a fix ships over it, it keeps the commits of reviewers. *)
Grows(p, q) == q.human >= p.human

(* The numbers PRs have before and after a finding is said to have one. *)
KnownInv ==
  /\ \A f \in Findings : forge[f].state # "none" => forge[f].num # 0
  /\ \A f \in Findings : status[f] \in {"pr_open", "merged"} => forge[f].num # 0
  /\ pc = "shipped" => forge[run.f].num # 0

(* What the lease is for: a tree that may be pushed has what reviewers pushed. *)
Holds(base, human, p) == base <= p.head /\ (base = p.head => p.human <= human)

LeaseInv ==
  /\ pc = "engage" => Holds(run.base, run.human, forge[run.f])
  /\ \A f \in Findings : paused[f].kind = "engage"
                           => Holds(paused[f].base, paused[f].human, forge[f])

ForgeInv == TypeInv /\ WhereInv /\ KnownInv /\ LeaseInv

LEMMA MovedSame ==
  ASSUME NEW p \in PR, p.state # "none" => p.num # 0
  PROVE  Moved(p, p) /\ Grows(p, p)
BY DEF Moved, Grows, PR, Heads

(* One PR is replaced, the others stay. *)
LEMMA OnePR ==
  ASSUME TypeOK, KnownInv, NEW f \in Findings, NEW p, forge' = [forge EXCEPT ![f] = p],
         Moved(forge[f], p)
  PROVE  \A g \in Findings : /\ Moved(forge[g], forge'[g])
                             /\ g # f \/ Grows(forge[f], p) => Grows(forge[g], forge'[g])
<1>1. \A g \in Findings : forge[g] \in PR /\ (forge[g].state # "none" => forge[g].num # 0)
  BY DEF TypeOK, KnownInv
<1>2. forge'[f] = p /\ \A g \in Findings \ {f} : forge'[g] = forge[g]
  BY DEF TypeOK
<1> QED
  BY <1>1, <1>2, MovedSame

LEMMA NoPRMoves ==
  ASSUME TypeOK, KnownInv, UNCHANGED forge
  PROVE  \A g \in Findings : Moved(forge[g], forge'[g]) /\ Grows(forge[g], forge'[g])
<1>1. \A g \in Findings : forge[g] \in PR /\ (forge[g].state # "none" => forge[g].num # 0)
  BY DEF TypeOK, KnownInv
<1> QED
  BY <1>1, MovedSame

LEMMA ClosingMoves ==
  ASSUME NEW p \in PR, p.num # 0, NEW q \in {p, Answered(p)}
  PROVE  /\ Moved(p, q) /\ Grows(p, q)
         /\ Moved(p, [q EXCEPT !.state = "CLOSED"]) /\ Grows(p, [q EXCEPT !.state = "CLOSED"])
<1> DEFINE c == [q EXCEPT !.state = "CLOSED"]
<1>1. q.num = p.num /\ q.head = p.head /\ q.human = p.human
  BY DEF Answered, PR
<1>2. c.num = q.num /\ c.head = q.head /\ c.human = q.human
  BY DEF Answered, PR
<1> HIDE DEF c
<1>3. Moved(p, q) /\ Grows(p, q) /\ Moved(p, c) /\ Grows(p, c)
  BY <1>1, <1>2 DEF Moved, Grows, PR, Heads
<1> QED
  BY <1>3 DEF c

LEMMA EngageMoves ==
  ASSUME ForgeInv, EngageWorker \/ Recording
  PROVE  \A f \in Findings : Moved(forge[f], forge'[f]) /\ Grows(forge[f], forge'[f])
<1>1. /\ TypeOK /\ KnownInv /\ run.f \in Findings /\ forge[run.f] \in PR
      /\ forge[run.f].num # 0 /\ run \in Run
  BY DEF ForgeInv, TypeInv, TypeOK, Locals, WhereInv, KnownInv, At, AtEngage,
         EngageWorker, EngagePauses, EngageFails, Push, PushRefused, NothingToPush,
         Withdraw, WithdrawFails, Recording, Reply, ReplyFails, NoReply, Mark,
         MarkAborted, WithdrawnRow, WithdrawnFinding
<1>2. CASE Push
  <2>1. PICK bad \in BOOLEAN :
          forge' = [forge EXCEPT ![run.f] =
                      [forge[run.f] EXCEPT !.head = forge[run.f].head + 1,
                                           !.human = run.human, !.bad = bad]]
    BY <1>2 DEF Push
  <2> DEFINE p == [forge[run.f] EXCEPT !.head = forge[run.f].head + 1,
                                       !.human = run.human, !.bad = bad]
  <2>2. forge[run.f].human <= run.human
    BY <1>2 DEF Push, LeaseHolds, ForgeInv, LeaseInv, Holds, At
  <2>3. /\ p.num = forge[run.f].num /\ p.head = forge[run.f].head + 1
        /\ p.human = run.human
    BY <1>1 DEF PR
  <2> HIDE DEF p
  <2>4. Moved(forge[run.f], p) /\ Grows(forge[run.f], p)
    BY <1>1, <2>2, <2>3 DEF Moved, Grows, PR, Heads, Run
  <2> QED
    BY <1>1, <2>1, <2>4, OnePR DEF p
<1>3. ASSUME NEW closed \in BOOLEAN, CloseRun(closed)
      PROVE  \A f \in Findings : Moved(forge[f], forge'[f]) /\ Grows(forge[f], forge'[f])
  <2>1. PICK q \in {forge[run.f], Answered(forge[run.f])} :
          forge' = [forge EXCEPT ![run.f] =
                      IF closed THEN [q EXCEPT !.state = "CLOSED"] ELSE q]
    BY <1>3 DEF CloseRun
  <2> DEFINE p == IF closed THEN [q EXCEPT !.state = "CLOSED"] ELSE q
  <2>2. Moved(forge[run.f], p) /\ Grows(forge[run.f], p)
    BY <1>1, ClosingMoves
  <2>3. forge' = [forge EXCEPT ![run.f] = p]
    BY <2>1
  <2> HIDE DEF p
  <2> QED
    BY <1>1, <2>2, <2>3, OnePR
<1>4. CASE Reply
  BY <1>1, <1>4, ClosingMoves, OnePR DEF Reply
<1>5. CASE UNCHANGED forge
  BY <1>1, <1>5, NoPRMoves
<1> QED
  BY <1>2, <1>3, <1>4, <1>5
     DEF EngageWorker, EngagePauses, EngageFails, PushRefused, NothingToPush, Withdraw,
         WithdrawFails, Recording, ReplyFails, NoReply, Mark, MarkAborted, WithdrawnRow,
         WithdrawnFinding

LEMMA ShipMoves ==
  ASSUME ForgeInv, ShipPush \/ CreatePR
  PROVE  /\ \A f \in Findings : /\ Moved(forge[f], forge'[f])
                                /\ f # run.f => Grows(forge[f], forge'[f])
         /\ CreatePR => forge'[run.f].num # 0
<1>1. TypeOK /\ KnownInv /\ run.f \in Findings /\ forge[run.f] \in PR
  BY DEF ForgeInv, TypeInv, TypeOK, Locals, ShipPush, CreatePR, At
<1>2. CASE ShipPush
  <2>1. PICK bad \in BOOLEAN :
          forge' = [forge EXCEPT ![run.f] =
                      [forge[run.f] EXCEPT !.head = forge[run.f].head + 1, !.human = 0,
                                           !.bad = bad]]
    BY <1>2 DEF ShipPush
  <2> DEFINE p == [forge[run.f] EXCEPT !.head = forge[run.f].head + 1, !.human = 0,
                                       !.bad = bad]
  <2>2. /\ p.num = forge[run.f].num /\ p.head = forge[run.f].head + 1
        /\ p.state = forge[run.f].state
    BY <1>1 DEF PR
  <2> HIDE DEF p
  <2>3. Moved(forge[run.f], p)
    BY <1>1, <2>2 DEF Moved, PR, Heads, KnownInv
  <2>4. ~CreatePR
    BY <1>2 DEF ShipPush, CreatePR, At
  <2> QED
    BY <1>1, <2>1, <2>3, <2>4, OnePR DEF p
<1>3. CASE UNCHANGED forge /\ forge[run.f].state = "OPEN"
  BY <1>1, <1>3, NoPRMoves DEF KnownInv
<1>4. ASSUME forge' = [forge EXCEPT ![run.f] =
               [forge[run.f] EXCEPT !.num = forge[run.f].num + 1, !.state = "OPEN",
                                    !.clock = forge[run.f].clock + 1, !.latest = 0]]
      PROVE  /\ \A f \in Findings : /\ Moved(forge[f], forge'[f])
                                    /\ f # run.f => Grows(forge[f], forge'[f])
             /\ forge'[run.f].num # 0
  <2> DEFINE p == [forge[run.f] EXCEPT !.num = forge[run.f].num + 1, !.state = "OPEN",
                     !.clock = forge[run.f].clock + 1, !.latest = 0]
  <2>1. /\ p.num = forge[run.f].num + 1 /\ p.head = forge[run.f].head
        /\ p.human = forge[run.f].human
    BY <1>1 DEF PR
  <2>2. forge' = [forge EXCEPT ![run.f] = p]
    BY <1>4
  <2> HIDE DEF p
  <2>3. Moved(forge[run.f], p) /\ p.num # 0
    BY <1>1, <2>1 DEF Moved, PR, Heads
  <2>4. forge'[run.f] = p
    BY <1>1, <2>2 DEF TypeOK
  <2> QED
    BY <1>1, <2>2, <2>3, <2>4, OnePR
<1> QED
  BY <1>2, <1>3, <1>4 DEF CreatePR

LEMMA ReviewerMoves ==
  ASSUME ForgeInv, Forge
  PROVE  \A f \in Findings : Moved(forge[f], forge'[f]) /\ Grows(forge[f], forge'[f])
<1>1. TypeOK /\ KnownInv /\ \A f \in Findings : forge[f] \in PR
  BY DEF ForgeInv, TypeInv, TypeOK
<1>2. ASSUME NEW f \in Findings, NEW p, Happens(f, p), forge[f].num # 0, p.num = forge[f].num,
             \/ p.head = forge[f].head /\ p.human = forge[f].human
             \/ p.head = forge[f].head + 1 /\ p.human = forge[f].human + 1
      PROVE  \A g \in Findings : Moved(forge[g], forge'[g]) /\ Grows(forge[g], forge'[g])
  <2>1. Moved(forge[f], p) /\ Grows(forge[f], p)
    BY <1>1, <1>2 DEF Moved, Grows, PR, Heads
  <2> QED
    BY <1>1, <1>2, <2>1, OnePR DEF Happens
<1>3. ASSUME NEW f \in Findings, forge[f].state # "none" PROVE forge[f].num # 0
  BY <1>1, <1>3 DEF KnownInv
<1>4. ASSUME NEW f \in Findings, Comment(f)
      PROVE  \A g \in Findings : Moved(forge[g], forge'[g]) /\ Grows(forge[g], forge'[g])
  <2> DEFINE now == forge[f].clock + 1
             p   == [forge[f] EXCEPT !.clock = now, !.latest = now]
  <2>1. p.num = forge[f].num /\ p.head = forge[f].head /\ p.human = forge[f].human
    BY <1>1 DEF PR
  <2>2. Happens(f, p) /\ forge[f].state # "none"
    BY <1>4 DEF Comment
  <2> HIDE DEF p
  <2> QED
    BY <1>2, <1>3, <2>1, <2>2
<1>5. ASSUME NEW f \in Findings, ReviewerPush(f)
      PROVE  \A g \in Findings : Moved(forge[g], forge'[g]) /\ Grows(forge[g], forge'[g])
  <2>1. PICK bad \in BOOLEAN :
          Happens(f, [forge[f] EXCEPT !.head = forge[f].head + 1,
                                      !.human = forge[f].human + 1, !.bad = bad])
    BY <1>5 DEF ReviewerPush
  <2> DEFINE p == [forge[f] EXCEPT !.head = forge[f].head + 1,
                                   !.human = forge[f].human + 1, !.bad = bad]
  <2>2. /\ p.num = forge[f].num /\ p.head = forge[f].head + 1
        /\ p.human = forge[f].human + 1
    BY <1>1 DEF PR
  <2>3. Happens(f, p) /\ forge[f].state # "none"
    BY <1>5, <2>1 DEF ReviewerPush
  <2> HIDE DEF p
  <2> QED
    BY <1>2, <1>3, <2>2, <2>3
<1>6. ASSUME NEW f \in Findings, Rated(f)
      PROVE  \A g \in Findings : Moved(forge[g], forge'[g]) /\ Grows(forge[g], forge'[g])
  <2> DEFINE p == [forge[f] EXCEPT !.bad = ~@]
  <2>1. p.num = forge[f].num /\ p.head = forge[f].head /\ p.human = forge[f].human
    BY <1>1 DEF PR
  <2>2. Happens(f, p) /\ forge[f].state # "none"
    BY <1>6 DEF Rated
  <2> HIDE DEF p
  <2> QED
    BY <1>2, <1>3, <2>1, <2>2
<1>7. ASSUME NEW f \in Findings, Merge(f) \/ Reject(f) \/ Reopen(f)
      PROVE  \A g \in Findings : Moved(forge[g], forge'[g]) /\ Grows(forge[g], forge'[g])
  <2>1. PICK s \in {"OPEN", "CLOSED", "MERGED"} :
          Happens(f, [forge[f] EXCEPT !.state = s]) /\ forge[f].state # "none"
    BY <1>7 DEF Merge, Reject, Reopen
  <2> DEFINE p == [forge[f] EXCEPT !.state = s]
  <2>2. p.num = forge[f].num /\ p.head = forge[f].head /\ p.human = forge[f].human
    BY <1>1 DEF PR
  <2> HIDE DEF p
  <2> QED
    BY <1>2, <1>3, <2>1, <2>2 DEF p
<1> QED
  BY <1>4, <1>5, <1>6, <1>7 DEF Forge

LEMMA ForgeMoves ==
  ASSUME ForgeInv, [Next]_vars
  PROVE  \A f \in Findings : /\ Moved(forge[f], forge'[f])
                             /\ status[f] = "pr_open" => Grows(forge[f], forge'[f])
<1>1. ASSUME UNCHANGED forge
      PROVE  \A f \in Findings : Moved(forge[f], forge'[f]) /\ Grows(forge[f], forge'[f])
  BY <1>1, NoPRMoves DEF ForgeInv, TypeInv
<1>2. CASE Sync \/ Sweep \/ Skip \/ HarvestWorker \/ Harvesting
  BY <1>1, <1>2 DEF Sync, SyncOpen, SyncMergedFinding, SyncMergedRow, SyncClosedRow,
       SyncClosedFinding, SyncDone, Sweep, Skip, HarvestWorker, HarvestPauses, HarvestFails,
       HarvestDone, Harvesting, CountHarvest, GiveUpPR
<1>3. CASE \E f \in Findings : StartOn(f) \/ ReviewOf(f)
  BY <1>1, <1>3 DEF StartOn, StartEngage, GiveUpEngage, ReviewOf, StartHarvest,
       HarvestNotStarted, GiveUpHarvest
<1>4. CASE Fix
  <2>1. CASE ShipPush \/ CreatePR
    <3>1. status[run.f] # "pr_open"
      BY <2>1 DEF ForgeInv, WhereInv, AtFix, At, ShipPush, CreatePR
    <3> QED
      BY <2>1, <3>1, ShipMoves
  <2> QED
    BY <1>1, <1>4, <2>1 DEF Fix, StartFix, ShipFails, Shipped
<1>5. CASE Operator \/ Crash \/ UNCHANGED vars
  BY <1>1, <1>5 DEF Operator, Verdict, Unqueue, Answer, Crash, vars
<1> QED
  BY <1>2, <1>3, <1>4, <1>5, EngageMoves, ReviewerMoves DEF Next, Scheduler

-----------------------------------------------------------------------------
(* KnownInv and LeaseInv are inductive. *)

LEMMA ForgeInit == Init => ForgeInv
<1>1. Init => KnownInv /\ LeaseInv
  BY DEF Init, KnownInv, LeaseInv, NoPR, NoPause
<1> QED
  BY <1>1, TypeInit, WhereInit DEF ForgeInv

LEMMA KnownNext ==
  ASSUME ForgeInv, [Next]_vars PROVE KnownInv'
<1> USE DEF KnownInv
<1>1. /\ status \in [Findings -> Status] /\ forge \in [Findings -> PR]
      /\ todo \subseteq Findings /\ KnownInv /\ WhereInv /\ TypeInv
  BY DEF ForgeInv, TypeInv, TypeOK
<1>2. \A f \in Findings : /\ forge'[f].state # "none" => forge'[f].num # 0
                          /\ forge[f].num # 0 => forge'[f].num # 0
  BY <1>1, ForgeMoves DEF Moved, PR
<1>3. ASSUME \A f \in Findings : status'[f] \in {"pr_open", "merged"}
               => status[f] \in {"pr_open", "merged"},
             pc' = "shipped" => CreatePR \/ (pc = "shipped" /\ run' = run)
      PROVE  KnownInv'
  <2>1. pc = "shipped" => run.f \in Findings
    BY <1>1 DEF TypeInv, Locals
  <2>2. CreatePR => forge'[run.f].num # 0 /\ run' = run
    BY ShipMoves DEF CreatePR, Goto
  <2> QED
    BY <1>1, <1>2, <1>3, <2>1, <2>2
<1>4. ASSUME NEW f \in Findings, SyncMergedFinding(f) PROVE KnownInv'
  <2>1. status[f] = "pr_open"
    BY <1>1, <1>4 DEF SyncMergedFinding, WhereInv, At
  <2> QED
    BY <1>1, <1>3, <1>4, <2>1 DEF SyncMergedFinding
<1>5. CASE Shipped
  <2>1. run.f \in Findings /\ forge[run.f].num # 0 /\ pc' = "sweep"
    BY <1>1, <1>5 DEF Shipped, At, TypeInv, Locals, EndCycle
  <2>2. \A f \in Findings : status'[f] = status[f] \/ f = run.f
    BY <1>1, <1>5 DEF Shipped, Released
  <2> QED
    BY <1>1, <1>2, <2>1, <2>2
<1>6. CASE Sync
  <2>1. CASE SyncClosedFinding
    BY <1>1, <1>3, <2>1 DEF SyncClosedFinding
  <2>2. ASSUME UNCHANGED status, pc' \in AtSync \cup {"select"} PROVE KnownInv'
    BY <1>3, <2>2 DEF AtSync
  <2> QED
    BY <1>4, <1>6, <2>1, <2>2
       DEF Sync, SyncOpen, SyncMergedRow, SyncClosedRow, SyncDone, db, At, Goto, AtSync
<1>7. CASE Sweep
  BY <1>1, <1>3, <1>7 DEF Sweep
<1>8. CASE Fix
  <2>1. ASSUME NEW f \in Findings, StartFix(f) PROVE KnownInv'
    BY <1>1, <1>3, <2>1 DEF StartFix
  <2>2. CASE ShipPush \/ CreatePR
    BY <1>3, <2>2 DEF ShipPush, CreatePR, db, Goto
  <2>3. CASE ShipFails
    BY <1>1, <1>3, <2>3 DEF ShipFails, Released, EndCycle
  <2> QED
    BY <1>5, <1>8, <2>1, <2>2, <2>3 DEF Fix
<1>9. CASE \E f \in Findings : StartOn(f) \/ ReviewOf(f)
  BY <1>3, <1>9 DEF StartOn, StartEngage, GiveUpEngage, ReviewOf, StartHarvest, At,
       HarvestNotStarted, GiveUpHarvest, db
<1>10. CASE EngageWorker
  BY <1>3, <1>10 DEF EngageWorker, EngagePauses, EngageFails, Push, PushRefused,
       NothingToPush, Withdraw, WithdrawFails, db, Goto, EndCycle
<1>11. CASE Recording
  <2>1. CASE WithdrawnFinding
    BY <1>1, <1>3, <2>1 DEF WithdrawnFinding, EndCycle
  <2> QED
    BY <1>3, <1>11, <2>1 DEF Recording, Reply, ReplyFails, NoReply, Mark, MarkAborted,
         WithdrawnRow, db, Goto, EndCycle
<1>12. CASE HarvestWorker
  <2>1. ASSUME NEW to \in ClosedAs, status' = Classified(run.f, to), pc' = "sweep"
        PROVE  KnownInv'
    BY <1>1, <1>3, <2>1 DEF Classified, ClosedAs
  <2> QED
    BY <1>3, <1>12, <2>1 DEF HarvestWorker, HarvestPauses, HarvestFails, HarvestDone, db, EndCycle
<1>13. CASE Harvesting \/ Skip \/ Crash
  BY <1>3, <1>13 DEF Harvesting, CountHarvest, GiveUpPR, Skip, Crash, db, Goto, EndCycle
<1>14. CASE Operator
  <2>1. ASSUME NEW f \in Findings, NEW from, NEW to \in {"queued", "settled", "new"},
               Answer(f, from, to)
        PROVE  KnownInv'
    BY <1>1, <1>3, <2>1 DEF Answer
  <2> QED
    BY <1>14, <2>1 DEF Operator, Verdict, Unqueue
<1>15. CASE Forge
  BY <1>3, <1>15 DEF Forge, Comment, ReviewerPush, Rated, Merge, Reject, Reopen, Happens, db
<1>16. CASE UNCHANGED vars
  BY <1>3, <1>16 DEF vars, db
<1> QED
  BY <1>6, <1>7, <1>8, <1>9, <1>10, <1>11, <1>12, <1>13, <1>14, <1>15, <1>16
     DEF Next, Scheduler

LEMMA LeaseNext ==
  ASSUME ForgeInv, [Next]_vars PROVE LeaseInv'
<1>1. /\ forge \in [Findings -> PR] /\ paused \in [Findings -> Pause] /\ run \in Run
      /\ LeaseInv /\ TypeInv /\ (pc = "engage" => run.f \in Findings)
  BY DEF ForgeInv, TypeInv, TypeOK, Locals
<1>2. ASSUME NEW f \in Findings, NEW base \in Heads, NEW human, Holds(base, human, forge[f])
      PROVE  Holds(base, human, forge'[f])
  <2>1. Moved(forge[f], forge'[f]) /\ forge'[f] \in PR /\ forge[f] \in PR
    BY <1>1, ForgeMoves, TypeNext DEF ForgeInv, TypeInv, TypeOK
  <2> QED
    BY <1>2, <2>1 DEF Holds, Moved, PR, Heads
<1>3. \A f \in Findings : paused[f].base \in Heads
  BY <1>1 DEF Pause
<1>4. run.base \in Heads
  BY <1>1 DEF Run
<1>5. ASSUME \A f \in Findings : paused'[f].kind = "engage" => paused'[f] = paused[f],
             pc' = "engage" => pc = "engage" /\ run' = run
      PROVE  LeaseInv'
  BY <1>1, <1>2, <1>3, <1>4, <1>5 DEF LeaseInv
<1>6. ASSUME NEW f \in Findings, StartEngage(f) PROVE LeaseInv'
  <2> DEFINE resume == paused[f].kind = "engage"
  <2>1. UNCHANGED forge /\ \A g \in Findings \ {f} : paused'[g] = paused[g]
    BY <1>1, <1>6 DEF StartEngage
  <2>2. paused'[f].kind = "none"
    BY <1>1, <1>6 DEF StartEngage, NoPause
  <2>3. /\ run'.f = f
        /\ run'.base = IF resume THEN paused[f].base ELSE forge[f].head
        /\ run'.human = IF resume THEN paused[f].human ELSE forge[f].human
    BY <1>6 DEF StartEngage, NoRun
  <2>4. Holds(run'.base, run'.human, forge[f])
    <3>1. CASE resume
      BY <1>1, <2>3, <3>1 DEF LeaseInv
    <3>2. CASE ~resume
      <4>1. forge[f].head \in Nat /\ forge[f].human \in Nat
        BY <1>1 DEF PR, Heads
      <4> QED
        BY <2>3, <3>2, <4>1 DEF Holds
    <3> QED
      BY <3>1, <3>2
  <2> QED
    BY <1>1, <2>1, <2>2, <2>3, <2>4 DEF LeaseInv
<1>7. ASSUME At("engage"), Paused("engage"), pc' = "sweep" PROVE LeaseInv'
  <2>1. run.f \in Findings /\ Holds(run.base, run.human, forge[run.f])
    BY <1>1, <1>7 DEF LeaseInv, At
  <2>2. /\ \A g \in Findings \ {run.f} : paused'[g] = paused[g]
        /\ paused'[run.f].base = run.base /\ paused'[run.f].human = run.human
    BY <1>1, <1>7, <2>1 DEF Paused
  <2> QED
    BY <1>1, <1>2, <1>3, <1>4, <1>7, <2>1, <2>2 DEF LeaseInv
<1>8. ASSUME Paused("harvest"), pc' = "sweep" PROVE LeaseInv'
  <2>1. \A g \in Findings : paused'[g] = paused[g] \/ paused'[g].kind = "harvest"
    BY <1>1, <1>8 DEF Paused
  <2> QED
    BY <1>5, <1>8, <2>1
<1>9. ASSUME NEW f \in Findings, paused' = [paused EXCEPT ![f] = NoPause], pc' # "engage"
      PROVE  LeaseInv'
  <2>1. \A g \in Findings : paused'[g] = paused[g] \/ paused'[g].kind = "none"
    BY <1>1, <1>9 DEF NoPause
  <2> QED
    BY <1>5, <1>9, <2>1
<1>10. CASE Sweep
  BY <1>1, <1>5, <1>10 DEF Sweep, NoPause
<1>11. CASE Sync \/ Fix \/ Skip \/ Harvesting \/ Recording
  BY <1>5, <1>11 DEF Sync, SyncOpen, SyncMergedFinding, SyncMergedRow, SyncClosedRow,
       SyncClosedFinding, SyncDone, Fix, StartFix, ShipPush, CreatePR, ShipFails, Shipped, Skip,
       Harvesting, CountHarvest, GiveUpPR, Recording, Reply, ReplyFails, NoReply, Mark,
       MarkAborted, WithdrawnRow, WithdrawnFinding, db, Goto, EndCycle, At
<1>12. ASSUME NEW f \in Findings, StartOn(f) \/ ReviewOf(f) PROVE LeaseInv'
  BY <1>5, <1>6, <1>9, <1>12 DEF StartOn, GiveUpEngage, ReviewOf, StartHarvest,
       HarvestNotStarted, GiveUpHarvest, db, At
<1>13. CASE EngageWorker
  BY <1>5, <1>7, <1>13 DEF EngageWorker, EngagePauses, EngageFails, Push, PushRefused,
       NothingToPush, Withdraw, WithdrawFails, db, Goto, EndCycle
<1>14. CASE HarvestWorker
  BY <1>5, <1>8, <1>14 DEF HarvestWorker, HarvestPauses, HarvestFails, HarvestDone, db, EndCycle
<1>15. CASE Crash
  BY <1>5, <1>7, <1>8, <1>15 DEF Crash, EndCycle
<1>16. CASE Operator \/ Forge \/ UNCHANGED vars
  BY <1>5, <1>16 DEF Operator, Verdict, Unqueue, Answer, Forge, Comment, ReviewerPush, Rated,
       Merge, Reject, Reopen, Happens, vars, db
<1> QED
  BY <1>10, <1>11, <1>12, <1>13, <1>14, <1>15, <1>16 DEF Next, Scheduler

LEMMA ForgeNext ==
  ASSUME ForgeInv, [Next]_vars PROVE ForgeInv'
BY TypeNext, WhereNext, KnownNext, LeaseNext DEF ForgeInv

(* While a finding is pr_open its branch loses no commit of a reviewer: what *)
(* an engage pushes has them all, however long its worker ran or was         *)
(* suspended (push_and_reply, the lease on the pinned head).  The unleased   *)
(* push of a fix that ships again comes at another status, and after it the  *)
(* lease of an older tree does not hold.                                     *)
THEOREM ReviewersAreKept == Spec => ReviewersCommitsKept
<1> DEFINE Kept == \A f \in Findings :
                     status[f] = "pr_open" => forge'[f].human >= forge[f].human
<1>1. Init => ForgeInv
  BY ForgeInit
<1>2. ForgeInv /\ [Next]_vars => ForgeInv'
  BY ForgeNext
<1>3. ForgeInv /\ [Next]_vars => [Kept]_vars
  BY ForgeMoves DEF Grows
<1> QED
  BY <1>1, <1>2, <1>3, PTL DEF Spec, ReviewersCommitsKept

-----------------------------------------------------------------------------
(* The numbers of the PRs a finding had: those that were reviewed, the one  *)
(* its row is about, and the newest one of the forge, in this order.  So a  *)
(* row that goes over to another PR goes over to one not reviewed yet.      *)

Numbered(f) ==
  /\ row[f].num <= forge[f].num
  /\ row[f].state # "none" => row[f].num # 0
  /\ paused[f].kind = "harvest" => row[f].num # 0
  /\ \A n \in reviewed[f] : n # 0 /\ n <= row[f].num
  /\ row[f].harvested <=> row[f].num \in reviewed[f]

AtReview == {"harvest", "count", "giveup"}

NumberInv ==
  /\ \A f \in Findings : Numbered(f)
  /\ pc \in AtReview => row[run.f].num # 0

LEMMA NumberInit == Init => NumberInv
BY PRLifecycleAssumption
   DEF Init, NumberInv, Numbered, AtReview, NoRow, NoPR, NoPause

LEMMA RenewNumbers ==
  ASSUME TypeInv, TypeInv', NEW f \in Findings, Numbered(f), forge[f].num # 0,
         row'[f].state # "none" \/ row'[f].state = row[f].state,
         Renews(row'[f], row[f], forge[f].num), UNCHANGED <<forge, reviewed>>,
         paused'[f].kind = paused[f].kind
  PROVE  Numbered(f)' /\ row'[f].num # 0
<1>1. /\ row[f] \in Row /\ row'[f] \in Row /\ forge[f] \in PR
      /\ reviewed[f] \in SUBSET (0..MaxPRs)
  BY DEF TypeInv, TypeOK
<1>2. row[f].num \in Nat /\ forge[f].num \in Nat /\ row'[f].num = forge[f].num
  BY <1>1 DEF Row, PR, Renews
<1>3. CASE row[f].num \in {0, forge[f].num}
  <2>1. row'[f].harvested = row[f].harvested
    BY <1>3 DEF Renews
  <2>2. row[f].num = 0 => reviewed[f] = {}
    BY <1>1 DEF Numbered
  <2> QED
    BY <1>1, <1>2, <1>3, <2>1, <2>2 DEF Numbered
<1>4. CASE row[f].num \notin {0, forge[f].num}
  <2>1. ~row'[f].harvested
    BY <1>4 DEF Renews
  <2>2. forge[f].num \notin reviewed[f]
    BY <1>1, <1>2, <1>4 DEF Numbered
  <2> QED
    BY <1>1, <1>2, <1>4, <2>1, <2>2 DEF Numbered
<1> QED
  BY <1>3, <1>4

LEMMA SameNumbers ==
  ASSUME ForgeInv, ForgeInv', [Next]_vars, NEW f \in Findings, Numbered(f),
         Same(row'[f], row[f]), UNCHANGED reviewed,
         paused'[f].kind = "harvest" => row[f].num # 0
  PROVE  Numbered(f)'
<1>1. /\ row[f] \in Row /\ row'[f] \in Row /\ forge[f] \in PR /\ forge'[f] \in PR
  BY DEF ForgeInv, TypeInv, TypeOK
<1>2. forge'[f].num >= forge[f].num
  BY ForgeMoves DEF Moved
<1>3. row[f].num \in Nat /\ forge[f].num \in Nat /\ forge'[f].num \in Nat
  BY <1>1 DEF Row, PR
<1> QED
  BY <1>2, <1>3 DEF Numbered, Same

LEMMA StampNumbers ==
  ASSUME TypeInv, NEW f \in Findings, Numbered(f), row[f].num # 0,
         UNCHANGED <<forge, paused>>, row'[f].num = row[f].num, row'[f].state = row[f].state,
         row'[f].harvested, Reviewed(f)
  PROVE  Numbered(f)'
<1>1. row[f] \in Row /\ row[f].num \in Nat
  BY DEF TypeInv, TypeOK, Row
<1>2. reviewed'[f] = reviewed[f] \cup {row[f].num}
  BY DEF Reviewed, TypeInv, TypeOK
<1> QED
  BY <1>1, <1>2 DEF Numbered

(* A step that writes no stamp and leaves the PR of every row *)
LEMMA QuietNumbers ==
  ASSUME ForgeInv, NumberInv, [Next]_vars, UNCHANGED reviewed,
         \A f \in Findings : Same(row'[f], row[f]),
         \A f \in Findings : paused'[f].kind = "harvest" => row[f].num # 0,
         pc' \in AtReview => run'.f \in Findings /\ row[run'.f].num # 0
  PROVE  NumberInv'
<1>1. ForgeInv'
  BY ForgeNext
<1>2. \A f \in Findings : Numbered(f)'
  BY <1>1, SameNumbers DEF NumberInv
<1> QED
  BY <1>2 DEF NumberInv, Same

LEMMA NumberSync ==
  ASSUME ForgeInv, NumberInv, Sync PROVE NumberInv'
<1>1. /\ TypeInv /\ TypeInv' /\ [Next]_vars /\ TypeOK /\ todo \subseteq Findings
      /\ \A f \in Findings : row[f] \in Row /\ forge[f] \in PR
      /\ \A f \in Findings : forge[f].num \in 0..MaxPRs
  BY TypeNext DEF ForgeInv, TypeInv, TypeOK, Next, Scheduler, PR
<1>2. UNCHANGED <<forge, paused, reviewed>> /\ pc \in AtSync /\ pc' \in AtSync \cup {"select"}
  BY DEF Sync, SyncOpen, SyncMergedFinding, SyncMergedRow, SyncClosedRow, SyncClosedFinding,
         SyncDone, db, At, Goto, AtSync
<1>3. pc' \notin AtReview
  BY <1>2 DEF AtSync, AtReview
<1>4. ASSUME UNCHANGED row PROVE NumberInv'
  BY <1>1, <1>2, <1>3, <1>4, QuietNumbers DEF Same, NumberInv, Numbered
<1>5. ASSUME NEW f \in Findings, NEW r, SetRow(f, r), r.state # "none", forge[f].num # 0,
             Renews(r, row[f], forge[f].num)
      PROVE  NumberInv'
  <2>1. row'[f] = r /\ \A g \in Findings \ {f} : row'[g] = row[g]
    BY <1>1, <1>5, OtherRows
  <2>2. Numbered(f)'
    BY <1>1, <1>2, <1>5, <2>1, RenewNumbers DEF NumberInv
  <2>3. \A g \in Findings \ {f} : Numbered(g)'
    BY <1>2, <2>1 DEF NumberInv, Numbered
  <2> QED
    BY <1>3, <2>2, <2>3 DEF NumberInv
<1>6. \A f \in todo : forge[f].num # 0
  BY <1>1 DEF ForgeInv, WhereInv, KnownInv
<1>7. ASSUME NEW f \in Findings, SyncOpen(f) PROVE NumberInv'
  BY <1>1, <1>4, <1>5, <1>6, <1>7, SyncedSays DEF SyncOpen
<1>8. ASSUME NEW f \in Findings, SyncClosedRow(f) PROVE NumberInv'
  BY <1>1, <1>4, <1>5, <1>6, <1>8, EndedSays DEF SyncClosedRow
<1>9. CASE SyncMergedRow
  <2>1. run.f \in Findings /\ forge[run.f].num # 0
    BY <1>1, <1>9 DEF SyncMergedRow, At, TypeInv, Locals, ForgeInv, WhereInv, KnownInv
  <2> QED
    BY <1>1, <1>4, <1>5, <1>9, <2>1, EndedSays DEF SyncMergedRow
<1> QED
  BY <1>4, <1>7, <1>8, <1>9 DEF Sync, SyncMergedFinding, SyncClosedFinding, SyncDone, db

LEMMA NumberRecording ==
  ASSUME ForgeInv, NumberInv, Recording PROVE NumberInv'
<1>1. /\ TypeInv /\ TypeInv' /\ [Next]_vars /\ TypeOK
      /\ run.f \in Findings /\ row[run.f] \in Row
      /\ forge[run.f] \in PR /\ forge[run.f].num \in 0..MaxPRs /\ forge[run.f].num # 0
  <2>1. pc \in AtEngage
    BY DEF Recording, Reply, ReplyFails, NoReply, Mark, MarkAborted, WithdrawnRow,
           WithdrawnFinding, At, AtEngage
  <2>2. [Next]_vars
    BY DEF Next, Scheduler
  <2>3. TypeInv /\ TypeInv' /\ TypeOK /\ run.f \in Findings
    BY <2>1, <2>2, TypeNext DEF ForgeInv, TypeInv, Locals, AtEngage
  <2>4. row[run.f] \in Row /\ forge[run.f] \in PR
    BY <2>3 DEF TypeOK
  <2>5. forge[run.f].num # 0
    BY <2>1, <2>3 DEF ForgeInv, WhereInv, KnownInv
  <2> QED
    BY <2>2, <2>3, <2>4, <2>5 DEF PR
<1>2. UNCHANGED <<paused, reviewed>>
  BY DEF Recording, Reply, ReplyFails, NoReply, Mark, MarkAborted, WithdrawnRow,
         WithdrawnFinding, db
<1>3. ASSUME \A f \in Findings : Same(row'[f], row[f]), pc' \notin AtReview
      PROVE  NumberInv'
  BY <1>1, <1>2, <1>3, QuietNumbers DEF NumberInv, Numbered
<1>4. UNCHANGED row => \A f \in Findings : Same(row'[f], row[f])
  BY DEF Same
<1>5. CASE Reply \/ ReplyFails \/ NoReply
  BY <1>3, <1>4, <1>5 DEF Reply, ReplyFails, NoReply, db, EndCycle, Goto, AtReview
<1>6. CASE Mark \/ MarkAborted
  <2>1. UNCHANGED row \/ \E s, b, h : SetRow(run.f, MarkEngaged(row[run.f], s, b, h))
    BY <1>6 DEF Mark, MarkAborted
  <2>2. ASSUME NEW s, NEW b, NEW h, SetRow(run.f, MarkEngaged(row[run.f], s, b, h))
        PROVE  \A g \in Findings : Same(row'[g], row[g])
    BY <1>1, <2>2, MarkedSays, SettingSame
  <2>3. pc' \notin AtReview
    BY <1>6 DEF Mark, MarkAborted, EndCycle, AtReview
  <2> QED
    BY <1>3, <1>4, <2>1, <2>2, <2>3
<1>7. CASE WithdrawnRow
  <2>1. UNCHANGED forge /\ pc' \notin AtReview
    BY <1>7 DEF WithdrawnRow, EndCycle, Goto, AtReview
  <2>2. CASE UNCHANGED row
    BY <1>3, <1>4, <2>1, <2>2
  <2>3. CASE SetRow(run.f, Ended(row[run.f], forge[run.f].num, "CLOSED"))
    <3>1. /\ row'[run.f] = Ended(row[run.f], forge[run.f].num, "CLOSED")
          /\ \A g \in Findings \ {run.f} : row'[g] = row[g]
      BY <1>1, <2>3, OtherRows
    <3>2. row'[run.f].state = "CLOSED" /\ Renews(row'[run.f], row[run.f], forge[run.f].num)
      BY <1>1, <3>1, EndedSays
    <3>3. ASSUME NEW f \in Findings, f = run.f PROVE Numbered(f)'
      BY <1>1, <1>2, <2>1, <3>2, <3>3, RenewNumbers DEF NumberInv
    <3>4. ASSUME NEW g \in Findings, g # run.f PROVE Numbered(g)'
      BY <1>2, <2>1, <3>1, <3>4 DEF NumberInv, Numbered
    <3> QED
      BY <2>1, <3>3, <3>4 DEF NumberInv
  <2> QED
    BY <1>7, <2>2, <2>3 DEF WithdrawnRow
<1>8. CASE WithdrawnFinding
  <2>1. row[run.f].state # "none" /\ UNCHANGED row
    BY <1>8 DEF WithdrawnFinding, At, ForgeInv, WhereInv, Recorded
  <2>2. row[run.f].num # 0
    BY <1>1, <2>1 DEF NumberInv, Numbered
  <2>3. pc' \in AtReview => run'.f = run.f
    BY <1>1, <1>8 DEF WithdrawnFinding, EndCycle, AtReview, TypeOK, Run
  <2> QED
    BY <1>1, <1>2, <1>4, <2>1, <2>2, <2>3, QuietNumbers DEF NumberInv, Numbered
<1> QED
  BY <1>5, <1>6, <1>7, <1>8 DEF Recording

LEMMA NumberReview ==
  ASSUME ForgeInv, NumberInv, HarvestWorker \/ Harvesting PROVE NumberInv'
<1>1. pc \in AtReview /\ UNCHANGED forge
  BY DEF HarvestWorker, HarvestPauses, HarvestFails, HarvestDone, Harvesting,
         CountHarvest, GiveUpPR, At, AtReview
<1>2. /\ TypeInv /\ TypeOK /\ run.f \in Findings /\ row[run.f] \in Row
      /\ row[run.f].num # 0 /\ paused \in [Findings -> Pause] /\ run \in Run
  BY <1>1 DEF ForgeInv, TypeInv, TypeOK, Locals, AtReview, NumberInv
<1>3. [Next]_vars
  BY DEF Next, Scheduler
<1>4. ASSUME \A f \in Findings : Same(row'[f], row[f]), UNCHANGED reviewed,
             \A f \in Findings : paused'[f] = paused[f] \/ row[f].num # 0,
             pc' \in AtReview => run'.f = run.f
      PROVE  NumberInv'
  BY <1>2, <1>3, <1>4, QuietNumbers DEF NumberInv, Numbered
<1>5. UNCHANGED row => \A f \in Findings : Same(row'[f], row[f])
  BY DEF Same
<1>6. ASSUME NEW r, SetRow(run.f, r), Same(r, row[run.f])
      PROVE  \A f \in Findings : Same(row'[f], row[f])
  BY <1>2, <1>6, SettingSame
<1>7. ASSUME NEW r \in {Stamped(run.f), Streakless(Stamped(run.f))}, SetRow(run.f, r),
             Reviewed(run.f), UNCHANGED paused, pc' = "sweep"
      PROVE  NumberInv'
  <2>1. r.harvested /\ r.num = row[run.f].num /\ r.state = row[run.f].state
    BY <1>2, StampedSays, StampedStreaklessSays
  <2>2. row'[run.f] = r /\ \A g \in Findings \ {run.f} : row'[g] = row[g]
    BY <1>2, <1>7, OtherRows
  <2>3. \A g \in Findings \ {run.f} : reviewed'[g] = reviewed[g]
    BY <1>2, <1>7 DEF Reviewed, TypeOK
  <2>4. ASSUME NEW f \in Findings, f = run.f PROVE Numbered(f)'
    BY <1>1, <1>2, <1>7, <2>1, <2>2, <2>4, StampNumbers DEF NumberInv
  <2>5. ASSUME NEW g \in Findings, g # run.f PROVE Numbered(g)'
    BY <1>1, <1>7, <2>2, <2>3, <2>5 DEF NumberInv, Numbered
  <2> QED
    BY <1>7, <2>4, <2>5 DEF NumberInv, AtReview
<1>8. CASE HarvestPauses
  <2>1. \A f \in Findings : paused'[f] = paused[f] \/ row[f].num # 0
    BY <1>2, <1>8 DEF HarvestPauses, Paused
  <2> QED
    BY <1>4, <1>5, <1>8, <2>1 DEF HarvestPauses, EndCycle, AtReview
<1>9. CASE HarvestFails
  <2>1. pc' \in AtReview => run'.f = run.f
    BY <1>2, <1>9 DEF HarvestFails, EndCycle, AtReview, Run
  <2> QED
    BY <1>4, <1>5, <1>9, <2>1 DEF HarvestFails, db
<1>10. CASE HarvestDone
  <2>1. pc' = "sweep" /\ UNCHANGED paused
    BY <1>10 DEF HarvestDone, EndCycle
  <2>2. CASE SetRow(run.f, Streakless(Stamped(run.f))) /\ Reviewed(run.f)
    BY <1>7, <2>1, <2>2
  <2>3. CASE SetRow(run.f, Stamped(run.f)) /\ Reviewed(run.f)
    BY <1>7, <2>1, <2>3
  <2>4. CASE SetRow(run.f, Streakless(row[run.f])) /\ UNCHANGED reviewed
    BY <1>2, <1>4, <1>6, <2>1, <2>4, StreaklessSays DEF AtReview
  <2>5. CASE UNCHANGED <<row, reviewed>>
    BY <1>4, <1>5, <2>1, <2>5 DEF AtReview
  <2> QED
    BY <1>10, <2>2, <2>3, <2>4, <2>5 DEF HarvestDone
<1>11. CASE CountHarvest
  <2>1. \A f \in Findings : Same(row'[f], row[f])
    BY <1>2, <1>5, <1>6, <1>11, CountedSays DEF CountHarvest
  <2>2. pc' \in AtReview => run'.f = run.f
    BY <1>11 DEF CountHarvest, EndCycle, Goto, AtReview
  <2> QED
    BY <1>4, <1>11, <2>1, <2>2 DEF CountHarvest
<1>12. CASE GiveUpPR
  <2>1. pc' = "sweep" /\ UNCHANGED paused
    BY <1>12 DEF GiveUpPR, EndCycle
  <2> QED
    BY <1>4, <1>5, <1>7, <1>12, <2>1 DEF GiveUpPR, AtReview
<1> QED
  BY <1>8, <1>9, <1>10, <1>11, <1>12 DEF HarvestWorker, Harvesting

LEMMA NumberStarts ==
  ASSUME ForgeInv, NumberInv, NEW f \in Findings, StartOn(f) \/ ReviewOf(f)
  PROVE  NumberInv'
<1>1. [Next]_vars /\ TypeOK /\ row[f] \in Row /\ paused \in [Findings -> Pause]
  BY DEF Next, Scheduler, ForgeInv, TypeInv, TypeOK
<1>2. ASSUME \A g \in Findings : Same(row'[g], row[g]), UNCHANGED reviewed,
             pc' \in AtReview => run'.f = f /\ row[f].num # 0
      PROVE  NumberInv'
  <2>1. paused' = paused \/ paused' = [paused EXCEPT ![f] = NoPause]
    BY DEF StartOn, StartEngage, GiveUpEngage, ReviewOf, StartHarvest,
           HarvestNotStarted, GiveUpHarvest, db
  <2>2. \A g \in Findings : paused'[g].kind = "harvest" => row[g].num # 0
    BY <1>1, <2>1 DEF NoPause, NumberInv, Numbered
  <2> QED
    BY <1>1, <1>2, <2>2, QuietNumbers
<1>3. UNCHANGED row => \A g \in Findings : Same(row'[g], row[g])
  BY DEF Same
<1>4. CASE StartEngage(f)
  BY <1>2, <1>3, <1>4 DEF StartEngage, AtReview
<1>5. CASE GiveUpEngage(f)
  <2>1. \A g \in Findings : Same(row'[g], row[g])
    BY <1>1, <1>3, <1>5, SetAsideSays, SettingSame DEF GiveUpEngage
  <2>2. UNCHANGED reviewed /\ pc' \notin AtReview
    BY <1>5 DEF GiveUpEngage, At, AtReview
  <2> QED
    BY <1>2, <2>1, <2>2
<1>6. CASE ReviewOf(f)
  <2>1. Pending(f) \/ paused[f].kind = "harvest"
    BY <1>6 DEF ReviewOf, StartHarvest, HarvestNotStarted, GiveUpHarvest
  <2>2. row[f].num # 0
    BY <2>1 DEF Pending, NumberInv, Numbered
  <2>3. run'.f = f /\ UNCHANGED <<row, reviewed>>
    BY <1>6 DEF ReviewOf, StartHarvest, HarvestNotStarted, GiveUpHarvest, NoRun, db
  <2> QED
    BY <1>2, <1>3, <2>2, <2>3
<1> QED
  BY <1>4, <1>5, <1>6 DEF StartOn

LEMMA NumberNext ==
  ASSUME ForgeInv, NumberInv, [Next]_vars PROVE NumberInv'
<1>1. /\ TypeInv /\ paused \in [Findings -> Pause]
      /\ pc \in AtReview => run.f \in Findings /\ row[run.f].num # 0
  BY DEF ForgeInv, TypeInv, TypeOK, Locals, AtReview, NumberInv
<1>2. ASSUME UNCHANGED <<row, reviewed>>,
             \A f \in Findings : paused'[f].kind = "harvest" => row[f].num # 0,
             pc' \in AtReview => pc = pc' /\ run' = run
      PROVE  NumberInv'
  BY <1>1, <1>2, QuietNumbers DEF Same
<1>3. UNCHANGED paused => \A f \in Findings : paused'[f].kind = "harvest" => row[f].num # 0
  BY DEF NumberInv, Numbered
<1>4. CASE Sweep
  BY <1>1, <1>2, <1>4 DEF Sweep, NoPause, AtReview, NumberInv, Numbered
<1>5. CASE Fix \/ Skip
  BY <1>2, <1>3, <1>5 DEF Fix, StartFix, ShipPush, CreatePR, ShipFails, Shipped, Skip, db, Goto,
       EndCycle, AtReview
<1>6. CASE EngageWorker \/ Crash
  <2>1. ASSUME Paused("engage"), pc = "engage"
        PROVE  \A f \in Findings : paused'[f].kind = "harvest" => row[f].num # 0
    BY <1>1, <2>1 DEF Paused, NumberInv, Numbered
  <2>2. ASSUME Paused("harvest"), pc = "harvest"
        PROVE  \A f \in Findings : paused'[f].kind = "harvest" => row[f].num # 0
    BY <1>1, <2>2 DEF Paused, NumberInv, Numbered, AtReview
  <2> QED
    BY <1>2, <1>3, <1>6, <2>1, <2>2
       DEF EngageWorker, EngagePauses, EngageFails, Push, PushRefused, NothingToPush,
           Withdraw, WithdrawFails, Crash, db, Goto, EndCycle, At, AtReview
<1>7. CASE Operator \/ Forge \/ UNCHANGED vars
  BY <1>2, <1>3, <1>7 DEF Operator, Verdict, Unqueue, Answer, Forge, Comment, ReviewerPush,
       Rated, Merge, Reject, Reopen, Happens, vars, db
<1> QED
  BY <1>4, <1>5, <1>6, <1>7, NumberSync, NumberRecording, NumberReview, NumberStarts
     DEF Next, Scheduler

LEMMA ReviewsProved == Spec => [](ForgeInv /\ NumberInv)
<1>1. Init => ForgeInv /\ NumberInv
  BY ForgeInit, NumberInit
<1>2. (ForgeInv /\ NumberInv) /\ [Next]_vars => (ForgeInv /\ NumberInv)'
  BY ForgeNext, NumberNext
<1> QED
  BY <1>1, <1>2, PTL DEF Spec

(* A harvest stamp belongs to the PR its row is about: the harvest of an     *)
(* earlier PR never passes for that of the next one (the CASE on pr_number   *)
(* in mark_pr_merged, mark_pr_closed and sync_pr_open).                      *)
THEOREM StampsAreOwn == Spec => []StampIsForItsPR
<1>1. ForgeInv /\ NumberInv => StampIsForItsPR
  BY DEF NumberInv, Numbered, StampIsForItsPR
<1> QED
  BY <1>1, ReviewsProved, PTL

(* A PR is harvested once: what was reviewed, or given up, never comes back  *)
(* to the queue, also when the PR was reopened and ended again or another PR *)
(* took its place (list_pending_harvest, record_closed_harvest).             *)
THEOREM ReviewsAreOnce == Spec => []HarvestedOnce
<1>1. ForgeInv /\ NumberInv => HarvestedOnce
  BY DEF NumberInv, Numbered, HarvestedOnce, Pending
<1> QED
  BY <1>1, ReviewsProved, PTL

=============================================================================
