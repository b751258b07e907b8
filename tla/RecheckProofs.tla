----------------------------- MODULE RecheckProofs -----------------------------
(***************************************************************************)
(* Theorems about Recheck for every set of worker habits and every value   *)
(* of the ceilings and bounds.                                             *)
(*                                                                         *)
(* TypeInv adds to the types which locals are set where.  StreakInv says   *)
(* that the streak counts failures of this request only; LiveInv that one  *)
(* chain at most is live, and which; FileInv that what is in the finding's *)
(* one file was written in the tree of whatever may go on with it.         *)
(***************************************************************************)
EXTENDS Recheck, TLAPS

FindingRow == [status : {"new", "rechecking", "rejected", "superseded"},
               streak : [n : Nat, why : Failures], override : Modes,
               anchor : Commits]
ChainRow   == [live : {"no", "running", "paused"}, tries : Nat, spent : BOOLEAN,
               tree : BOOLEAN, at : Commits, stray : BOOLEAN]
FileRow    == [says : Says \cup {"nothing"}, at : Commits, stray : BOOLEAN]
RunRow     == [c : 0..MaxChains, resume : BOOLEAN, at : Commits, mode : Modes,
               old : SUBSET Chains, end : {"none", "done", "pause", "fail"},
               read : FileRow, why : Failures, ended : BOOLEAN]

(* The steps between two cycles, and up to the choice of a chain *)
IdlePcs == {"down", "boot", "reconcile", "sweep", "pick", "plan"}

(* The steps with a row of their own *)
ChainPcs == {"open", "unlink", "work", "record", "close"}

Locals ==
  /\ pc \in IdlePcs => run = NoRun
  /\ run.resume => run.c \in Chains
  /\ pc \in ChainPcs => run.c \in Chains

TypeInv == TypeOK /\ Locals

LEMMA TypeIs ==
  TypeOK <=> /\ finding \in FindingRow /\ chain \in [Chains -> ChainRow]
             /\ file \in FileRow /\ tip \in Commits /\ pc \in Pcs /\ habit \in Habits
             /\ failed \in Nat /\ run \in RunRow /\ troubles \in Nat /\ asks \in Nat
BY DEF TypeOK, FindingRow, ChainRow, FileRow, RunRow

-----------------------------------------------------------------------------
(* Rows *)

LEMMA NoChainIs == NoChain \in ChainRow
BY RecheckAssumption DEF NoChain, ChainRow, Commits

LEMMA NoFileIs == NoFile \in FileRow
BY RecheckAssumption DEF NoFile, FileRow, Commits

LEMMA NoRunIs == NoRun \in RunRow
<1>1. NoRun.c \in 0..MaxChains /\ NoRun.at \in Commits
  BY RecheckAssumption DEF NoRun, Commits
<1> QED
  BY <1>1, NoFileIs DEF NoRun, RunRow, Modes, Failures

LEMMA RowSteps ==
  ASSUME NEW r \in ChainRow
  PROVE  /\ Over(r) \in ChainRow /\ Paused(r) \in ChainRow
         /\ Forgotten(r) \in ChainRow /\ Swept(r) \in ChainRow
         /\ Over(r).live = "no" /\ Paused(r).live = "paused"
         /\ Forgotten(r).live = r.live /\ Swept(r).live = r.live
         /\ Over(r).at = r.at /\ Paused(r).at = r.at
         /\ r.live # "no" => Forgotten(r) = r /\ Swept(r) = r
<1>1. Over(r) \in ChainRow /\ Over(r).live = "no" /\ Over(r).at = r.at
  BY DEF Over, ChainRow
<1>2. Paused(r) \in ChainRow /\ Paused(r).live = "paused" /\ Paused(r).at = r.at
  <2>1. \A n \in Nat : [r EXCEPT !.live = "paused", !.tries = n] \in ChainRow
    BY DEF ChainRow
  <2>2. r.tries + 1 \in Nat
    BY DEF ChainRow
  <2>3. Paused(r) \in ChainRow
    BY <2>1, <2>2 DEF Paused
  <2> QED
    BY <2>3 DEF Paused, ChainRow
<1>3. ASSUME NEW s \in ChainRow
      PROVE  /\ Forgotten(s) \in ChainRow /\ Forgotten(s).live = s.live
             /\ s.live # "no" => Forgotten(s) = s
  BY NoChainIs DEF Forgotten, NoChain
<1> DEFINE s == [r EXCEPT !.tree = @ /\ r.live # "no"]
<1>5. s \in ChainRow /\ s.live = r.live /\ (r.live # "no" => s = r)
  BY DEF ChainRow
<1>6. Swept(r) = Forgotten(s)
  BY DEF Swept
<1> HIDE DEF s
<1> QED
  BY <1>1, <1>2, <1>3, <1>5, <1>6

LEMMA OneRow ==
  ASSUME chain \in [Chains -> ChainRow], NEW c, NEW r,
         c \in Chains => r \in ChainRow
  PROVE  [chain EXCEPT ![c] = r] \in [Chains -> ChainRow]
OBVIOUS

LEMMA RowFields ==
  ASSUME NEW r \in ChainRow, NEW l \in {"no", "running", "paused"}, NEW b \in BOOLEAN,
         NEW a \in Commits
  PROVE  /\ [r EXCEPT !.live = l] \in ChainRow
         /\ [r EXCEPT !.live = l, !.spent = b] \in ChainRow
         /\ [r EXCEPT !.spent = b] \in ChainRow
         /\ [r EXCEPT !.tree = b] \in ChainRow
         /\ [r EXCEPT !.tree = b, !.at = a] \in ChainRow
         /\ [r EXCEPT !.stray = b] \in ChainRow
BY DEF ChainRow

LEMMA FindingFields ==
  ASSUME NEW r \in FindingRow, NEW s \in {"new", "rechecking", "rejected", "superseded"},
         NEW k \in [n : Nat, why : Failures], NEW m \in Modes, NEW a \in Commits
  PROVE  /\ [r EXCEPT !.status = s] \in FindingRow
         /\ [r EXCEPT !.status = s, !.anchor = a] \in FindingRow
         /\ [r EXCEPT !.streak = k] \in FindingRow
         /\ [r EXCEPT !.override = m] \in FindingRow
BY DEF FindingRow

LEMMA RunFields ==
  ASSUME run \in RunRow
  PROVE  /\ run.c \in 0..MaxChains /\ run.resume \in BOOLEAN /\ run.at \in Commits
         /\ run.mode \in Modes /\ run.old \subseteq Chains /\ run.read \in FileRow
         /\ run.why \in Failures
BY DEF RunRow

LEMMA ChainIds == Chains \subseteq 0..MaxChains /\ \A c \in Chains : c # 0
BY RecheckAssumption DEF Chains

-----------------------------------------------------------------------------
(* Types *)

LEMMA TypePasses ==
  ASSUME TypeInv, Passes
  PROVE  TypeInv'
<1>1. TypeOK
  BY DEF TypeInv
<1>2. chain \in [Chains -> ChainRow] /\ run \in RunRow
  BY <1>1, TypeIs
<1>3. /\ UNCHANGED <<finding, file, tip, habit, failed, troubles, asks, run>>
      /\ pc \in IdlePcs /\ pc' \in IdlePcs
  BY DEF Passes, Boot, Sweep, Reconcile, World, bounds, Goto, At, IdlePcs
<1>4. chain' \in [Chains -> ChainRow]
  <2>1. CASE Boot
    BY <2>1, <1>2 DEF Boot
  <2>2. CASE Reconcile
    <3>1. chain' = [c \in Chains |->
            IF chain[c].live = "running" THEN Orphaned(chain[c]) ELSE chain[c]]
      BY <2>2 DEF Reconcile
    <3>2. ASSUME NEW c \in Chains PROVE chain'[c] \in ChainRow
      BY <3>1, <1>2, RowSteps DEF Orphaned
    <3> QED
      BY <3>1, <3>2
  <2>3. ASSUME NEW p, NEW q, Sweep(p, q)
        PROVE  chain' \in [Chains -> ChainRow]
    <3>1. chain' = [c \in Chains |->
            Swept(IF chain[c].live = "paused" /\ finding.status # "rechecking"
                    THEN Over(chain[c]) ELSE chain[c])]
      BY <2>3 DEF Sweep
    <3>2. ASSUME NEW c \in Chains PROVE chain'[c] \in ChainRow
      <4>1. Over(chain[c]) \in ChainRow /\ chain[c] \in ChainRow
        BY <1>2, RowSteps
      <4> QED
        BY <3>1, <4>1, RowSteps
    <3> QED
      BY <3>1, <3>2
  <2> QED
    BY <2>1, <2>2, <2>3 DEF Passes
<1>5. TypeOK'
  BY <1>1, <1>3, <1>4, TypeIs DEF IdlePcs, Pcs, TypeOK, ChainRow
<1> QED
  BY <1>3, <1>5 DEF TypeInv, Locals, ChainPcs, IdlePcs

(* The parts of TypeInv, and what a step that leaves most of them alone *)
(* has to show                                                          *)
LEMMA Parts ==
  ASSUME TypeInv
  PROVE  /\ finding \in FindingRow /\ chain \in [Chains -> ChainRow]
         /\ file \in FileRow /\ tip \in Commits /\ pc \in Pcs /\ habit \in Habits
         /\ failed \in Nat /\ run \in RunRow /\ troubles \in Nat /\ asks \in Nat
         /\ Locals
BY TypeIs DEF TypeInv

LEMMA Whole ==
  ASSUME (finding \in FindingRow)', (chain \in [Chains -> ChainRow])',
         (file \in FileRow)', (tip \in Commits)', (pc \in Pcs)', (habit \in Habits)',
         (failed \in Nat)', (run \in RunRow)', (troubles \in Nat)', (asks \in Nat)',
         Locals'
  PROVE  TypeInv'
BY TypeIs DEF TypeInv, TypeOK, FindingRow, ChainRow, FileRow, RunRow

LEMMA TypeBounds ==
  ASSUME TypeInv, Fault \/ UNCHANGED bounds
  PROVE  (troubles \in Nat)' /\ (asks \in Nat)'
<1>1. troubles \in Nat /\ asks \in Nat
  BY Parts
<1> QED
  BY <1>1 DEF Fault, bounds

LEMMA TypeSelect ==
  ASSUME TypeInv, Select
  PROVE  TypeInv'
<1>1. /\ finding \in FindingRow /\ chain \in [Chains -> ChainRow]
      /\ file \in FileRow /\ tip \in Commits /\ pc \in Pcs /\ habit \in Habits
      /\ failed \in Nat /\ run \in RunRow /\ Locals
  BY Parts
<1>2. At("pick") \/ At("plan")
  BY DEF Select, PickRecheck, StartFresh, WorkdirGone, ResumeChain, GiveUpChain, Offered
<1>3. run = NoRun
  BY <1>1, <1>2 DEF Locals, At, IdlePcs
<1>4. UNCHANGED <<finding, file, tip, habit, failed>> /\ (Fault \/ UNCHANGED bounds)
  BY DEF Select, PickRecheck, StartFresh, WorkdirGone, ResumeChain, GiveUpChain, World,
         bounds
<1>5. chain' \in [Chains -> ChainRow]
  <2>1. chain' = chain \/ \E c \in Chains : chain' = [chain EXCEPT ![c] = Over(@)]
    BY DEF Select, PickRecheck, StartFresh, WorkdirGone, ResumeChain, GiveUpChain
  <2>2. CASE chain' = chain
    BY <2>2, <1>1
  <2>3. ASSUME NEW c \in Chains, chain' = [chain EXCEPT ![c] = Over(chain[c])]
        PROVE  chain' \in [Chains -> ChainRow]
    BY <2>3, <1>1, RowSteps, OneRow
  <2> QED
    BY <2>1, <2>2, <2>3
<1>6. \/ pc' \in {"reconcile", "plan"} /\ run' = NoRun
      \/ /\ pc' = "start"
         /\ \/ run' = NoRun
            \/ \E c \in Chains : run' = [NoRun EXCEPT !.c = c, !.resume = TRUE]
      \/ pc' = "count" /\ run' = [NoRun EXCEPT !.why = "gaveup"]
  <2>1. CASE PickRecheck \/ StartFresh
    BY <2>1, <1>3 DEF PickRecheck, StartFresh, Goto, EndCycle
  <2>2. ASSUME NEW c \in Chains, WorkdirGone(c)
        PROVE  pc' = "plan" /\ run' = NoRun
    BY <2>2, <1>3 DEF WorkdirGone, Offered, At
  <2>3. ASSUME NEW c \in Chains, ResumeChain(c)
        PROVE  pc' = "start" /\ run' = [NoRun EXCEPT !.c = c, !.resume = TRUE]
    BY <2>3, <1>3 DEF ResumeChain
  <2>4. ASSUME NEW c \in Chains, GiveUpChain(c)
        PROVE  \/ pc' = "start" /\ run' = NoRun
               \/ pc' = "count" /\ run' = [NoRun EXCEPT !.why = "gaveup"]
    BY <2>4, <1>3 DEF GiveUpChain, Goto
  <2> QED
    BY <2>1, <2>2, <2>3, <2>4 DEF Select
<1>7. /\ run' \in RunRow /\ pc' \in Pcs
      /\ Locals'
  <2>1. CASE run' = NoRun
    BY <2>1, <1>6, NoRunIs DEF Locals, Pcs, ChainPcs, IdlePcs, NoRun
  <2>2. ASSUME NEW c \in Chains, pc' = "start",
               run' = [NoRun EXCEPT !.c = c, !.resume = TRUE]
        PROVE  run' \in RunRow /\ pc' \in Pcs /\ Locals'
    <3>1. run'.c = c
      BY <2>2 DEF NoRun
    <3> QED
      BY <2>2, <3>1, NoRunIs, ChainIds DEF Locals, Pcs, ChainPcs, IdlePcs, RunRow
  <2>3. CASE pc' = "count" /\ run' = [NoRun EXCEPT !.why = "gaveup"]
    <3>1. run'.resume = FALSE
      BY <2>3 DEF NoRun
    <3> QED
      BY <2>3, <3>1, NoRunIs DEF Locals, Pcs, ChainPcs, IdlePcs, RunRow, Failures
  <2> QED
    BY <1>6, <2>1, <2>2, <2>3
<1> QED
  BY <1>1, <1>4, <1>5, <1>7, TypeBounds, Whole

(* The slot a cold start takes, and what creating its row writes *)
NewChain == CHOOSE c \in Chains : Free(c)

LEMMA FreshRows ==
  ASSUME CreateFresh, TypeInv
  PROVE  /\ NewChain \in Chains /\ Free(NewChain)
         /\ run' = [run EXCEPT !.c = NewChain,
                               !.old = {c \in Chains : chain[c].live = "paused"}]
         /\ chain' \in [Chains -> ChainRow]
         /\ chain'[NewChain] = [NoChain EXCEPT !.live = "running"]
         /\ \A c \in Chains \ {NewChain} :
              chain'[c] = IF chain[c].live = "paused" THEN Over(chain[c]) ELSE chain[c]
<1>1. chain \in [Chains -> ChainRow]
  BY Parts
<1>2. NewChain \in Chains /\ Free(NewChain)
  BY DEF CreateFresh, NewChain
<1>3. chain[NewChain].live # "paused"
  BY <1>2 DEF Free, NoChain
<1>4. DEFINE old == {c \in Chains : chain[c].live = "paused"}
<1>5. /\ run' = [run EXCEPT !.c = NewChain, !.old = old]
      /\ chain' = [c \in Chains |->
           CASE c = NewChain -> [NoChain EXCEPT !.live = "running"]
             [] c \in old    -> Over(chain[c])
             [] OTHER        -> chain[c]]
  BY DEF CreateFresh, NewChain
<1>6. chain'[NewChain] = [NoChain EXCEPT !.live = "running"]
  BY <1>2, <1>3, <1>5
<1>7. ASSUME NEW c \in Chains \ {NewChain}
      PROVE  chain'[c] = IF chain[c].live = "paused" THEN Over(chain[c]) ELSE chain[c]
  BY <1>5
<1>8. ASSUME NEW c \in Chains PROVE chain'[c] \in ChainRow
  <2>1. CASE c = NewChain
    BY <2>1, <1>6, NoChainIs DEF ChainRow
  <2>2. CASE c # NewChain
    BY <2>2, <1>1, <1>7, RowSteps
  <2> QED
    BY <2>1, <2>2
<1>9. chain' \in [Chains -> ChainRow]
  BY <1>5, <1>8
<1> QED
  BY <1>2, <1>5, <1>6, <1>7, <1>9

(* What opening the tree of a cold start writes *)
LEMMA FreshTree ==
  ASSUME OpenFresh, TypeInv
  PROVE  /\ run.c \in Chains /\ ~run.resume
         /\ Released \in [Chains -> ChainRow]
         /\ chain' \in [Chains -> ChainRow]
         /\ \/ /\ chain' = [Released EXCEPT ![run.c].tree = TRUE, ![run.c].at = run.at]
               /\ \/ Goto("unlink") /\ UNCHANGED bounds
                  \/ Fault /\ EndCycle
            \/ /\ Fault
               /\ chain' = [Released EXCEPT ![run.c] = Swept(Over(@))]
               /\ pc' = "count" /\ run' = [run EXCEPT !.why = "tree"]
<1>1. /\ chain \in [Chains -> ChainRow] /\ run \in RunRow
      /\ run.c \in Chains /\ ~run.resume
  BY Parts DEF Locals, ChainPcs, OpenFresh, At
<1>2. Released \in [Chains -> ChainRow]
  <2>1. ASSUME NEW c \in Chains
        PROVE  (IF c \in run.old THEN Swept(chain[c]) ELSE chain[c]) \in ChainRow
    BY <1>1, RowSteps
  <2> QED
    BY <2>1 DEF Released
<1>3. \/ /\ chain' = [Released EXCEPT ![run.c].tree = TRUE, ![run.c].at = run.at]
         /\ \/ Goto("unlink") /\ UNCHANGED bounds
            \/ Fault /\ EndCycle
      \/ /\ Fault
         /\ chain' = [Released EXCEPT ![run.c] = Swept(Over(Released[run.c]))]
         /\ pc' = "count" /\ run' = [run EXCEPT !.why = "tree"]
  BY DEF OpenFresh
<1>4. chain' \in [Chains -> ChainRow]
  <2>1. run.at \in Commits /\ Released[run.c] \in ChainRow
    BY <1>1, <1>2, RunFields
  <2>2. CASE chain' = [Released EXCEPT ![run.c].tree = TRUE, ![run.c].at = run.at]
    <3>1. [Released[run.c] EXCEPT !.tree = TRUE, !.at = run.at] \in ChainRow
      BY <2>1, RowFields
    <3>2. chain' = [Released EXCEPT ![run.c] =
                      [Released[run.c] EXCEPT !.tree = TRUE, !.at = run.at]]
      BY <2>2, <1>1, <1>2
    <3> QED
      BY <3>1, <3>2, <1>2
  <2>3. CASE chain' = [Released EXCEPT ![run.c] = Swept(Over(Released[run.c]))]
    BY <2>1, <2>3, <1>2, RowSteps
  <2> QED
    BY <1>3, <2>2, <2>3
<1> QED
  BY <1>1, <1>2, <1>3, <1>4

LEMMA TypeOpening ==
  ASSUME TypeInv, Opening
  PROVE  TypeInv'
<1>1. /\ finding \in FindingRow /\ chain \in [Chains -> ChainRow]
      /\ file \in FileRow /\ tip \in Commits /\ pc \in Pcs /\ habit \in Habits
      /\ failed \in Nat /\ run \in RunRow /\ Locals
  BY Parts
<1>2. UNCHANGED <<finding, tip, habit, failed>> /\ (Fault \/ UNCHANGED bounds)
  BY DEF Opening, Start, SyncRepo, SyncFails, Granted, Denied, CreateResumed, CreateFresh,
         CreateFails, OpenResumed, OpenFresh, Unlink, World
<1>3. /\ run' = NoRun => run' \in RunRow
      /\ run' = run => run' \in RunRow
  BY <1>1, NoRunIs
<1>4. CASE Start
  <2>1. run' \in RunRow /\ run'.resume = run.resume /\ run'.c = run.c
    BY <1>1, <1>4 DEF Start, RunRow, FindingRow
  <2>2. pc' \in {"gate", "sync"}
    BY <1>4 DEF Start
  <2>3. Locals'
    BY <1>1, <2>1, <2>2 DEF Locals, ChainPcs, IdlePcs
  <2> QED
    BY <1>1, <1>2, <1>4, <2>1, <2>2, <2>3, TypeBounds, Whole DEF Start, World, Pcs
<1>5. CASE SyncRepo
  <2>1. run' \in RunRow /\ run'.resume = run.resume /\ run'.c = run.c
    BY <1>1, <1>5 DEF SyncRepo, RunRow
  <2>2. Locals'
    BY <1>1, <1>5, <2>1 DEF Locals, ChainPcs, IdlePcs, SyncRepo
  <2> QED
    BY <1>1, <1>2, <1>5, <2>1, <2>2, TypeBounds, Whole DEF SyncRepo, World, Pcs
<1>6. CASE SyncFails \/ Denied \/ CreateFails
  <2>1. EndCycle /\ UNCHANGED <<chain, file>>
    BY <1>6 DEF SyncFails, Denied, CreateFails, World
  <2>2. Locals'
    BY <2>1 DEF Locals, ChainPcs, IdlePcs, EndCycle, NoRun
  <2> QED
    BY <1>1, <1>2, <1>3, <2>1, <2>2, TypeBounds, Whole DEF EndCycle, Pcs
<1>7. CASE Granted \/ OpenResumed \/ Unlink
  <2>1. pc' \in {"create", "work"} /\ UNCHANGED <<chain, run>>
    BY <1>7 DEF Granted, OpenResumed, Unlink, Goto
  <2>2. pc' = "work" => pc \in ChainPcs
    BY <1>7 DEF Granted, OpenResumed, Unlink, Goto, At, ChainPcs
  <2>3. Locals'
    BY <1>1, <2>1, <2>2 DEF Locals, ChainPcs, IdlePcs
  <2>4. file' \in FileRow
    BY <1>1, <1>7, NoFileIs DEF Granted, OpenResumed, Unlink, World, FileRow
  <2> QED
    BY <1>1, <1>2, <2>1, <2>3, <2>4, TypeBounds, Whole DEF Pcs
<1>8. CASE CreateResumed
  <2>1. run.c \in Chains /\ chain[run.c] \in ChainRow
    BY <1>1, <1>8 DEF CreateResumed, Locals
  <2>2. chain' \in [Chains -> ChainRow]
    <3>1. [chain[run.c] EXCEPT !.live = "running", !.spent = FALSE] \in ChainRow
      BY <2>1 DEF ChainRow
    <3>2. chain' = [chain EXCEPT ![run.c] =
                      [chain[run.c] EXCEPT !.live = "running", !.spent = FALSE]]
      BY <1>1, <1>8, <2>1 DEF CreateResumed
    <3> QED
      BY <1>1, <3>1, <3>2
  <2>3. chain[run.c].at \in Commits
    BY <2>1 DEF ChainRow
  <2>4. run' \in RunRow /\ run'.c = run.c
    BY <1>1, <1>8, <2>3 DEF CreateResumed, RunRow
  <2>5. Locals'
    BY <1>8, <2>1, <2>4 DEF Locals, ChainPcs, IdlePcs, CreateResumed
  <2> QED
    BY <1>1, <1>2, <1>8, <2>2, <2>4, <2>5, TypeBounds, Whole
    DEF CreateResumed, World, Pcs
<1>9. CASE CreateFresh
  <2>1. /\ NewChain \in Chains /\ chain' \in [Chains -> ChainRow]
        /\ run' = [run EXCEPT !.c = NewChain,
                              !.old = {c \in Chains : chain[c].live = "paused"}]
    BY <1>9, FreshRows
  <2>2. run' \in RunRow /\ run'.c \in Chains
    BY <1>1, <2>1, ChainIds DEF RunRow
  <2>3. Locals'
    BY <1>9, <2>2 DEF Locals, ChainPcs, IdlePcs, CreateFresh
  <2> QED
    BY <1>1, <1>2, <1>9, <2>1, <2>2, <2>3, TypeBounds, Whole
    DEF CreateFresh, World, Pcs
<1>10. CASE OpenFresh
  <2>1. /\ run.c \in Chains /\ chain' \in [Chains -> ChainRow]
        /\ \/ pc' = "unlink" /\ run' = run
           \/ pc' = "reconcile" /\ run' = NoRun
           \/ pc' = "count" /\ run' = [run EXCEPT !.why = "tree"]
    BY <1>10, FreshTree DEF Goto, EndCycle
  <2>2. run' \in RunRow
    BY <1>1, <1>3, <2>1 DEF RunRow, Failures
  <2>3. Locals'
    <3>1. CASE pc' = "unlink" /\ run' = run
      BY <3>1, <2>1 DEF Locals, ChainPcs, IdlePcs
    <3>2. CASE pc' = "reconcile" /\ run' = NoRun
      BY <3>2 DEF Locals, ChainPcs, IdlePcs, NoRun
    <3>3. CASE pc' = "count" /\ run' = [run EXCEPT !.why = "tree"]
      <4>1. run'.c = run.c
        BY <1>1, <3>3 DEF RunRow
      <4> QED
        BY <2>1, <3>3, <4>1 DEF Locals, ChainPcs, IdlePcs
    <3> QED
      BY <2>1, <3>1, <3>2, <3>3
  <2> QED
    BY <1>1, <1>2, <1>10, <2>1, <2>2, <2>3, TypeBounds, Whole DEF OpenFresh, Pcs
<1> QED
  BY <1>4, <1>5, <1>6, <1>7, <1>8, <1>9, <1>10 DEF Opening

LEMMA WrittenIs ==
  ASSUME TypeInv, NEW c \in Chains, NEW s \in Says
  PROVE  Written(c, s) \in FileRow
<1>1. chain[c] \in ChainRow
  BY Parts
<1> QED
  BY <1>1 DEF Written, FileRow, ChainRow

LEMMA TypeWorker ==
  ASSUME TypeInv, Worker
  PROVE  TypeInv'
<1>1. /\ finding \in FindingRow /\ chain \in [Chains -> ChainRow]
      /\ file \in FileRow /\ tip \in Commits /\ pc \in Pcs /\ habit \in Habits
      /\ failed \in Nat /\ run \in RunRow /\ Locals
  BY Parts
<1>2. UNCHANGED <<finding, tip, habit, failed>> /\ (Fault \/ UNCHANGED bounds)
  BY DEF Worker, WorkerSpends, WorkerWrites, WorkerReturns, WorkerNotRun, World, bounds
<1>3. ASSUME NEW c \in Chains, WorkerSpends(c)
      PROVE  TypeInv'
  <2>1. chain' \in [Chains -> ChainRow]
    <3>1. [chain[c] EXCEPT !.spent = TRUE] \in ChainRow
      BY <1>1 DEF ChainRow
    <3>2. chain' = [chain EXCEPT ![c] = [chain[c] EXCEPT !.spent = TRUE]]
      BY <1>1, <1>3 DEF WorkerSpends
    <3> QED
      BY <1>1, <3>1, <3>2
  <2>2. UNCHANGED <<pc, run, file>>
    BY <1>3 DEF WorkerSpends, World
  <2> QED
    BY <1>1, <1>2, <2>1, <2>2, TypeBounds, Whole DEF Locals
<1>4. ASSUME NEW c \in Chains, NEW s \in Says, WorkerWrites(c, s)
      PROVE  TypeInv'
  <2>1. file' \in FileRow
    BY <1>4, WrittenIs DEF WorkerWrites
  <2>2. UNCHANGED <<pc, run, chain>>
    BY <1>4 DEF WorkerWrites
  <2> QED
    BY <1>1, <1>2, <2>1, <2>2, TypeBounds, Whole DEF Locals
<1>5. ASSUME NEW end \in Endings, WorkerReturns(end)
      PROVE  TypeInv'
  <2>1. run.c \in Chains
    BY <1>1, <1>5 DEF WorkerReturns, Locals, ChainPcs, At
  <2>2. file' \in FileRow
    BY <1>1, <1>5, <2>1, WrittenIs DEF WorkerReturns
  <2>3. \E e \in {"done", "pause", "fail"} : run' = [run EXCEPT !.end = e]
    BY <1>5 DEF WorkerReturns
  <2>4. run' \in RunRow /\ run'.c = run.c
    BY <1>1, <2>3 DEF RunRow
  <2>5. pc' = "record" /\ UNCHANGED chain
    BY <1>5 DEF WorkerReturns
  <2>6. Locals'
    BY <2>1, <2>4, <2>5 DEF Locals, ChainPcs, IdlePcs
  <2> QED
    BY <1>1, <1>2, <2>2, <2>4, <2>5, <2>6, TypeBounds, Whole DEF Pcs
<1>6. CASE WorkerNotRun
  <2>1. EndCycle /\ UNCHANGED <<chain, file>>
    BY <1>6 DEF WorkerNotRun
  <2>2. Locals'
    BY <2>1 DEF Locals, ChainPcs, IdlePcs, EndCycle, NoRun
  <2> QED
    BY <1>1, <1>2, <2>1, <2>2, NoRunIs, TypeBounds, Whole DEF EndCycle, Pcs
<1> QED
  BY <1>3, <1>4, <1>5, <1>6 DEF Worker

LEMMA TypeOperator ==
  ASSUME TypeInv, Operator
  PROVE  TypeInv'
<1>1. /\ finding \in FindingRow /\ chain \in [Chains -> ChainRow]
      /\ file \in FileRow /\ tip \in Commits /\ pc \in Pcs /\ habit \in Habits
      /\ failed \in Nat /\ run \in RunRow /\ Locals /\ troubles \in Nat /\ asks \in Nat
  BY Parts
<1>2. UNCHANGED <<chain, file, tip, pc, run, habit, troubles>> /\ asks' = asks + 1
  BY DEF Operator, Ask, Override, Asks
<1>3. finding' \in FindingRow /\ failed' \in Nat
  <2>1. CASE Ask
    BY <1>1, <2>1 DEF Ask, FindingRow
  <2>2. ASSUME NEW mode \in Asked, Override(mode)
        PROVE  finding' \in FindingRow /\ failed' \in Nat
    BY <1>1, <2>2, RecheckAssumption DEF Override, FindingRow
  <2> QED
    BY <2>1, <2>2 DEF Operator
<1>4. Locals'
  BY <1>1, <1>2 DEF Locals
<1> QED
  BY <1>1, <1>2, <1>3, <1>4, Whole

LEMMA TypeEnvironment ==
  ASSUME TypeInv, Environment
  PROVE  TypeInv'
<1>1. /\ finding \in FindingRow /\ chain \in [Chains -> ChainRow]
      /\ file \in FileRow /\ tip \in Commits /\ pc \in Pcs /\ habit \in Habits
      /\ failed \in Nat /\ run \in RunRow /\ Locals
  BY Parts
<1>2. UNCHANGED <<finding, file, habit, failed>> /\ (Fault \/ UNCHANGED bounds)
  BY DEF Environment, Crash, Push, StrayExits, TreeLost, World
<1>3. CASE Crash
  <2>1. chain' = chain \/ (At("work") /\ chain' = [chain EXCEPT ![run.c].stray = TRUE])
    BY <1>3 DEF Crash
  <2>2. chain' \in [Chains -> ChainRow]
    <3>1. CASE chain' = chain
      BY <1>1, <3>1
    <3>2. CASE At("work") /\ chain' = [chain EXCEPT ![run.c].stray = TRUE]
      <4>1. run.c \in Chains
        BY <1>1, <3>2 DEF Locals, ChainPcs, At
      <4>2. [chain[run.c] EXCEPT !.stray = TRUE] \in ChainRow
        BY <1>1, <4>1 DEF ChainRow
      <4>3. chain' = [chain EXCEPT ![run.c] = [chain[run.c] EXCEPT !.stray = TRUE]]
        BY <1>1, <3>2, <4>1
      <4> QED
        BY <1>1, <4>2, <4>3
    <3> QED
      BY <2>1, <3>1, <3>2
  <2>3. pc' = "down" /\ run' = NoRun /\ UNCHANGED tip
    BY <1>3 DEF Crash
  <2>4. Locals'
    BY <2>3 DEF Locals, ChainPcs, IdlePcs, NoRun
  <2> QED
    BY <1>1, <1>2, <2>2, <2>3, <2>4, NoRunIs, TypeBounds, Whole DEF Pcs
<1>4. CASE Push
  <2>1. tip' \in Commits
    BY <1>1, <1>4, RecheckAssumption DEF Push, Commits
  <2>2. UNCHANGED <<pc, run, chain>>
    BY <1>4 DEF Push
  <2> QED
    BY <1>1, <1>2, <2>1, <2>2, TypeBounds, Whole DEF Locals
<1>5. ASSUME NEW c \in Chains, StrayExits(c) \/ TreeLost(c)
      PROVE  TypeInv'
  <2>1. chain' \in [Chains -> ChainRow]
    <3>1. /\ [chain[c] EXCEPT !.stray = FALSE] \in ChainRow
          /\ [chain[c] EXCEPT !.tree = FALSE] \in ChainRow
      BY <1>1 DEF ChainRow
    <3>2. Forgotten([chain[c] EXCEPT !.stray = FALSE]) \in ChainRow
      BY <3>1, RowSteps
    <3>3. \/ chain' = [chain EXCEPT ![c] = Forgotten([chain[c] EXCEPT !.stray = FALSE])]
          \/ chain' = [chain EXCEPT ![c] = [chain[c] EXCEPT !.tree = FALSE]]
      BY <1>1, <1>5 DEF StrayExits, TreeLost
    <3> QED
      BY <1>1, <3>1, <3>2, <3>3
  <2>2. UNCHANGED <<pc, run, tip>>
    BY <1>5 DEF StrayExits, TreeLost, World
  <2> QED
    BY <1>1, <1>2, <2>1, <2>2, TypeBounds, Whole DEF Locals
<1> QED
  BY <1>3, <1>4, <1>5 DEF Environment

(* Where a counted failure goes on *)
LEMMA ResumedIs ==
  ASSUME TypeInv, NEW ended \in BOOLEAN, Resumed(ended)
  PROVE  \/ pc' \in {"pick", "start", "reconcile"} /\ run' = NoRun
         \/ pc' = "spend" /\ run' = run
BY DEF Resumed, EndCycle, Goto

LEMMA TypeSettling ==
  ASSUME TypeInv, Settling
  PROVE  TypeInv'
<1>1. /\ finding \in FindingRow /\ chain \in [Chains -> ChainRow]
      /\ file \in FileRow /\ tip \in Commits /\ pc \in Pcs /\ habit \in Habits
      /\ failed \in Nat /\ run \in RunRow /\ Locals
  BY Parts
<1>2. UNCHANGED <<file, tip, habit>> /\ (Fault \/ UNCHANGED bounds)
  BY DEF Settling, Record, Close, Read, Settle, Count, Back, Clear, Spend, World, bounds
<1>3. NoRun \in RunRow /\ run \in RunRow
  BY <1>1, NoRunIs
<1>4. CASE Record
  <2>1. run.c \in Chains /\ pc' = "close" /\ UNCHANGED <<finding, failed>>
    BY <1>1, <1>4 DEF Record, Locals, ChainPcs, At
  <2>2. chain' \in [Chains -> ChainRow]
    <3>1. Paused(chain[run.c]) \in ChainRow /\ Over(chain[run.c]) \in ChainRow
      BY <1>1, <2>1, RowSteps
    <3> QED
      BY <1>1, <1>4, <3>1, OneRow DEF Record
  <2>3. run' \in RunRow /\ run'.c = run.c
    BY <1>1, <1>4 DEF Record, RunRow
  <2>4. Locals'
    BY <2>1, <2>3 DEF Locals, ChainPcs, IdlePcs
  <2> QED
    BY <1>1, <1>2, <2>1, <2>2, <2>3, <2>4, TypeBounds, Whole DEF Pcs
<1>5. CASE Close
  <2>1. run.c \in Chains
    BY <1>1, <1>5 DEF Close, Locals, ChainPcs, At
  <2>2. /\ chain' = [chain EXCEPT ![run.c] = Swept(chain[run.c])]
        /\ pc' \in {"spend", "read"} /\ UNCHANGED <<finding, failed, run>>
    BY <1>5 DEF Close, Goto, World
  <2>3. chain' \in [Chains -> ChainRow]
    BY <1>1, <2>1, <2>2, RowSteps, OneRow
  <2>4. Locals'
    BY <1>1, <2>2 DEF Locals, ChainPcs, IdlePcs
  <2> QED
    BY <1>1, <1>2, <2>2, <2>3, <2>4, TypeBounds, Whole DEF Pcs
<1>6. CASE Read
  <2>1. /\ pc' \in {"settle", "count"} /\ UNCHANGED <<finding, chain, failed>>
        /\ \/ run' = [run EXCEPT !.read = file]
           \/ \E w \in Failures : run' = [run EXCEPT !.why = w]
    BY <1>6 DEF Read, World, Failures
  <2>2. run' \in RunRow /\ run'.c = run.c /\ run'.resume = run.resume
    BY <1>1, <2>1 DEF RunRow
  <2>3. Locals'
    BY <1>1, <2>1, <2>2 DEF Locals, ChainPcs, IdlePcs
  <2> QED
    BY <1>1, <1>2, <2>1, <2>2, <2>3, TypeBounds, Whole DEF Pcs
<1>7. CASE Settle
  <2>1. pc' = "clear" /\ UNCHANGED <<chain, run, failed>>
    BY <1>7 DEF Settle, Goto
  <2>2. finding' \in FindingRow
    <3>1. run.at \in Commits /\ 0 \in Commits
      BY <1>1, RunFields, RecheckAssumption DEF Commits
    <3>2. \/ finding' = finding
          \/ finding' = [finding EXCEPT !.status = "new"]
          \/ finding' = [finding EXCEPT !.status = "superseded", !.anchor = 0]
          \/ finding' = [finding EXCEPT !.status = "rejected", !.anchor = run.at]
      BY <1>7 DEF Settle, Verdicts
    <3> QED
      BY <1>1, <3>1, <3>2 DEF FindingRow
  <2>3. Locals'
    BY <1>1, <2>1 DEF Locals, ChainPcs, IdlePcs
  <2> QED
    BY <1>1, <1>2, <2>1, <2>2, <2>3, TypeBounds, Whole DEF Pcs
<1>8. ASSUME NEW ended \in BOOLEAN, Resumed(ended),
             finding' \in FindingRow, failed' \in Nat, UNCHANGED chain
      PROVE  TypeInv'
  <2>1. run' \in RunRow /\ pc' \in Pcs
    BY <1>3, <1>8, ResumedIs DEF Pcs
  <2>2. Locals'
    BY <1>1, <1>8, ResumedIs DEF Locals, ChainPcs, IdlePcs, NoRun
  <2> QED
    BY <1>1, <1>2, <1>8, <2>1, <2>2, TypeBounds, Whole
<1>9. CASE Count
  <2>1. finding' \in FindingRow /\ failed' \in Nat
    <3>1. Counted(run.why) \in [n : Nat, why : Failures]
      BY <1>1, RunFields DEF Counted, FindingRow
    <3>2. \/ finding' = finding
          \/ finding' = [finding EXCEPT !.streak = Counted(run.why)]
      BY <1>9 DEF Count
    <3>3. finding' \in FindingRow
      BY <1>1, <3>1, <3>2 DEF FindingRow
    <3>4. failed' \in {failed, failed + 1}
      BY <1>9 DEF Count
    <3>5. failed' \in Nat
      BY <1>1, <3>4
    <3> QED
      BY <3>3, <3>5
  <2>2. UNCHANGED chain /\ (Resumed(FALSE) \/ Goto("back"))
    BY <1>9 DEF Count
  <2>3. CASE Goto("back")
    <3>1. Locals' /\ UNCHANGED run /\ pc' = "back"
      BY <1>1, <2>3 DEF Goto, Locals, ChainPcs, IdlePcs
    <3> QED
      BY <1>1, <1>2, <2>1, <2>2, <3>1, TypeBounds, Whole DEF Pcs
  <2> QED
    BY <1>8, <2>1, <2>2, <2>3
<1>10. CASE Back
  <2>1. finding' \in FindingRow /\ UNCHANGED <<chain, failed>>
    BY <1>1, <1>10 DEF Back, FindingRow
  <2>2. Resumed(FALSE) \/ (pc' = "clear" /\ run' = [run EXCEPT !.ended = TRUE])
    BY <1>10 DEF Back
  <2>3. CASE pc' = "clear" /\ run' = [run EXCEPT !.ended = TRUE]
    <3>1. run' \in RunRow /\ run'.c = run.c /\ run'.resume = run.resume
      BY <1>1, <2>3 DEF RunRow
    <3>2. Locals'
      BY <1>1, <2>3, <3>1 DEF Locals, ChainPcs, IdlePcs
    <3> QED
      BY <1>1, <1>2, <2>1, <2>3, <3>1, <3>2, TypeBounds, Whole DEF Pcs
  <2> QED
    BY <1>1, <1>8, <2>1, <2>2, <2>3
<1>11. CASE Clear
  <2>1. finding' \in FindingRow /\ UNCHANGED <<chain, failed>>
    BY <1>1, <1>11 DEF Clear, FindingRow, NoStreak, Failures
  <2>2. Resumed(TRUE) \/ Goto("spend")
    BY <1>11 DEF Clear
  <2>3. CASE Goto("spend")
    <3>1. Locals' /\ UNCHANGED run /\ pc' = "spend"
      BY <1>1, <2>3 DEF Goto, Locals, ChainPcs, IdlePcs
    <3> QED
      BY <1>1, <1>2, <2>1, <3>1, TypeBounds, Whole DEF Pcs
  <2> QED
    BY <1>1, <1>8, <2>1, <2>2, <2>3
<1>12. CASE Spend
  <2>1. finding' \in FindingRow
    BY <1>1, <1>12 DEF Spend, FindingRow, Modes
  <2>2. pc' = "reconcile" /\ run' = NoRun /\ UNCHANGED <<chain, failed>>
    BY <1>12 DEF Spend, EndCycle
  <2>3. Locals'
    BY <2>2 DEF Locals, ChainPcs, IdlePcs, NoRun
  <2> QED
    BY <1>1, <1>2, <1>3, <2>1, <2>2, <2>3, TypeBounds, Whole DEF Pcs
<1> QED
  BY <1>4, <1>5, <1>6, <1>7, <1>9, <1>10, <1>11, <1>12 DEF Settling

LEMMA TypeInit ==
  ASSUME Init
  PROVE  TypeInv
<1>1. finding \in FindingRow /\ tip \in Commits
  BY RecheckAssumption DEF Init, FindingRow, NoStreak, Modes, Failures, Commits
<1>2. chain \in [Chains -> ChainRow]
  BY NoChainIs DEF Init
<1>3. Locals
  BY DEF Init, Locals, ChainPcs, NoRun
<1> QED
  BY <1>1, <1>2, <1>3, NoFileIs, NoRunIs, TypeIs DEF Init, TypeInv, Pcs

LEMMA TypeStep ==
  ASSUME TypeInv, [Next]_vars
  PROVE  TypeInv'
<1>1. CASE UNCHANGED vars
  <2>1. UNCHANGED <<finding, chain, file, tip, pc, run, habit, failed, troubles, asks>>
    BY <1>1 DEF vars, bounds
  <2> QED
    BY <2>1, Parts, Whole DEF Locals
<1>2. CASE Next
  BY <1>2, TypePasses, TypeSelect, TypeOpening, TypeWorker, TypeSettling, TypeOperator,
     TypeEnvironment DEF Next
<1> QED
  BY <1>1, <1>2

(* The tables, the file and the locals of run_recheck keep their types, and *)
(* the locals are reset wherever the loop starts anew (run_cycle, run_recheck)*)
THEOREM TypeCorrect == Spec => []TypeOK
<1>1. Spec => []TypeInv
  BY TypeInit, TypeStep, PTL DEF Spec
<1>2. TypeInv => TypeOK
  BY DEF TypeInv
<1> QED
  BY <1>1, <1>2, PTL

-----------------------------------------------------------------------------
(* The streak *)

AskedFor ==
  pc \in {"plan", "start", "sync", "gate", "create", "open", "unlink", "work", "record",
          "close", "read", "settle", "count", "back"} => finding.status = "rechecking"

StreakIsCounted ==
  troubles = 0 /\ pc # "clear"
    => /\ finding.streak.n <= failed \/ failed >= MaxSameFailure
       /\ finding.status = "new" => finding.streak.n = 0

StuckAtTheCeiling == pc = "back" => finding.streak.n >= MaxSameFailure

StreakInv == TypeInv /\ AskedFor /\ StreakIsCounted /\ StuckAtTheCeiling

(* A step that leaves the finding and the count of its failures alone *)
LEMMA StreakQuiet ==
  ASSUME StreakInv, TypeInv', UNCHANGED <<finding, failed>>,
         \/ troubles' = troubles /\ (pc = "clear" => pc' = "clear")
         \/ troubles' = troubles + 1,
         pc' = "back" => pc = "back",
         AskedFor'
  PROVE  StreakInv'
<1>1. troubles \in Nat
  BY Parts DEF StreakInv
<1>2. StreakIsCounted'
  BY <1>1 DEF StreakInv, StreakIsCounted
<1>3. StuckAtTheCeiling'
  BY DEF StreakInv, StuckAtTheCeiling
<1> QED
  BY <1>2, <1>3 DEF StreakInv

LEMMA StreakSelects ==
  ASSUME StreakInv, TypeInv', Passes \/ Select \/ Opening
  PROVE  StreakInv'
<1>1. /\ UNCHANGED <<finding, failed>>
      /\ troubles' = troubles \/ troubles' = troubles + 1
      /\ pc # "clear" /\ pc' # "back"
  <2>1. CASE Passes
    BY <2>1 DEF Passes, Boot, Sweep, Reconcile, World, bounds, Goto, At
  <2>2. CASE Select
    BY <2>2 DEF Select, PickRecheck, StartFresh, WorkdirGone, ResumeChain, GiveUpChain,
       Offered, World, bounds, Goto, At, EndCycle, Fault
  <2>3. CASE Opening
    BY <2>3 DEF Opening, Start, SyncRepo, SyncFails, Granted, Denied, CreateResumed,
       CreateFresh, CreateFails, OpenResumed, OpenFresh, Unlink, World, bounds, Goto, At,
       EndCycle, Fault
  <2> QED
    BY <2>1, <2>2, <2>3
<1>2. AskedFor
  BY DEF StreakInv
<1>3. AskedFor'
  <2>1. CASE Passes
    <3>1. pc' \in {"boot", "reconcile", "sweep", "pick"}
      BY <2>1 DEF Passes, Boot, Sweep, Reconcile, Goto
    <3> QED
      BY <3>1 DEF AskedFor
  <2>2. CASE Select
    <3>1. pc = "plan" \/ finding.status = "rechecking" \/ pc' = "reconcile"
      BY <2>2 DEF Select, PickRecheck, StartFresh, WorkdirGone, ResumeChain, GiveUpChain,
         Offered, At, EndCycle
    <3>2. finding.status = "rechecking" \/ pc' = "reconcile"
      BY <1>2, <3>1 DEF AskedFor
    <3> QED
      BY <1>1, <3>2 DEF AskedFor
  <2>3. CASE Opening
    <3>1. pc \in {"start", "sync", "gate", "create", "open", "unlink"}
      BY <2>3 DEF Opening, Start, SyncRepo, SyncFails, Granted, Denied, CreateResumed,
         CreateFresh, CreateFails, OpenResumed, OpenFresh, Unlink, At
    <3>2. finding.status = "rechecking"
      BY <1>2, <3>1 DEF AskedFor
    <3> QED
      BY <1>1, <3>2 DEF AskedFor
  <2> QED
    BY <2>1, <2>2, <2>3
<1> QED
  BY <1>1, <1>3, StreakQuiet

LEMMA StreakWorks ==
  ASSUME StreakInv, TypeInv', Worker \/ Environment
  PROVE  StreakInv'
<1>1. /\ UNCHANGED <<finding, failed>>
      /\ \/ troubles' = troubles /\ (pc = "clear" => pc' = "clear")
         \/ troubles' = troubles + 1
      /\ pc' = pc \/ pc' \in {"record", "reconcile", "down"}
      /\ pc' = "record" => pc \in {"work", "record"}
  <2>1. CASE Worker
    BY <2>1 DEF Worker, WorkerSpends, WorkerWrites, WorkerReturns, WorkerNotRun, World,
       bounds, At, EndCycle, Fault
  <2>2. CASE Environment
    BY <2>2 DEF Environment, Crash, Push, StrayExits, TreeLost, World, bounds, Fault
  <2> QED
    BY <2>1, <2>2
<1>2. AskedFor
  BY DEF StreakInv
<1>3. AskedFor'
  BY <1>1, <1>2 DEF AskedFor
<1> QED
  BY <1>1, <1>3, StreakQuiet

LEMMA StreakOperator ==
  ASSUME StreakInv, TypeInv', Operator
  PROVE  StreakInv'
<1>1. finding \in FindingRow /\ failed \in Nat
  BY Parts DEF StreakInv
<1>2. AskedFor /\ StreakIsCounted /\ StuckAtTheCeiling
  BY DEF StreakInv
<1>3. UNCHANGED <<pc, troubles>>
  BY DEF Operator, Ask, Override, Asks
<1>4. CASE Ask
  <2>1. /\ finding.status = "new" /\ failed' = 0
        /\ finding'.status = "rechecking" /\ finding'.streak = finding.streak
    BY <1>1, <1>4 DEF Ask, FindingRow
  <2>2. AskedFor' /\ StuckAtTheCeiling'
    BY <1>2, <1>3, <2>1 DEF AskedFor, StuckAtTheCeiling
  <2>3. StreakIsCounted'
    BY <1>2, <1>3, <2>1 DEF StreakIsCounted
  <2> QED
    BY <2>2, <2>3 DEF StreakInv
<1>5. ASSUME NEW mode \in Asked, Override(mode)
      PROVE  StreakInv'
  <2>1. /\ finding'.status = finding.status /\ finding'.streak = finding.streak
        /\ failed' = failed
    BY <1>1, <1>5 DEF Override, FindingRow
  <2>2. AskedFor' /\ StuckAtTheCeiling' /\ StreakIsCounted'
    BY <1>2, <1>3, <2>1 DEF AskedFor, StuckAtTheCeiling, StreakIsCounted
  <2> QED
    BY <2>2 DEF StreakInv
<1> QED
  BY <1>4, <1>5 DEF Operator

(* A failure is counted once in the streak and once among the request's. *)
LEMMA CountedOnce ==
  ASSUME StreakInv, At("count"),
         finding' = [finding EXCEPT !.streak = Counted(run.why)],
         failed' = IF failed < MaxSameFailure THEN failed + 1 ELSE failed
  PROVE  /\ finding'.status = "rechecking"
         /\ finding'.streak.n = Counted(run.why).n
         /\ troubles = 0 => finding'.streak.n <= failed' \/ failed' >= MaxSameFailure
<1>1. /\ finding \in FindingRow /\ failed \in Nat /\ finding.streak.n \in Nat
      /\ MaxSameFailure \in Nat
  BY Parts, RecheckAssumption DEF StreakInv, FindingRow
<1>2. /\ finding.status = "rechecking"
      /\ troubles = 0 => finding.streak.n <= failed \/ failed >= MaxSameFailure
  BY DEF StreakInv, AskedFor, StreakIsCounted, At
<1>3. finding'.status = finding.status /\ finding'.streak = Counted(run.why)
  BY <1>1 DEF FindingRow
<1>4. Counted(run.why).n \in {finding.streak.n + 1, 1}
  BY DEF Counted
<1>5. CASE failed < MaxSameFailure
  <2>1. failed' = failed + 1
    BY <1>5
  <2> QED
    BY <1>1, <1>2, <1>3, <1>4, <1>5, <2>1
<1>6. CASE ~(failed < MaxSameFailure)
  BY <1>1, <1>2, <1>3, <1>6
<1> QED
  BY <1>5, <1>6

LEMMA StreakSettles ==
  ASSUME StreakInv, TypeInv', TypeInv, Settling
  PROVE  StreakInv'
<1>1. /\ finding \in FindingRow /\ failed \in Nat /\ troubles \in Nat
      /\ AskedFor /\ StreakIsCounted /\ StuckAtTheCeiling
  BY Parts DEF StreakInv
<1>2. troubles' = troubles \/ troubles' = troubles + 1
  BY DEF Settling, Record, Close, Read, Settle, Count, Back, Clear, Spend, World, bounds,
     Fault
<1>3. CASE Record \/ Close \/ Read
  <2>1. /\ UNCHANGED <<finding, failed>> /\ pc \in {"record", "close", "read"}
        /\ pc' \in {"close", "read", "settle", "count", "spend"}
    BY <1>3 DEF Record, Close, Read, Goto, World, At
  <2>2. AskedFor'
    BY <1>1, <2>1 DEF AskedFor
  <2> QED
    BY <1>2, <2>1, <2>2, StreakQuiet
<1>4. CASE Settle
  <2>1. pc' = "clear"
    BY <1>4 DEF Settle, Goto
  <2> QED
    BY <2>1 DEF StreakInv, AskedFor, StreakIsCounted, StuckAtTheCeiling
<1>5. CASE Count
  <2>1. pc = "count" /\ finding.status = "rechecking"
    BY <1>1, <1>5 DEF Count, At, AskedFor
  <2>2. CASE UNCHANGED <<finding, failed>> /\ Resumed(FALSE) /\ troubles' = troubles + 1
    <3>1. pc' # "back" /\ AskedFor'
      BY <2>1, <2>2, ResumedIs DEF AskedFor
    <3> QED
      BY <2>1, <2>2, <3>1, StreakQuiet
  <2>3. CASE /\ finding' = [finding EXCEPT !.streak = Counted(run.why)]
             /\ failed' = IF failed < MaxSameFailure THEN failed + 1 ELSE failed
             /\ IF Counted(run.why).n < MaxSameFailure THEN Resumed(FALSE)
                                                       ELSE Goto("back")
             /\ troubles' = troubles
    <3>1. /\ finding'.status = "rechecking"
          /\ finding'.streak.n = Counted(run.why).n
          /\ troubles = 0 => finding'.streak.n <= failed' \/ failed' >= MaxSameFailure
      BY <1>5, <2>3, CountedOnce DEF Count
    <3>2. StuckAtTheCeiling'
      <4>1. CASE Counted(run.why).n < MaxSameFailure
        <5>1. pc' # "back"
          BY <2>3, <4>1, ResumedIs
        <5> QED
          BY <5>1 DEF StuckAtTheCeiling
      <4>2. CASE ~(Counted(run.why).n < MaxSameFailure)
        <5>1. finding'.streak.n \in Nat
          <6>1. finding.streak.n \in Nat
            BY <1>1 DEF FindingRow
          <6> QED
            BY <3>1, <6>1 DEF Counted
        <5>2. finding'.streak.n >= MaxSameFailure
          BY <3>1, <4>2, <5>1, RecheckAssumption
        <5> QED
          BY <5>2 DEF StuckAtTheCeiling
      <4> QED
        BY <4>1, <4>2
    <3> QED
      BY <2>3, <3>1, <3>2 DEF StreakInv, AskedFor, StreakIsCounted
  <2> QED
    BY <1>5, <2>2, <2>3 DEF Count, Fault, bounds
<1>6. CASE Back
  <2>1. pc = "back" /\ finding.status = "rechecking"
    BY <1>1, <1>6 DEF Back, At, AskedFor
  <2>2. CASE pc' = "clear"
    BY <2>2 DEF StreakInv, AskedFor, StreakIsCounted, StuckAtTheCeiling
  <2>3. CASE Fault /\ Resumed(FALSE) /\ UNCHANGED finding
    <3>1. /\ pc' # "back" /\ AskedFor' /\ troubles' = troubles + 1
          /\ UNCHANGED failed
      BY <1>6, <2>1, <2>3, ResumedIs DEF AskedFor, Fault, Back
    <3> QED
      BY <2>1, <2>3, <3>1, StreakQuiet
  <2> QED
    BY <1>6, <2>2, <2>3 DEF Back
<1>7. CASE Clear
  <2>1. pc' \in {"pick", "reconcile", "spend", "start"}
    BY <1>7, ResumedIs DEF Clear, Goto
  <2>2. pc' # "start"
    BY <1>7 DEF Clear, Resumed, EndCycle, Goto
  <2>3. AskedFor' /\ StuckAtTheCeiling'
    BY <2>1, <2>2 DEF AskedFor, StuckAtTheCeiling
  <2>4. StreakIsCounted'
    <3>1. CASE Fault
      BY <1>1, <3>1 DEF StreakIsCounted, Fault
    <3>2. CASE finding' = [finding EXCEPT !.streak = NoStreak]
      <4>1. finding'.streak.n = 0
        BY <1>1, <3>2 DEF FindingRow, NoStreak
      <4> QED
        BY <1>1, <1>7, <4>1 DEF StreakIsCounted, Clear
    <3> QED
      BY <1>7, <3>1, <3>2 DEF Clear
  <2> QED
    BY <2>3, <2>4 DEF StreakInv
<1>8. CASE Spend
  <2>1. /\ pc = "spend" /\ pc' = "reconcile" /\ UNCHANGED failed
        /\ finding' = finding \/ finding' = [finding EXCEPT !.override = "none"]
    BY <1>8 DEF Spend, EndCycle, At
  <2>2. finding'.status = finding.status /\ finding'.streak = finding.streak
    BY <1>1, <2>1 DEF FindingRow
  <2>3. AskedFor' /\ StuckAtTheCeiling' /\ StreakIsCounted'
    BY <1>1, <1>2, <2>1, <2>2 DEF AskedFor, StuckAtTheCeiling, StreakIsCounted
  <2> QED
    BY <2>3 DEF StreakInv
<1> QED
  BY <1>3, <1>4, <1>5, <1>6, <1>7, <1>8 DEF Settling

LEMMA StreakStep ==
  ASSUME StreakInv, [Next]_vars
  PROVE  StreakInv'
<1>1. TypeInv /\ TypeInv'
  BY TypeStep DEF StreakInv
<1>2. CASE UNCHANGED vars
  <2>1. UNCHANGED <<finding, pc, failed, troubles>>
    BY <1>2 DEF vars, bounds
  <2> QED
    BY <1>1, <2>1 DEF StreakInv, AskedFor, StreakIsCounted, StuckAtTheCeiling
<1>3. CASE Next
  BY <1>1, <1>3, StreakSelects, StreakWorks, StreakOperator, StreakSettles DEF Next
<1> QED
  BY <1>2, <1>3

(* The streak never runs ahead of the failures of the request it is kept for,*)
(* as long as no write between a status and its streak is lost               *)
(* (record_recheck_attempt, clear_recheck_attempts)                          *)
THEOREM StreakInvariant == Spec => []StreakInv
<1>1. Init => StreakInv
  <2>1. ASSUME Init PROVE StreakInv
    <3>1. TypeInv
      BY <2>1, TypeInit
    <3>2. finding.streak.n = 0 /\ pc = "reconcile" /\ failed = 0
      BY <2>1 DEF Init, NoStreak
    <3> QED
      BY <3>1, <3>2 DEF StreakInv, AskedFor, StreakIsCounted, StuckAtTheCeiling
  <2> QED
    BY <2>1
<1> QED
  BY <1>1, StreakStep, PTL DEF Spec

GivenUpStep == At("back") /\ finding'.status = "new"
                 => failed >= MaxSameFailure \/ troubles > 0

(* A finding goes back to the inbox as stuck only on failures of the request *)
(* the operator made last (handle_recheck_failure)                           *)
THEOREM StuckOnItsOwn == Spec => GivenUpOnItsOwn
<1>1. ASSUME StreakInv, [Next]_vars
      PROVE  [GivenUpStep]_vars
  <2>1. SUFFICES ASSUME At("back"), troubles = 0 PROVE failed >= MaxSameFailure
    BY <1>1, Parts DEF GivenUpStep, StreakInv
  <2>2. /\ finding.streak.n \in Nat /\ failed \in Nat /\ MaxSameFailure \in Nat
    BY Parts, <1>1, RecheckAssumption DEF StreakInv, FindingRow
  <2>3. /\ finding.streak.n <= failed \/ failed >= MaxSameFailure
        /\ finding.streak.n >= MaxSameFailure
    BY <1>1, <2>1 DEF StreakInv, StreakIsCounted, StuckAtTheCeiling, At
  <2> QED
    BY <2>2, <2>3
<1>2. GivenUpOnItsOwn <=> [][GivenUpStep]_vars
  BY PTL DEF GivenUpOnItsOwn, GivenUpStep
<1> QED
  BY <1>1, <1>2, StreakInvariant, PTL DEF Spec

-----------------------------------------------------------------------------
(* One chain is live *)

(* The steps after the row of an attempt is there *)
OwnPcs == {"open", "unlink", "work", "record", "close", "read", "settle", "count",
           "back", "clear", "spend"}

OneLive ==
  \A c, d \in Chains : chain[c].live # "no" /\ chain[d].live # "no" => c = d

(* A running row is an orphan or the scheduler's own. *)
RunningIsOwn ==
  \A c \in Chains : chain[c].live = "running"
    => pc \in {"down", "boot", "reconcile"} \/ (pc \in OwnPcs /\ c = run.c)

OwnRuns ==
  /\ pc \in {"open", "unlink", "work", "record"} => chain[run.c].live = "running"
  /\ pc \in {"start", "gate", "create"} /\ run.resume => chain[run.c].live = "paused"
  /\ pc = "sync" => ~run.resume

(* A chain that was given up is not the one that goes on. *)
GivenUp ==
  /\ pc \in {"start", "sync", "gate", "create"} => run.why = "none"
  /\ run.why = "gaveup" => run.c = 0

LiveInv == TypeInv /\ OneLive /\ RunningIsOwn /\ OwnRuns /\ GivenUp

(* No step but create_job's makes a chain live that was not. *)
Fades == \A c \in Chains : chain'[c].live # "no" => chain[c].live # "no"
Halts == \A c \in Chains : chain'[c].live = "running" => chain[c].live = "running"

LEMMA NoneRuns ==
  ASSUME RunningIsOwn, pc \notin {"down", "boot", "reconcile"} \cup OwnPcs,
         NEW c \in Chains
  PROVE  chain[c].live # "running"
BY DEF RunningIsOwn

(* A step that leaves alone which chains are live and where the loop is *)
LEMMA LiveSame ==
  ASSUME LiveInv, TypeInv', \A c \in Chains : chain'[c].live = chain[c].live,
         pc' = pc, run'.c = run.c, run'.resume = run.resume, run'.why = run.why
  PROVE  LiveInv'
<1>1. pc \in ChainPcs \/ run.resume => run.c \in Chains
  BY Parts DEF LiveInv, Locals
<1>2. OneLive' /\ RunningIsOwn' /\ GivenUp'
  BY DEF LiveInv, OneLive, RunningIsOwn, GivenUp
<1>3. OwnRuns'
  BY <1>1 DEF LiveInv, OwnRuns, ChainPcs
<1> QED
  BY <1>2, <1>3 DEF LiveInv

(* A step to where nothing is chosen *)
LEMMA LiveIdle ==
  ASSUME LiveInv, TypeInv', Fades, Halts, pc' \in IdlePcs,
         \/ pc' \in {"down", "boot", "reconcile"}
         \/ \A c \in Chains : chain'[c].live # "running"
  PROVE  LiveInv'
<1>1. run' = NoRun
  BY DEF TypeInv, Locals
<1>2. OneLive' /\ RunningIsOwn'
  BY DEF LiveInv, OneLive, RunningIsOwn, Fades
<1>3. OwnRuns' /\ GivenUp'
  BY <1>1 DEF OwnRuns, GivenUp, IdlePcs, NoRun
<1> QED
  BY <1>2, <1>3 DEF LiveInv

(* A step of the attempt the scheduler has a row for *)
LEMMA LiveOwn ==
  ASSUME LiveInv, TypeInv', Fades, Halts, pc \in OwnPcs, pc' \in OwnPcs \ {"open"},
         run'.c = run.c, run'.why = "gaveup" => run.why = "gaveup",
         pc' \in {"unlink", "work", "record"} => chain'[run.c].live = "running"
  PROVE  LiveInv'
<1>1. OneLive' /\ RunningIsOwn'
  BY DEF LiveInv, OneLive, RunningIsOwn, Fades, Halts, OwnPcs
<1>2. OwnRuns' /\ GivenUp'
  BY DEF LiveInv, OwnRuns, GivenUp, OwnPcs
<1> QED
  BY <1>1, <1>2 DEF LiveInv

LEMMA LivePasses ==
  ASSUME LiveInv, TypeInv', Passes
  PROVE  LiveInv'
<1>1. chain \in [Chains -> ChainRow] /\ RunningIsOwn
  BY Parts DEF LiveInv
<1>2. CASE Boot
  BY <1>2, LiveIdle DEF Boot, Goto, Fades, Halts, IdlePcs
<1>3. CASE Reconcile
  <2>1. ASSUME NEW c \in Chains
        PROVE  /\ chain'[c].live # "running"
               /\ chain'[c].live # "no" => chain[c].live # "no"
    <3>1. chain'[c] = IF chain[c].live = "running" THEN Orphaned(chain[c]) ELSE chain[c]
      BY <1>3 DEF Reconcile
    <3> QED
      BY <1>1, <3>1, RowSteps DEF Orphaned
  <2> QED
    BY <1>3, <2>1, LiveIdle DEF Reconcile, Goto, Fades, Halts, IdlePcs
<1>4. ASSUME NEW p, NEW q, Sweep(p, q)
      PROVE  Fades /\ Halts
  <2>1. ASSUME NEW c \in Chains
        PROVE  chain'[c].live \in {chain[c].live, "no"}
    <3>1. chain'[c] =
            Swept(IF chain[c].live = "paused" /\ finding.status # "rechecking"
                    THEN Over(chain[c]) ELSE chain[c])
      BY <1>4 DEF Sweep
    <3>2. Over(chain[c]) \in ChainRow /\ Over(chain[c]).live = "no"
      BY <1>1, RowSteps
    <3> QED
      BY <1>1, <3>1, <3>2, RowSteps
  <2> QED
    BY <2>1 DEF Fades, Halts
<1>5. CASE Sweep("boot", "reconcile")
  BY <1>4, <1>5, LiveIdle DEF Sweep, Goto, IdlePcs
<1>6. CASE Sweep("sweep", "pick")
  <2>1. \A c \in Chains : chain[c].live # "running"
    BY <1>1, <1>6, NoneRuns DEF Sweep, At, OwnPcs
  <2> QED
    BY <1>4, <1>6, <2>1, LiveIdle DEF Sweep, Goto, IdlePcs, Halts
<1> QED
  BY <1>2, <1>3, <1>5, <1>6 DEF Passes

LEMMA LiveWorks ==
  ASSUME LiveInv, TypeInv', TypeInv, Worker \/ Operator \/ Environment
  PROVE  LiveInv'
<1>1. chain \in [Chains -> ChainRow] /\ run \in RunRow /\ OwnRuns
  BY Parts DEF LiveInv
<1>2. \A c \in Chains : chain'[c].live = chain[c].live
  <2>1. CASE Worker
    BY <1>1, <2>1 DEF Worker, WorkerSpends, WorkerWrites, WorkerReturns, WorkerNotRun,
       ChainRow
  <2>2. CASE Operator
    BY <2>2 DEF Operator, Ask, Override, Asks
  <2>3. CASE Crash \/ Push
    BY <1>1, <2>3 DEF Crash, Push, ChainRow
  <2>4. ASSUME NEW d \in Chains, TreeLost(d)
        PROVE  \A c \in Chains : chain'[c].live = chain[c].live
    BY <1>1, <2>4 DEF TreeLost, ChainRow
  <2>5. ASSUME NEW d \in Chains, StrayExits(d)
        PROVE  \A c \in Chains : chain'[c].live = chain[c].live
    <3>1. [chain[d] EXCEPT !.stray = FALSE] \in ChainRow
      BY <1>1 DEF ChainRow
    <3>2. Forgotten([chain[d] EXCEPT !.stray = FALSE]).live = chain[d].live
      BY <1>1, <3>1, RowSteps DEF ChainRow
    <3>3. chain' = [chain EXCEPT ![d] = Forgotten([chain[d] EXCEPT !.stray = FALSE])]
      BY <2>5 DEF StrayExits
    <3> QED
      BY <1>1, <3>2, <3>3
  <2> QED
    BY <2>1, <2>2, <2>3, <2>4, <2>5 DEF Environment
<1>3. \/ pc' = pc /\ run' = run
      \/ pc' \in {"down", "reconcile"}
      \/ \E end \in Endings : WorkerReturns(end)
  BY DEF Worker, WorkerSpends, WorkerWrites, WorkerNotRun, EndCycle, Operator, Ask,
     Override, Asks, Environment, Crash, Push, StrayExits, TreeLost, World
<1>4. CASE pc' = pc /\ run' = run
  BY <1>2, <1>4, LiveSame
<1>5. CASE pc' \in {"down", "reconcile"}
  BY <1>2, <1>5, LiveIdle DEF IdlePcs, Fades, Halts
<1>6. ASSUME NEW end \in Endings, WorkerReturns(end)
      PROVE  LiveInv'
  <2>1. pc = "work" /\ pc' = "record" /\ run.c \in Chains
    BY <1>6, Parts DEF WorkerReturns, At, Locals, ChainPcs
  <2>2. run'.c = run.c /\ run'.why = run.why
    BY <1>1, <1>6 DEF WorkerReturns, RunRow
  <2>3. chain'[run.c].live = "running"
    BY <1>1, <1>2, <2>1 DEF OwnRuns
  <2> QED
    BY <1>2, <2>1, <2>2, <2>3, LiveOwn DEF Fades, Halts, OwnPcs
<1> QED
  BY <1>3, <1>4, <1>5, <1>6

LEMMA LiveSelect ==
  ASSUME LiveInv, TypeInv', TypeInv, Select
  PROVE  LiveInv'
<1>1. /\ chain \in [Chains -> ChainRow] /\ run = NoRun /\ pc \in {"pick", "plan"}
  <2>1. pc \in {"pick", "plan"}
    BY DEF Select, PickRecheck, StartFresh, WorkdirGone, ResumeChain, GiveUpChain,
       Offered, At
  <2> QED
    BY <2>1, Parts DEF Locals, IdlePcs
<1>2. \A c \in Chains : chain[c].live # "running"
  BY <1>1, NoneRuns DEF LiveInv, OwnPcs
<1>3. \A c \in Chains : chain'[c].live \in {chain[c].live, "no"}
  <2>1. CASE chain' = chain
    BY <2>1
  <2>2. ASSUME NEW d \in Chains, chain' = [chain EXCEPT ![d] = Over(chain[d])]
        PROVE  \A c \in Chains : chain'[c].live \in {chain[c].live, "no"}
    BY <1>1, <2>2, RowSteps
  <2>3. chain' = chain \/ \E d \in Chains : chain' = [chain EXCEPT ![d] = Over(chain[d])]
    BY DEF Select, PickRecheck, StartFresh, WorkdirGone, ResumeChain, GiveUpChain
  <2> QED
    BY <2>1, <2>2, <2>3
<1>4. Fades /\ \A c \in Chains : chain'[c].live # "running"
  BY <1>2, <1>3 DEF Fades
<1>5. OneLive' /\ RunningIsOwn'
  BY <1>4 DEF LiveInv, OneLive, RunningIsOwn, Fades
<1>6. CASE pc' \in IdlePcs
  BY <1>4, <1>6, LiveIdle DEF Halts
<1>7. CASE pc' = "start" /\ run' = NoRun
  BY <1>5, <1>7 DEF LiveInv, OwnRuns, GivenUp, NoRun
<1>8. ASSUME NEW c \in Chains, ResumeChain(c)
      PROVE  LiveInv'
  <2>1. /\ pc' = "start" /\ run' = [NoRun EXCEPT !.c = c, !.resume = TRUE]
        /\ chain' = chain /\ chain[c].live = "paused"
    BY <1>1, <1>8 DEF ResumeChain, Offered
  <2>2. run'.c = c /\ run'.why = "none"
    BY <2>1 DEF NoRun
  <2> QED
    BY <1>5, <2>1, <2>2 DEF LiveInv, OwnRuns, GivenUp
<1>9. CASE pc' = "count" /\ run' = [NoRun EXCEPT !.why = "gaveup"]
  <2>1. run'.c = 0
    BY <1>9 DEF NoRun
  <2> QED
    BY <1>5, <1>9, <2>1 DEF LiveInv, OwnRuns, GivenUp
<1> QED
  <2>1. CASE PickRecheck \/ StartFresh
    BY <1>1, <1>6, <1>7, <2>1 DEF PickRecheck, StartFresh, Goto, EndCycle, IdlePcs
  <2>2. ASSUME NEW c \in Chains, WorkdirGone(c)
        PROVE  pc' \in IdlePcs
    BY <1>1, <2>2 DEF WorkdirGone, IdlePcs
  <2>3. ASSUME NEW c \in Chains, GiveUpChain(c)
        PROVE  \/ pc' = "start" /\ run' = NoRun
               \/ pc' = "count" /\ run' = [NoRun EXCEPT !.why = "gaveup"]
    BY <1>1, <2>3 DEF GiveUpChain, Goto
  <2> QED
    BY <1>6, <1>7, <1>8, <1>9, <2>1, <2>2, <2>3 DEF Select

LEMMA LiveOpening ==
  ASSUME LiveInv, TypeInv', TypeInv, Opening
  PROVE  LiveInv'
<1>1. /\ chain \in [Chains -> ChainRow] /\ run \in RunRow /\ Locals
      /\ OneLive /\ RunningIsOwn /\ OwnRuns /\ GivenUp
  BY Parts DEF LiveInv
<1>2. CASE Start \/ SyncRepo \/ Granted
  <2>1. /\ pc \in {"start", "sync", "gate"} /\ pc' \in {"sync", "gate", "create"}
        /\ UNCHANGED chain /\ (pc' = "sync" => ~run.resume)
        /\ pc = "sync" => ~run.resume
    BY <1>1, <1>2 DEF Start, SyncRepo, Granted, Goto, At, OwnRuns
  <2>2. run'.c = run.c /\ run'.resume = run.resume /\ run'.why = run.why
    BY <1>1, <1>2 DEF Start, SyncRepo, Granted, Goto, RunRow
  <2>3. \A c \in Chains : chain[c].live # "running"
    BY <1>1, <2>1, NoneRuns DEF OwnPcs
  <2>4. OneLive' /\ RunningIsOwn'
    BY <1>1, <2>1, <2>3 DEF OneLive, RunningIsOwn
  <2>5. OwnRuns' /\ GivenUp'
    BY <1>1, <2>1, <2>2 DEF OwnRuns, GivenUp
  <2> QED
    BY <2>4, <2>5 DEF LiveInv
<1>3. CASE SyncFails \/ Denied \/ CreateFails
  BY <1>3, LiveIdle DEF SyncFails, Denied, CreateFails, EndCycle, World, Fades, Halts, IdlePcs
<1>4. CASE CreateResumed
  <2>1. /\ pc = "create" /\ pc' = "open" /\ run.resume /\ run.c \in Chains
        /\ chain[run.c].live = "paused"
    BY <1>1, <1>4 DEF CreateResumed, At, Locals, OwnRuns
  <2>2. \A c \in Chains : chain[c].live # "running"
    BY <1>1, <2>1, NoneRuns DEF OwnPcs
  <2>3. \A c \in Chains : chain'[c].live = IF c = run.c THEN "running" ELSE chain[c].live
    BY <1>1, <1>4, <2>1 DEF CreateResumed, ChainRow
  <2>4. run'.c = run.c /\ run'.why = run.why
    BY <1>1, <1>4 DEF CreateResumed, RunRow
  <2>5. OneLive' /\ RunningIsOwn'
    BY <1>1, <2>1, <2>2, <2>3, <2>4 DEF OneLive, RunningIsOwn, OwnPcs
  <2>6. OwnRuns' /\ GivenUp'
    BY <1>1, <2>1, <2>3, <2>4 DEF OwnRuns, GivenUp
  <2> QED
    BY <2>5, <2>6 DEF LiveInv
<1>5. CASE CreateFresh
  <2>1. /\ pc = "create" /\ pc' = "open" /\ NewChain \in Chains
        /\ run' = [run EXCEPT !.c = NewChain,
                              !.old = {c \in Chains : chain[c].live = "paused"}]
        /\ chain'[NewChain] = [NoChain EXCEPT !.live = "running"]
        /\ \A c \in Chains \ {NewChain} :
             chain'[c] = IF chain[c].live = "paused" THEN Over(chain[c]) ELSE chain[c]
    BY <1>5, FreshRows DEF CreateFresh, At
  <2>2. run'.c = NewChain /\ run'.why = "none"
    BY <1>1, <2>1 DEF RunRow, GivenUp
  <2>3. chain'[NewChain].live = "running"
    BY <2>1 DEF NoChain
  <2>4. ASSUME NEW c \in Chains \ {NewChain}
        PROVE  chain'[c].live = "no"
    <3>1. chain[c].live \in {"no", "paused"}
      BY <1>1, <2>1, NoneRuns DEF OwnPcs, ChainRow
    <3> QED
      BY <1>1, <2>1, <3>1, RowSteps
  <2>5. OneLive' /\ RunningIsOwn'
    BY <2>1, <2>2, <2>4 DEF OneLive, RunningIsOwn, OwnPcs
  <2>6. OwnRuns' /\ GivenUp'
    BY <2>1, <2>2, <2>3 DEF OwnRuns, GivenUp
  <2> QED
    BY <2>5, <2>6 DEF LiveInv
<1>6. CASE OpenResumed \/ Unlink
  BY <1>1, <1>6, LiveOwn
  DEF OpenResumed, Unlink, Goto, World, At, Fades, Halts, OwnRuns, OwnPcs
<1>7. CASE OpenFresh
  <2>1. /\ pc = "open" /\ run.c \in Chains
        /\ Released \in [Chains -> ChainRow]
        /\ \/ /\ chain' = [Released EXCEPT ![run.c].tree = TRUE, ![run.c].at = run.at]
              /\ \/ pc' = "unlink" /\ run' = run
                 \/ pc' = "reconcile"
           \/ /\ chain' = [Released EXCEPT ![run.c] = Swept(Over(Released[run.c]))]
              /\ pc' = "count" /\ run' = [run EXCEPT !.why = "tree"]
    BY <1>7, FreshTree DEF OpenFresh, At, Goto, EndCycle
  <2>2. ASSUME NEW c \in Chains PROVE Released[c].live = chain[c].live
    BY <1>1, RowSteps DEF Released
  <2>3. Swept(Over(Released[run.c])).live = "no"
    BY <2>1, RowSteps
  <2>4. Fades /\ Halts
    BY <2>1, <2>2, <2>3 DEF Fades, Halts, ChainRow
  <2>5. CASE pc' = "reconcile"
    BY <2>4, <2>5, LiveIdle DEF IdlePcs
  <2>6. CASE /\ pc' = "unlink" /\ run' = run
             /\ chain' = [Released EXCEPT ![run.c].tree = TRUE, ![run.c].at = run.at]
    <3>1. chain'[run.c].live = "running"
      BY <1>1, <2>1, <2>2, <2>6 DEF OwnRuns, ChainRow
    <3> QED
      BY <2>1, <2>4, <2>6, <3>1, LiveOwn DEF OwnPcs
  <2>7. CASE pc' = "count" /\ run' = [run EXCEPT !.why = "tree"]
    <3>1. run'.c = run.c /\ run'.why = "tree"
      BY <1>1, <2>7 DEF RunRow
    <3> QED
      BY <2>1, <2>4, <2>7, <3>1, LiveOwn DEF OwnPcs
  <2> QED
    BY <2>1, <2>5, <2>6, <2>7
<1> QED
  BY <1>2, <1>3, <1>4, <1>5, <1>6, <1>7 DEF Opening

LEMMA LiveSettling ==
  ASSUME LiveInv, TypeInv', TypeInv, Settling
  PROVE  LiveInv'
<1>1. /\ chain \in [Chains -> ChainRow] /\ run \in RunRow /\ Locals
      /\ OneLive /\ RunningIsOwn /\ OwnRuns /\ GivenUp
  BY Parts DEF LiveInv
<1>2. ASSUME NEW ended \in BOOLEAN, Resumed(ended), UNCHANGED chain, pc \in OwnPcs
      PROVE  LiveInv'
  <2>1. CASE pc' = "spend" /\ run' = run
    BY <1>2, <2>1, LiveOwn DEF Fades, Halts, OwnPcs
  <2>2. CASE pc' = "reconcile"
    BY <1>2, <2>2, LiveIdle DEF Fades, Halts, IdlePcs
  <2>3. CASE pc' \in {"pick", "start"} /\ run' = NoRun
    <3>1. run.why = "gaveup"
      BY <1>2, <2>3 DEF Resumed, EndCycle, Goto
    <3>2. \A c \in Chains : chain[c].live # "running"
      BY <1>1, <1>2, <3>1, ChainIds DEF GivenUp, RunningIsOwn, OwnPcs
    <3>3. OneLive' /\ RunningIsOwn'
      BY <1>1, <1>2, <3>2 DEF OneLive, RunningIsOwn
    <3>4. OwnRuns' /\ GivenUp'
      BY <2>3 DEF OwnRuns, GivenUp, NoRun
    <3> QED
      BY <3>3, <3>4 DEF LiveInv
  <2> QED
    BY <1>2, <2>1, <2>2, <2>3, ResumedIs
<1>3. CASE Record
  <2>1. pc = "record" /\ pc' = "close" /\ run.c \in Chains /\ chain[run.c].live = "running"
    BY <1>1, <1>3 DEF Record, At, Locals, ChainPcs, OwnRuns
  <2>2. run'.c = run.c /\ run'.why = run.why
    BY <1>1, <1>3 DEF Record, RunRow
  <2>3. Paused(chain[run.c]).live = "paused" /\ Over(chain[run.c]).live = "no"
    BY <1>1, <2>1, RowSteps
  <2>4. \/ chain' = chain
        \/ chain' = [chain EXCEPT ![run.c] = Paused(chain[run.c])]
        \/ chain' = [chain EXCEPT ![run.c] = Over(chain[run.c])]
    BY <1>3 DEF Record
  <2>5. Fades /\ Halts
    BY <1>1, <2>1, <2>3, <2>4 DEF Fades, Halts
  <2> QED
    BY <2>1, <2>2, <2>5, LiveOwn DEF OwnPcs
<1>4. CASE Close
  <2>1. pc = "close" /\ pc' \in {"spend", "read"} /\ run' = run /\ run.c \in Chains
    BY <1>1, <1>4 DEF Close, At, Goto, Locals, ChainPcs
  <2>2. Swept(chain[run.c]).live = chain[run.c].live
    BY <1>1, <2>1, RowSteps
  <2>3. Fades /\ Halts
    BY <1>1, <1>4, <2>1, <2>2 DEF Close, Fades, Halts
  <2> QED
    BY <2>1, <2>3, LiveOwn DEF OwnPcs
<1>5. CASE Read \/ Settle
  <2>1. /\ pc \in {"read", "settle"} /\ pc' \in {"settle", "count", "clear"}
        /\ UNCHANGED chain
    BY <1>5 DEF Read, Settle, At, Goto, World
  <2>2. \/ run' = run
        \/ run' = [run EXCEPT !.read = file]
        \/ \E w \in Failures \ {"gaveup"} : run' = [run EXCEPT !.why = w]
    BY <1>5 DEF Read, Settle, Goto, Failures
  <2>3. run'.c = run.c /\ (run'.why = "gaveup" => run.why = "gaveup")
    BY <1>1, <2>2 DEF RunRow
  <2> QED
    BY <2>1, <2>3, LiveOwn DEF Fades, Halts, OwnPcs
<1>6. CASE Count
  <2>1. pc = "count" /\ UNCHANGED chain /\ (Resumed(FALSE) \/ Goto("back"))
    BY <1>6 DEF Count, At
  <2>2. CASE Goto("back")
    BY <2>1, <2>2, LiveOwn DEF Goto, Fades, Halts, OwnPcs
  <2> QED
    BY <1>2, <2>1, <2>2 DEF OwnPcs
<1>7. CASE Back
  <2>1. /\ pc = "back" /\ UNCHANGED chain
        /\ Resumed(FALSE) \/ (pc' = "clear" /\ run' = [run EXCEPT !.ended = TRUE])
    BY <1>7 DEF Back, At
  <2>2. CASE pc' = "clear" /\ run' = [run EXCEPT !.ended = TRUE]
    <3>1. run'.c = run.c /\ run'.why = run.why
      BY <1>1, <2>2 DEF RunRow
    <3> QED
      BY <2>1, <2>2, <3>1, LiveOwn DEF Fades, Halts, OwnPcs
  <2> QED
    BY <1>2, <2>1, <2>2 DEF OwnPcs
<1>8. CASE Clear
  <2>1. pc = "clear" /\ UNCHANGED chain /\ (Resumed(TRUE) \/ Goto("spend"))
    BY <1>8 DEF Clear, At
  <2>2. CASE Goto("spend")
    BY <2>1, <2>2, LiveOwn DEF Goto, Fades, Halts, OwnPcs
  <2> QED
    BY <1>2, <2>1, <2>2 DEF OwnPcs
<1>9. CASE Spend
  BY <1>9, LiveIdle DEF Spend, EndCycle, Fades, Halts, IdlePcs
<1> QED
  BY <1>3, <1>4, <1>5, <1>6, <1>7, <1>8, <1>9 DEF Settling

LEMMA LiveStep ==
  ASSUME LiveInv, [Next]_vars
  PROVE  LiveInv'
<1>1. TypeInv /\ TypeInv'
  BY TypeStep DEF LiveInv
<1>2. CASE UNCHANGED vars
  BY <1>1, <1>2, LiveSame DEF vars
<1>3. CASE Next
  BY <1>1, <1>3, LivePasses, LiveSelect, LiveOpening, LiveWorks, LiveSettling DEF Next
<1> QED
  BY <1>2, <1>3

LEMMA LiveInit ==
  ASSUME Init
  PROVE  LiveInv
<1>1. TypeInv
  BY TypeInit
<1>2. \A c \in Chains : chain[c].live = "no"
  BY DEF Init, NoChain
<1> QED
  BY <1>1, <1>2 DEF Init, LiveInv, OneLive, RunningIsOwn, OwnRuns, GivenUp, NoRun

(* One chain of a finding at most is live, and a running one is the          *)
(* scheduler's own or an orphan still to be reconciled (create_job,          *)
(* reconcile_and_log, open_workspace)                                        *)
THEOREM LiveInvariant == Spec => []LiveInv
BY LiveInit, LiveStep, PTL DEF Spec

-----------------------------------------------------------------------------
(* The file belongs to the tree of whatever may go on with it *)

Fits(at) == file.says = "nothing" \/ file.stray \/ file.at = at

(* The chain may be resumed as it stands, or once it is reconciled. *)
Keeps(row) == row.live = "paused" \/ (row.live = "running" /\ (row.spent \/ row.stray))

KeptFits == \A c \in Chains : Keeps(chain[c]) => Fits(chain[c].at)

Pinned == pc \in {"unlink", "work", "record"} \/ (pc = "open" /\ run.resume)

PinnedTree == Pinned => chain[run.c].at = run.at
PinnedFile ==
  pc \in {"work", "record", "close", "read"} \/ (pc = "open" /\ run.resume) => Fits(run.at)

FreshIsClean ==
  pc \in {"open", "unlink"} /\ ~run.resume => ~chain[run.c].spent /\ ~chain[run.c].stray

FileInv ==
  LiveInv /\ KeptFits /\ PinnedTree /\ PinnedFile /\ FreshIsClean /\ VerdictIsOfItsTree

(* No other chain than before may go on. *)
KeepsLess ==
  \A c \in Chains : Keeps(chain'[c]) => Keeps(chain[c]) /\ chain'[c].at = chain[c].at

(* The steps that are about a tree or the file *)
FilePcs == {"open", "unlink", "work", "record", "close", "read", "settle"}

LEMMA KeptFitsStep ==
  ASSUME KeptFits, UNCHANGED file, KeepsLess
  PROVE  KeptFits'
BY DEF KeptFits, KeepsLess, Fits

(* Rows that are over, suspended or swept *)
LEMMA KeepsOf ==
  ASSUME NEW r \in ChainRow
  PROVE  /\ ~Keeps(Over(r))
         /\ Keeps(Swept(r)) => Swept(r) = r
         /\ Keeps(Forgotten(r)) => Forgotten(r) = r
         /\ Keeps(r) => r.live # "no"
<1>1. r.live = "no" => ~Keeps(r)
  BY DEF Keeps
<1>2. Over(r).live = "no" /\ Swept(r).live = r.live /\ Forgotten(r).live = r.live
  BY RowSteps
<1>3. r.live # "no" => Swept(r) = r /\ Forgotten(r) = r
  BY RowSteps
<1> QED
  BY <1>1, <1>2, <1>3 DEF Keeps

LEMMA FileElse ==
  ASSUME FileInv, LiveInv', UNCHANGED file, KeepsLess, pc' \notin FilePcs
  PROVE  FileInv'
<1>1. KeptFits'
  BY KeptFitsStep DEF FileInv
<1>2. PinnedTree' /\ PinnedFile' /\ FreshIsClean' /\ VerdictIsOfItsTree'
  BY DEF FilePcs, PinnedTree, Pinned, PinnedFile, FreshIsClean, VerdictIsOfItsTree, At
<1> QED
  BY <1>1, <1>2 DEF FileInv

(* A step beside the attempt: the chain it works on is as it was. *)
LEMMA FileSame ==
  ASSUME FileInv, LiveInv', UNCHANGED <<file, pc, run>>, KeepsLess,
         pc \in {"open", "unlink", "work", "record"} =>
           /\ chain'[run.c].at = chain[run.c].at
           /\ chain'[run.c].spent => chain[run.c].spent
           /\ chain'[run.c].stray => chain[run.c].stray
  PROVE  FileInv'
<1>1. KeptFits'
  BY KeptFitsStep DEF FileInv
<1>2. PinnedTree' /\ PinnedFile' /\ FreshIsClean' /\ VerdictIsOfItsTree'
  BY DEF FileInv, PinnedTree, Pinned, PinnedFile, FreshIsClean, VerdictIsOfItsTree, At, Fits
<1> QED
  BY <1>1, <1>2 DEF FileInv

LEMMA FilePasses ==
  ASSUME FileInv, LiveInv', Passes
  PROVE  FileInv'
<1>1. chain \in [Chains -> ChainRow]
  BY Parts DEF FileInv, LiveInv
<1>2. UNCHANGED file /\ pc' \notin FilePcs
  BY DEF Passes, Boot, Sweep, Reconcile, World, Goto, FilePcs
<1>3. CASE Boot
  BY <1>2, <1>3, FileElse DEF Boot, KeepsLess
<1>4. CASE Reconcile
  <2>1. ASSUME NEW c \in Chains, Keeps(chain'[c])
        PROVE  Keeps(chain[c]) /\ chain'[c].at = chain[c].at
    <3>1. chain'[c] = IF chain[c].live = "running" THEN Orphaned(chain[c]) ELSE chain[c]
      BY <1>4 DEF Reconcile
    <3>2. CASE chain[c].live # "running"
      BY <2>1, <3>1, <3>2
    <3>3. CASE chain[c].live = "running" /\ chain[c].spent /\ ~chain[c].stray
      BY <1>1, <3>1, <3>3, RowSteps DEF Orphaned, Keeps
    <3>4. CASE chain[c].live = "running" /\ ~(chain[c].spent /\ ~chain[c].stray)
      BY <1>1, <2>1, <3>1, <3>4, KeepsOf DEF Orphaned
    <3> QED
      BY <3>2, <3>3, <3>4
  <2> QED
    BY <1>2, <2>1, FileElse DEF KeepsLess
<1>5. ASSUME NEW p, NEW q, Sweep(p, q)
      PROVE  KeepsLess
  <2>1. ASSUME NEW c \in Chains, Keeps(chain'[c])
        PROVE  chain'[c] = chain[c]
    <3>1. chain'[c] =
            Swept(IF chain[c].live = "paused" /\ finding.status # "rechecking"
                    THEN Over(chain[c]) ELSE chain[c])
      BY <1>5 DEF Sweep
    <3>2. Over(chain[c]) \in ChainRow /\ ~Keeps(Over(chain[c]))
      BY <1>1, RowSteps, KeepsOf
    <3> QED
      BY <1>1, <2>1, <3>1, <3>2, KeepsOf
  <2> QED
    BY <2>1 DEF KeepsLess
<1> QED
  BY <1>2, <1>3, <1>4, <1>5, FileElse DEF Passes

LEMMA FileSelect ==
  ASSUME FileInv, LiveInv', Select
  PROVE  FileInv'
<1>1. chain \in [Chains -> ChainRow]
  BY Parts DEF FileInv, LiveInv
<1>2. /\ UNCHANGED file
      /\ pc' \in {"reconcile", "plan", "start", "count"}
      /\ chain' = chain \/ \E d \in Chains : chain' = [chain EXCEPT ![d] = Over(@)]
  BY DEF Select, PickRecheck, StartFresh, WorkdirGone, ResumeChain, GiveUpChain, Offered,
     World, Goto, EndCycle, At
<1>3. KeepsLess
  <2>1. CASE chain' = chain
    BY <2>1 DEF KeepsLess
  <2>2. ASSUME NEW d \in Chains, chain' = [chain EXCEPT ![d] = Over(chain[d])]
        PROVE  KeepsLess
    BY <1>1, <2>2, KeepsOf DEF KeepsLess
  <2> QED
    BY <1>2, <2>1, <2>2
<1> QED
  BY <1>2, <1>3, FileElse DEF FilePcs

LEMMA FileOpening ==
  ASSUME FileInv, LiveInv', Opening
  PROVE  FileInv'
<1>1. /\ chain \in [Chains -> ChainRow] /\ run \in RunRow /\ Locals
      /\ OneLive /\ RunningIsOwn /\ OwnRuns /\ TypeInv
      /\ KeptFits /\ PinnedTree /\ PinnedFile /\ FreshIsClean
  BY Parts DEF FileInv, LiveInv
<1>2. CASE Start \/ SyncRepo \/ Granted \/ SyncFails \/ Denied \/ CreateFails
  <2>1. /\ UNCHANGED <<file, chain>>
        /\ pc' \in {"sync", "gate", "create", "reconcile"}
    BY <1>2 DEF Start, SyncRepo, Granted, SyncFails, Denied, CreateFails, Goto, EndCycle,
       World
  <2> QED
    BY <2>1, FileElse DEF FilePcs, KeepsLess
<1>3. CASE CreateResumed
  <2>1. /\ pc = "create" /\ pc' = "open" /\ run.resume /\ run.c \in Chains
        /\ chain[run.c].live = "paused" /\ UNCHANGED file
    BY <1>1, <1>3 DEF CreateResumed, At, Locals, OwnRuns, World
  <2>2. chain' = [chain EXCEPT ![run.c] =
                    [chain[run.c] EXCEPT !.live = "running", !.spent = FALSE]]
    BY <1>1, <1>3, <2>1 DEF CreateResumed
  <2>3. chain'[run.c].at = chain[run.c].at
    BY <1>1, <2>1, <2>2 DEF ChainRow
  <2>4. Keeps(chain[run.c])
    BY <2>1 DEF Keeps
  <2>5. KeepsLess
    BY <1>1, <2>1, <2>2, <2>3, <2>4 DEF KeepsLess
  <2>6. run'.c = run.c /\ run'.resume = TRUE /\ run'.at = chain[run.c].at
    BY <1>1, <1>3, <2>1 DEF CreateResumed, RunRow
  <2>7. Fits(chain[run.c].at)
    BY <1>1, <2>1, <2>4 DEF KeptFits
  <2>8. PinnedTree' /\ PinnedFile' /\ FreshIsClean' /\ VerdictIsOfItsTree'
    BY <2>1, <2>3, <2>6, <2>7
    DEF PinnedTree, Pinned, PinnedFile, FreshIsClean, VerdictIsOfItsTree, At, Fits
  <2> QED
    BY <1>1, <2>1, <2>5, <2>8, KeptFitsStep DEF FileInv
<1>4. CASE CreateFresh
  <2>1. /\ pc' = "open" /\ NewChain \in Chains /\ ~run.resume /\ UNCHANGED file
        /\ run' = [run EXCEPT !.c = NewChain,
                              !.old = {c \in Chains : chain[c].live = "paused"}]
        /\ chain'[NewChain] = [NoChain EXCEPT !.live = "running"]
        /\ \A c \in Chains \ {NewChain} :
             chain'[c] = IF chain[c].live = "paused" THEN Over(chain[c]) ELSE chain[c]
    BY <1>1, <1>4, FreshRows DEF CreateFresh, World
  <2>2. run'.c = NewChain /\ run'.resume = FALSE
    BY <1>1, <2>1 DEF RunRow
  <2>3. ~chain'[NewChain].spent /\ ~chain'[NewChain].stray /\ ~Keeps(chain'[NewChain])
    BY <2>1 DEF NoChain, Keeps
  <2>4. KeepsLess
    <3>1. ASSUME NEW c \in Chains, Keeps(chain'[c]) PROVE chain'[c] = chain[c]
      BY <1>1, <2>1, <2>3, <3>1, KeepsOf
    <3> QED
      BY <3>1 DEF KeepsLess
  <2>5. PinnedTree' /\ PinnedFile' /\ FreshIsClean' /\ VerdictIsOfItsTree'
    BY <2>1, <2>2, <2>3
    DEF PinnedTree, Pinned, PinnedFile, FreshIsClean, VerdictIsOfItsTree, At
  <2> QED
    BY <1>1, <2>1, <2>4, <2>5, KeptFitsStep DEF FileInv
<1>5. CASE OpenResumed
  <2>1. /\ pc = "open" /\ run.resume /\ pc' = "work" /\ UNCHANGED <<chain, run, file>>
    BY <1>5 DEF OpenResumed, Goto, At, World
  <2>2. KeptFits' /\ PinnedTree' /\ PinnedFile' /\ FreshIsClean' /\ VerdictIsOfItsTree'
    BY <1>1, <2>1 DEF KeptFits, PinnedTree, Pinned, PinnedFile, FreshIsClean,
       VerdictIsOfItsTree, At, Fits
  <2> QED
    BY <2>2 DEF FileInv
<1>6. CASE OpenFresh
  <2>1. /\ pc = "open" /\ run.c \in Chains /\ ~run.resume /\ UNCHANGED file
        /\ Released \in [Chains -> ChainRow]
        /\ \/ /\ chain' = [Released EXCEPT ![run.c].tree = TRUE, ![run.c].at = run.at]
              /\ \/ pc' = "unlink" /\ run' = run
                 \/ pc' = "reconcile"
           \/ /\ chain' = [Released EXCEPT ![run.c] = Swept(Over(Released[run.c]))]
              /\ pc' = "count"
    BY <1>1, <1>6, FreshTree DEF OpenFresh, At, Goto, EndCycle
  <2>2. /\ chain[run.c].live = "running"
        /\ ~chain[run.c].spent /\ ~chain[run.c].stray
    BY <1>1, <2>1 DEF OwnRuns, FreshIsClean
  <2>3. Released[run.c] = chain[run.c]
    BY <1>1, <2>1, <2>2, RowSteps DEF Released
  <2>4. ASSUME NEW c \in Chains \ {run.c}, Keeps(chain'[c]) PROVE chain'[c] = chain[c]
    <3>1. chain'[c] = IF c \in run.old THEN Swept(chain[c]) ELSE chain[c]
      BY <2>1 DEF Released
    <3> QED
      BY <1>1, <2>4, <3>1, KeepsOf
  <2>5. ~Keeps(chain'[run.c])
    <3>1. CASE chain' = [Released EXCEPT ![run.c].tree = TRUE, ![run.c].at = run.at]
      BY <1>1, <2>1, <2>2, <2>3, <3>1 DEF Keeps, ChainRow
    <3>2. CASE chain' = [Released EXCEPT ![run.c] = Swept(Over(Released[run.c]))]
      <4>1. Over(chain[run.c]) \in ChainRow /\ ~Keeps(Over(chain[run.c]))
        BY <1>1, <2>1, RowSteps, KeepsOf
      <4>2. chain'[run.c] = Swept(Over(chain[run.c]))
        BY <2>1, <2>3, <3>2
      <4> QED
        BY <4>1, <4>2, KeepsOf
    <3> QED
      BY <2>1, <3>1, <3>2
  <2>6. KeepsLess
    BY <2>4, <2>5 DEF KeepsLess
  <2>7. CASE /\ pc' = "unlink" /\ run' = run
             /\ chain' = [Released EXCEPT ![run.c].tree = TRUE, ![run.c].at = run.at]
    <3>1. /\ chain'[run.c].at = run.at
          /\ ~chain'[run.c].spent /\ ~chain'[run.c].stray
      BY <1>1, <2>1, <2>2, <2>3, <2>7 DEF ChainRow
    <3>2. PinnedTree' /\ PinnedFile' /\ FreshIsClean' /\ VerdictIsOfItsTree'
      BY <2>1, <2>7, <3>1
      DEF PinnedTree, Pinned, PinnedFile, FreshIsClean, VerdictIsOfItsTree, At
    <3> QED
      BY <1>1, <2>1, <2>6, <3>2, KeptFitsStep DEF FileInv
  <2>8. CASE pc' \in {"reconcile", "count"}
    BY <2>1, <2>6, <2>8, FileElse DEF FilePcs
  <2> QED
    BY <2>1, <2>7, <2>8
<1>7. CASE Unlink
  <2>1. /\ pc = "unlink" /\ pc' = "work" /\ UNCHANGED <<chain, run>>
        /\ file' = NoFile \/ file' = [file EXCEPT !.stray = TRUE]
    BY <1>7 DEF Unlink, Goto, At
  <2>2. file'.says = "nothing" \/ file'.stray
    <3>1. file \in FileRow
      BY <1>1, Parts
    <3> QED
      BY <2>1, <3>1 DEF NoFile, FileRow
  <2>3. KeptFits' /\ PinnedTree' /\ PinnedFile' /\ FreshIsClean' /\ VerdictIsOfItsTree'
    BY <1>1, <2>1, <2>2 DEF KeptFits, PinnedTree, Pinned, PinnedFile, FreshIsClean,
       VerdictIsOfItsTree, At, Fits
  <2> QED
    BY <2>3 DEF FileInv
<1> QED
  BY <1>2, <1>3, <1>4, <1>5, <1>6, <1>7 DEF Opening

LEMMA FileWorker ==
  ASSUME FileInv, LiveInv', Worker
  PROVE  FileInv'
<1>1. /\ chain \in [Chains -> ChainRow] /\ run \in RunRow /\ Locals
      /\ OneLive /\ OwnRuns /\ TypeInv
      /\ KeptFits /\ PinnedTree /\ PinnedFile /\ FreshIsClean
  BY Parts DEF FileInv, LiveInv
<1>2. At("work") => /\ run.c \in Chains /\ chain[run.c].at = run.at /\ Fits(run.at)
                    /\ chain[run.c].live = "running"
                    /\ \A c \in Chains \ {run.c} : ~Keeps(chain[c])
  <2>1. SUFFICES ASSUME At("work")
        PROVE  /\ run.c \in Chains /\ chain[run.c].at = run.at /\ Fits(run.at)
               /\ chain[run.c].live = "running"
               /\ \A c \in Chains \ {run.c} : ~Keeps(chain[c])
    OBVIOUS
  <2>2. run.c \in Chains /\ chain[run.c].live = "running"
    BY <1>1, <2>1 DEF At, Locals, ChainPcs, OwnRuns
  <2>3. chain[run.c].at = run.at /\ Fits(run.at)
    BY <1>1, <2>1 DEF At, PinnedTree, Pinned, PinnedFile
  <2>4. ASSUME NEW c \in Chains \ {run.c} PROVE ~Keeps(chain[c])
    BY <1>1, <2>2, KeepsOf DEF OneLive
  <2> QED
    BY <2>2, <2>3, <2>4
(* What is written in the tree of the scheduler's own attempt, or by a stray *)
<1>3. ASSUME NEW c \in Chains, NEW s \in Says, Works(c), file' = Written(c, s),
             UNCHANGED chain, NEW a, Keeps(chain[a]) /\ a \in Chains
      PROVE  Fits(chain[a].at)'
  <2>1. file'.at = chain[c].at /\ file'.stray = chain[c].stray
    BY <1>3 DEF Written
  <2>2. CASE chain[c].stray
    BY <2>1, <2>2 DEF Fits
  <2>3. CASE At("work") /\ run.c = c
    BY <1>2, <1>3, <2>1, <2>3 DEF Fits
  <2> QED
    BY <1>3, <2>2, <2>3 DEF Works
<1>4. ASSUME NEW c \in Chains, WorkerSpends(c)
      PROVE  FileInv'
  <2>1. /\ chain' = [chain EXCEPT ![c] = [chain[c] EXCEPT !.spent = TRUE]]
        /\ UNCHANGED <<file, pc, run>>
        /\ chain[c].stray \/ (At("work") /\ run.c = c)
    BY <1>1, <1>4 DEF WorkerSpends, World, Works
  <2>2. /\ chain'[c].at = chain[c].at /\ chain'[c].live = chain[c].live
        /\ chain'[c].stray = chain[c].stray
    BY <1>1, <2>1 DEF ChainRow
  <2>3. KeptFits'
    <3>1. ASSUME NEW d \in Chains, Keeps(chain'[d])
          PROVE  Fits(chain'[d].at)
      <4>1. CASE Keeps(chain[d])
        BY <1>1, <2>1, <2>2, <4>1 DEF KeptFits
      <4>2. CASE ~Keeps(chain[d])
        <5>1. d = c /\ At("work") /\ run.c = c
          BY <1>1, <2>1, <2>2, <3>1, <4>2 DEF Keeps
        <5> QED
          BY <1>2, <2>2, <5>1
      <4> QED
        BY <4>1, <4>2
    <3> QED
      BY <2>1, <3>1 DEF KeptFits, Fits
  <2>4. FreshIsClean'
    BY <1>1, <2>1, <2>2 DEF FreshIsClean, At
  <2>5. PinnedTree'
    BY <1>1, <2>1, <2>2 DEF PinnedTree, Pinned
  <2>6. PinnedFile' /\ VerdictIsOfItsTree'
    BY <2>1 DEF FileInv, PinnedFile, VerdictIsOfItsTree, At, Fits
  <2> QED
    BY <2>3, <2>4, <2>5, <2>6 DEF FileInv
<1>5. ASSUME NEW c \in Chains, NEW s \in Says, WorkerWrites(c, s)
      PROVE  FileInv'
  <2>1. Works(c) /\ file' = Written(c, s) /\ UNCHANGED <<chain, pc, run>>
    BY <1>5 DEF WorkerWrites
  <2>2. KeptFits'
    BY <1>3, <2>1 DEF KeptFits
  <2>3. PinnedTree' /\ FreshIsClean' /\ VerdictIsOfItsTree'
    BY <1>1, <2>1 DEF FileInv, PinnedTree, Pinned, FreshIsClean, VerdictIsOfItsTree, At
  <2>4. PinnedFile'
    <3>1. file'.at = chain[c].at /\ file'.stray = chain[c].stray
      BY <2>1 DEF Written
    <3>2. file'.stray \/ file'.at = run.at
      BY <1>2, <2>1, <3>1 DEF Works
    <3> QED
      BY <2>1, <3>2 DEF PinnedFile, Fits
  <2> QED
    BY <2>2, <2>3, <2>4 DEF FileInv
<1>6. ASSUME NEW end \in Endings, WorkerReturns(end)
      PROVE  FileInv'
  <2>1. /\ At("work") /\ pc' = "record" /\ UNCHANGED chain
        /\ file' = IF end \in Says THEN Written(run.c, end) ELSE file
    BY <1>6 DEF WorkerReturns
  <2>2. run'.c = run.c /\ run'.at = run.at
    BY <1>1, <1>6 DEF WorkerReturns, RunRow
  <2>3. Works(run.c) /\ run.c \in Chains
    BY <1>2, <2>1 DEF Works
  <2>4. KeptFits'
    <3>1. CASE end \in Says
      BY <1>3, <2>1, <2>3, <3>1 DEF KeptFits
    <3>2. CASE end \notin Says
      BY <1>1, <2>1, <3>2 DEF KeptFits, Fits
    <3> QED
      BY <3>1, <3>2
  <2>5. PinnedFile'
    <3>1. CASE end \in Says
      <4>1. file'.at = run.at
        BY <1>2, <2>1, <3>1 DEF Written
      <4> QED
        BY <2>1, <2>2, <4>1 DEF PinnedFile, Fits
    <3>2. CASE end \notin Says
      BY <1>2, <2>1, <2>2, <3>2 DEF PinnedFile, Fits
    <3> QED
      BY <3>1, <3>2
  <2>6. PinnedTree' /\ FreshIsClean' /\ VerdictIsOfItsTree'
    BY <1>2, <2>1, <2>2
    DEF PinnedTree, Pinned, FreshIsClean, VerdictIsOfItsTree, At
  <2> QED
    BY <2>4, <2>5, <2>6 DEF FileInv
<1>7. CASE WorkerNotRun
  BY <1>7, FileElse DEF WorkerNotRun, EndCycle, KeepsLess, FilePcs
<1> QED
  BY <1>4, <1>5, <1>6, <1>7 DEF Worker

LEMMA FileSettling ==
  ASSUME FileInv, LiveInv', Settling
  PROVE  FileInv'
<1>1. /\ chain \in [Chains -> ChainRow] /\ run \in RunRow /\ Locals /\ file \in FileRow
      /\ OwnRuns /\ TypeInv /\ KeptFits /\ PinnedTree /\ PinnedFile
  BY Parts DEF FileInv, LiveInv
<1>2. CASE Record
  <2>1. /\ pc = "record" /\ pc' = "close" /\ run.c \in Chains /\ UNCHANGED file
        /\ chain[run.c].live = "running" /\ chain[run.c].at = run.at /\ Fits(run.at)
    BY <1>1, <1>2 DEF Record, At, Locals, ChainPcs, OwnRuns, PinnedTree, Pinned, PinnedFile
  <2>2. run'.at = run.at
    BY <1>1, <1>2 DEF Record, RunRow
  <2>3. \/ chain' = chain
        \/ chain' = [chain EXCEPT ![run.c] = Paused(chain[run.c])]
        \/ chain' = [chain EXCEPT ![run.c] = Over(chain[run.c])]
    BY <1>2 DEF Record
  <2>4. ASSUME NEW c \in Chains, Keeps(chain'[c])
        PROVE  Fits(chain'[c].at)
    <3>1. CASE chain'[c] = chain[c]
      BY <1>1, <2>4, <3>1 DEF KeptFits
    <3>2. CASE c = run.c /\ chain'[c] = Paused(chain[run.c])
      BY <1>1, <2>1, <3>2, RowSteps
    <3>3. CASE c = run.c /\ chain'[c] = Over(chain[run.c])
      BY <1>1, <2>1, <2>4, <3>3, KeepsOf
    <3> QED
      BY <1>1, <2>1, <2>3, <3>1, <3>2, <3>3
  <2>5. KeptFits'
    BY <2>1, <2>4 DEF KeptFits, Fits
  <2>6. PinnedTree' /\ PinnedFile' /\ FreshIsClean' /\ VerdictIsOfItsTree'
    BY <2>1, <2>2
    DEF PinnedTree, Pinned, PinnedFile, FreshIsClean, VerdictIsOfItsTree, At, Fits
  <2> QED
    BY <2>5, <2>6 DEF FileInv
<1>3. CASE Close
  <2>1. /\ pc = "close" /\ pc' \in {"spend", "read"} /\ UNCHANGED <<file, run>>
        /\ run.c \in Chains /\ chain' = [chain EXCEPT ![run.c] = Swept(chain[run.c])]
    BY <1>1, <1>3 DEF Close, At, Goto, World, Locals, ChainPcs
  <2>2. KeepsLess
    BY <1>1, <2>1, KeepsOf DEF KeepsLess
  <2>3. PinnedTree' /\ PinnedFile' /\ FreshIsClean' /\ VerdictIsOfItsTree'
    BY <1>1, <2>1
    DEF PinnedTree, Pinned, PinnedFile, FreshIsClean, VerdictIsOfItsTree, At, Fits
  <2> QED
    BY <1>1, <2>1, <2>2, <2>3, KeptFitsStep DEF FileInv
<1>4. CASE Read
  <2>1. UNCHANGED <<chain, file>> /\ pc = "read" /\ Fits(run.at)
    BY <1>1, <1>4 DEF Read, World, At, PinnedFile
  <2>2. CASE pc' = "count"
    BY <2>1, <2>2, FileElse DEF KeepsLess, FilePcs
  <2>3. CASE /\ pc' = "settle" /\ run' = [run EXCEPT !.read = file]
             /\ file.says = "verdict"
    <3>1. run'.read = file /\ run'.at = run.at
      BY <1>1, <2>3 DEF RunRow
    <3>2. VerdictIsOfItsTree'
      BY <2>1, <2>3, <3>1 DEF VerdictIsOfItsTree, Fits
    <3>3. KeptFits' /\ PinnedTree' /\ PinnedFile' /\ FreshIsClean'
      BY <1>1, <2>1, <2>3
      DEF KeptFits, PinnedTree, Pinned, PinnedFile, FreshIsClean, Fits
    <3> QED
      BY <3>2, <3>3 DEF FileInv
  <2> QED
    BY <1>4, <2>2, <2>3 DEF Read
<1>5. CASE Settle \/ Count \/ Back \/ Clear \/ Spend
  <2>1. UNCHANGED <<chain, file>> /\ pc' \notin FilePcs
    BY <1>5, <1>1, ResumedIs
    DEF Settle, Count, Back, Clear, Spend, Goto, EndCycle, FilePcs
  <2> QED
    BY <2>1, FileElse DEF KeepsLess
<1> QED
  BY <1>2, <1>3, <1>4, <1>5 DEF Settling

LEMMA FileBeside ==
  ASSUME FileInv, LiveInv', Operator \/ Environment
  PROVE  FileInv'
<1>1. /\ chain \in [Chains -> ChainRow] /\ run \in RunRow /\ Locals
      /\ OwnRuns /\ KeptFits /\ PinnedTree /\ PinnedFile
  BY Parts DEF FileInv, LiveInv
<1>2. CASE Operator \/ Push
  BY <1>2, FileSame DEF Operator, Ask, Override, Asks, Push, KeepsLess
<1>3. CASE Crash
  <2>1. UNCHANGED file /\ pc' \notin FilePcs
    BY <1>3 DEF Crash, FilePcs
  <2>2. CASE chain' = chain
    BY <2>1, <2>2, FileElse DEF KeepsLess
  <2>3. CASE At("work") /\ chain' = [chain EXCEPT ![run.c].stray = TRUE]
    <3>1. run.c \in Chains /\ chain[run.c].at = run.at /\ Fits(run.at)
      BY <1>1, <2>3 DEF At, Locals, ChainPcs, PinnedTree, Pinned, PinnedFile
    <3>2. chain'[run.c].at = chain[run.c].at
      BY <1>1, <2>3, <3>1 DEF ChainRow
    <3>3. \A c \in Chains \ {run.c} : chain'[c] = chain[c]
      BY <1>1, <2>3
    <3>4. KeptFits'
      BY <1>1, <2>1, <3>1, <3>2, <3>3 DEF KeptFits, Fits
    <3>5. PinnedTree' /\ PinnedFile' /\ FreshIsClean' /\ VerdictIsOfItsTree'
      BY <2>1 DEF FilePcs, PinnedTree, Pinned, PinnedFile, FreshIsClean,
         VerdictIsOfItsTree, At
    <3> QED
      BY <3>4, <3>5 DEF FileInv
  <2> QED
    BY <1>3, <2>2, <2>3 DEF Crash
<1>4. ASSUME NEW c \in Chains, StrayExits(c)
      PROVE  FileInv'
  <2>1. DEFINE row == [chain[c] EXCEPT !.stray = FALSE]
  <2>2. /\ row \in ChainRow /\ row.live = chain[c].live /\ row.at = chain[c].at
        /\ row.spent = chain[c].spent /\ row.stray = FALSE
    BY <1>1 DEF ChainRow
  <2>3. /\ chain' = [chain EXCEPT ![c] = Forgotten(row)]
        /\ UNCHANGED <<file, pc, run>>
    BY <1>1, <1>4 DEF StrayExits, World
  <2> HIDE DEF row
  <2>4. Keeps(Forgotten(row)) => Keeps(chain[c]) /\ Forgotten(row).at = chain[c].at
    BY <2>2, KeepsOf DEF Keeps
  <2>5. KeepsLess
    BY <1>1, <2>3, <2>4 DEF KeepsLess
  <2>6. pc \in {"open", "unlink", "work", "record"} =>
          /\ chain'[run.c].at = chain[run.c].at
          /\ chain'[run.c].spent => chain[run.c].spent
          /\ chain'[run.c].stray => chain[run.c].stray
    <3>1. SUFFICES ASSUME pc \in {"open", "unlink", "work", "record"}, run.c = c
          PROVE  /\ chain'[run.c].at = chain[run.c].at
                 /\ chain'[run.c].spent => chain[run.c].spent
                 /\ chain'[run.c].stray => chain[run.c].stray
      BY <1>1, <2>3
    <3>2. row.live # "no"
      BY <1>1, <2>2, <3>1 DEF OwnRuns
    <3>3. chain'[run.c] = row
      BY <1>1, <2>2, <2>3, <3>1, <3>2, RowSteps
    <3> QED
      BY <2>2, <3>1, <3>3
  <2> QED
    BY <2>3, <2>5, <2>6, FileSame
<1>5. ASSUME NEW c \in Chains, TreeLost(c)
      PROVE  FileInv'
  <2>1. /\ chain' = [chain EXCEPT ![c] = [chain[c] EXCEPT !.tree = FALSE]]
        /\ UNCHANGED <<file, pc, run>>
    BY <1>1, <1>5 DEF TreeLost
  <2>2. \A d \in Chains : /\ chain'[d].live = chain[d].live /\ chain'[d].at = chain[d].at
                          /\ chain'[d].spent = chain[d].spent
                          /\ chain'[d].stray = chain[d].stray
    BY <1>1, <2>1 DEF ChainRow
  <2>3. pc \in {"open", "unlink", "work", "record"} => run.c \in Chains
    BY <1>1 DEF Locals, ChainPcs
  <2> QED
    BY <2>1, <2>2, <2>3, FileSame DEF KeepsLess, Keeps
<1> QED
  BY <1>2, <1>3, <1>4, <1>5 DEF Environment

LEMMA FileStep ==
  ASSUME FileInv, [Next]_vars
  PROVE  FileInv'
<1>1. LiveInv'
  BY LiveStep DEF FileInv
<1>2. CASE UNCHANGED vars
  BY <1>1, <1>2, FileSame DEF vars, KeepsLess
<1>3. CASE Next
  BY <1>1, <1>3, FilePasses, FileSelect, FileOpening, FileWorker, FileSettling, FileBeside
  DEF Next
<1> QED
  BY <1>2, <1>3

LEMMA FileInit ==
  ASSUME Init
  PROVE  FileInv
<1>1. LiveInv
  BY LiveInit
<1>2. /\ pc = "reconcile" /\ \A c \in Chains : chain[c].live = "no"
  BY DEF Init, NoChain
<1> QED
  BY <1>1, <1>2 DEF FileInv, KeptFits, Keeps, PinnedTree, Pinned, PinnedFile, FreshIsClean,
     VerdictIsOfItsTree, At

(* What the finding's one file says was written in the tree of whatever chain*)
(* may go on with it, or by a worker or a file the daemon cannot see         *)
(* (open_workspace, run_recheck)                                             *)
THEOREM FileInvariant == Spec => []FileInv
BY FileInit, FileStep, PTL DEF Spec

(* A verdict is recorded only of the tree the attempt was pinned to, however *)
(* many chains wrote the file before it and whatever died in between         *)
(* (run_recheck, set_anchored_verdict)                                        *)
THEOREM VerdictsAreOfTheirTree == Spec => []VerdictIsOfItsTree
<1>1. FileInv => VerdictIsOfItsTree
  BY DEF FileInv
<1> QED
  BY <1>1, FileInvariant, PTL

=============================================================================
