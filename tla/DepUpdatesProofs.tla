--------------------------- MODULE DepUpdatesProofs ---------------------------
(***************************************************************************)
(* Theorems about DepUpdates for every set of moves, every version they may*)
(* get to, and every bound: what is proposed always has a row of its own,  *)
(* and no scan writes over what a worker has taken up, reverses a verdict  *)
(* of the operator's on Renovate's word, or loses a queued update.         *)
(***************************************************************************)
EXTENDS DepUpdates, FiniteSetTheorems, TLAPS

Rows    == [Fingerprints -> Row]
RunRow  == [cands : SUBSET Fingerprints, skipped : SUBSET Moves,
            todo : SUBSET Fingerprints, worker : BOOLEAN, invalid : BOOLEAN]
Steps   == {"idle", "ingest", "retire", "hand", "stamp", "bump"}

LEMMA TypeIs ==
  TypeOK <=> /\ row \in Rows /\ stand \in Stands(Moves) /\ ready \subseteq Moves
             /\ grouped \in BOOLEAN /\ due \in BOOLEAN /\ pc \in Steps /\ run \in RunRow
             /\ shifts \in Nat /\ requests \in Nat /\ troubles \in Nat
BY DEF TypeOK, Rows, RunRow, Steps

-----------------------------------------------------------------------------
(* Where the packages of some moves stand is among the fingerprints. *)

LEMMA StandIs ==
  ASSUME NEW s
  PROVE  s \in Stands(Moves)
           <=> /\ s \in [Moves -> Nat] /\ \A m \in Moves : s[m] <= MaxStand[m]
<1>1. \A m \in Moves : MaxStand[m] \in Nat
  BY DepUpdatesAssumption
<1>2. ASSUME s \in Stands(Moves)
      PROVE  s \in [Moves -> Nat] /\ \A m \in Moves : s[m] <= MaxStand[m]
  BY <1>1, <1>2 DEF Stands, Versions
<1>3. ASSUME s \in [Moves -> Nat], \A m \in Moves : s[m] <= MaxStand[m]
      PROVE  s \in Stands(Moves)
  <2>1. \A m \in Moves : s[m] \in 0..MaxStand[m]
    BY <1>1, <1>3
  <2>2. \A m \in Moves : s[m] \in Versions
    BY <2>1 DEF Versions
  <2> QED
    BY <1>3, <2>2 DEF Stands
<1> QED
  BY <1>2, <1>3

LEMMA StandingStands ==
  ASSUME stand \in Stands(Moves), NEW S \in SUBSET Moves
  PROVE  Standing(S) \in Stands(S)
<1>1. \A m \in S : stand[m] \in Versions /\ stand[m] <= MaxStand[m]
  BY DEF Stands
<1> QED
  BY <1>1 DEF Standing, Stands

LEMMA ProposedIsNamed ==
  ASSUME stand \in Stands(Moves), ready \subseteq Moves, NEW skipped
  PROVE  Proposed(skipped) \subseteq Fingerprints
<1> DEFINE open == ready \ skipped
<1>1. CASE open = {}
  BY <1>1 DEF Proposed
<1>2. CASE open # {} /\ grouped
  <2>1. Standing(open) \in Stands(open)
    BY StandingStands
  <2>2. [unit |-> "group", at |-> Standing(open)] \in Fingerprint("group", open)
    BY <2>1 DEF Fingerprint
  <2>3. open \in (SUBSET Moves) \ {{}}
    BY <1>2
  <2>4. Fingerprint("group", open) \subseteq Fingerprints
    BY <2>3 DEF Fingerprints
  <2>5. Proposed(skipped) = {[unit |-> "group", at |-> Standing(open)]}
    BY <1>2 DEF Proposed
  <2> QED
    BY <2>2, <2>4, <2>5
<1>3. CASE open # {} /\ ~grouped
  <2>1. ASSUME NEW m \in open
        PROVE  [unit |-> "branch", at |-> Standing({m})] \in Fingerprints
    <3>1. Standing({m}) \in Stands({m})
      BY StandingStands
    <3>2. [unit |-> "branch", at |-> Standing({m})] \in Fingerprint("branch", {m})
      BY <3>1 DEF Fingerprint
    <3> QED
      BY <3>2 DEF Fingerprints
  <2>2. Proposed(skipped) = {[unit |-> "branch", at |-> Standing({m})] : m \in open}
    BY <1>3 DEF Proposed
  <2> HIDE DEF open
  <2> QED
    BY <2>1, <2>2
<1> QED
  BY <1>1, <1>2, <1>3

LEMMA NoRunIs == NoRun \in RunRow
BY DEF NoRun, RunRow

-----------------------------------------------------------------------------
(* Rows *)

LEMMA RowIs ==
  ASSUME NEW r \in Row, NEW s \in Status, NEW m \in Modes
  PROVE  /\ [r EXCEPT !.status = s] \in Row /\ [r EXCEPT !.override = m] \in Row
         /\ [status |-> s, override |-> m] \in Row
         /\ r.status \in Status /\ r.override \in Modes
         /\ Filed(r) \in Row /\ Reopened(r) \in Row
         /\ r.status \notin {"absent", "unproposed"} => Filed(r) = r
         /\ r.status # "declined" => Reopened(r) = r
BY DEF Row, Filed, Reopened, Status

LEMMA OneRow ==
  ASSUME row \in Rows, NEW fp, NEW r \in Row
  PROVE  [row EXCEPT ![fp] = r] \in Rows
BY DEF Rows

LEMMA RunFields ==
  ASSUME run \in RunRow, NEW fps \in SUBSET Fingerprints
  PROVE  /\ run.cands \subseteq Fingerprints /\ run.todo \subseteq Fingerprints
         /\ [run EXCEPT !.todo = fps] \in RunRow
         /\ [run EXCEPT !.todo = fps, !.invalid = TRUE] \in RunRow
BY DEF RunRow

(* The override a finding is left with is of a mode, and as strong as its own*)
(* and as any it was given.                                                  *)
LEMMA StrongestIs ==
  ASSUME NEW own \in Modes, NEW given \in SUBSET Modes
  PROVE  /\ Strongest(own, given) \in Modes
         /\ \A m \in given \cup {own} : Rank(Strongest(own, given)) >= Rank(m)
<1>1. Strongest(own, given) \in Modes
  BY DEF Strongest, Modes
<1>2. Rank("none") = 0 /\ Rank("once") = 1 /\ Rank("exempt") = 2
  BY DEF Rank
<1>3. ASSUME NEW m \in given \cup {own}
      PROVE  Rank(Strongest(own, given)) >= Rank(m)
  <2>1. CASE m = "none"
    BY <1>1, <1>2, <2>1 DEF Modes
  <2>2. CASE m = "once"
    <3>1. Strongest(own, given) # "none"
      BY <2>2 DEF Strongest
    <3> QED
      BY <1>1, <1>2, <2>2, <3>1 DEF Modes
  <2>3. CASE m = "exempt"
    <3>1. Strongest(own, given) = "exempt"
      BY <2>3 DEF Strongest
    <3> QED
      BY <1>2, <2>3, <3>1
  <2> QED
    BY <2>1, <2>2, <2>3 DEF Modes
<1> QED
  BY <1>1, <1>3

-----------------------------------------------------------------------------
(* Types *)

LEMMA Parts ==
  ASSUME TypeOK
  PROVE  /\ row \in Rows /\ stand \in Stands(Moves) /\ ready \subseteq Moves
         /\ grouped \in BOOLEAN /\ due \in BOOLEAN /\ pc \in Steps /\ run \in RunRow
         /\ shifts \in Nat /\ requests \in Nat /\ troubles \in Nat
BY TypeIs

LEMMA Whole ==
  ASSUME (row \in Rows)', (stand \in Stands(Moves))', (ready \subseteq Moves)',
         (grouped \in BOOLEAN)', (due \in BOOLEAN)', (pc \in Steps)',
         (run \in RunRow)', (shifts \in Nat)', (requests \in Nat)', (troubles \in Nat)'
  PROVE  TypeOK'
BY DEF TypeOK, Rows, RunRow, Steps

LEMMA TypeTroubles ==
  ASSUME TypeOK, Trouble \/ UNCHANGED troubles
  PROVE  troubles' \in Nat
BY Parts DEF Trouble

LEMMA HandOverIs ==
  ASSUME TypeOK, NEW heir \in [Handing -> run.cands],
         \A q \in Handing : heir[q] \in Heirs(q),
         row' = Handed(heir)
  PROVE  /\ row' \in Rows
         /\ \A fp \in Fingerprints :
              fp \notin Handing /\ ~Is(fp, "new") => row'[fp] = row[fp]
         /\ \A q \in Handing :
              /\ heir[q] \in Heirs(q) /\ row'[heir[q]].status = "queued"
              /\ Rank(row'[heir[q]].override) >= Rank(row[q].override)
<1>1. row \in Rows /\ run.cands \subseteq Fingerprints
  BY Parts DEF RunRow
<1>2. \A fp \in Fingerprints : row[fp] \in Row /\ row[fp].override \in Modes
  BY <1>1, RowIs DEF Rows, Row
<1>3. Handing \subseteq Fingerprints /\ \A q \in Handing : Is(q, "queued")
  BY DEF Handing
<1> DEFINE giving(fp) == {q \in Handing : heir[q] = fp}
           given(fp)  == {row[q].override : q \in giving(fp)}
<1>4. ASSUME NEW fp \in Fingerprints, fp \in Handing
      PROVE  giving(fp) = {}
  <2>1. ASSUME NEW q \in giving(fp) PROVE FALSE
    <3>1. Is(fp, "new") /\ Is(fp, "queued")
      BY <1>3, <1>4 DEF Heirs
    <3> QED
      BY <3>1 DEF Is
  <2> QED
    BY <2>1
<1>5. ASSUME NEW fp \in Fingerprints
      PROVE  /\ fp \in Handing => row'[fp] = [row[fp] EXCEPT !.status = "replaced"]
             /\ giving(fp) # {} => row'[fp] =
                  [status |-> "queued", override |-> Strongest(row[fp].override, given(fp))]
             /\ fp \notin Handing /\ giving(fp) = {} => row'[fp] = row[fp]
  BY <1>4 DEF Handed
<1>6. ASSUME NEW fp \in Fingerprints
      PROVE  given(fp) \in SUBSET Modes
  BY <1>2, <1>3
<1>7. ASSUME NEW fp \in Fingerprints PROVE row'[fp] \in Row
  <2>1. CASE fp \in Handing
    BY <1>2, <1>5, <2>1 DEF Row, Status
  <2>2. CASE giving(fp) # {}
    <3>1. Strongest(row[fp].override, given(fp)) \in Modes
      BY <1>2, <1>6, StrongestIs
    <3>2. row'[fp] = [status |-> "queued",
                      override |-> Strongest(row[fp].override, given(fp))]
      BY <1>5, <2>2
    <3> HIDE DEF given
    <3> QED
      BY <3>1, <3>2 DEF Row, Status
  <2>3. CASE fp \notin Handing /\ giving(fp) = {}
    BY <1>2, <1>5, <2>3
  <2> QED
    BY <2>1, <2>2, <2>3
<1>8. row' \in Rows
  BY <1>7 DEF Rows, Handed
<1>9. ASSUME NEW fp \in Fingerprints, fp \notin Handing, ~Is(fp, "new")
      PROVE  row'[fp] = row[fp]
  <2>1. giving(fp) = {}
    BY <1>9 DEF Heirs
  <2> QED
    BY <1>5, <1>9, <2>1
<1>10. ASSUME NEW q \in Handing
       PROVE  /\ heir[q] \in Heirs(q) /\ row'[heir[q]].status = "queued"
              /\ Rank(row'[heir[q]].override) >= Rank(row[q].override)
  <2>1. heir[q] \in Heirs(q) /\ heir[q] \in Fingerprints /\ q \in giving(heir[q])
    BY <1>1 DEF Heirs
  <2>2. row'[heir[q]] = [status |-> "queued",
                         override |-> Strongest(row[heir[q]].override, given(heir[q]))]
    BY <1>5, <2>1
  <2>3. row[q].override \in given(heir[q])
    BY <2>1
  <2>4. given(heir[q]) \in SUBSET Modes /\ row[heir[q]].override \in Modes
    BY <1>2, <1>6, <2>1
  <2> HIDE DEF given, giving
  <2>5. Rank(Strongest(row[heir[q]].override, given(heir[q]))) >= Rank(row[q].override)
    BY <2>3, <2>4, StrongestIs
  <2> QED
    BY <2>1, <2>2, <2>5
<1> QED
  BY <1>8, <1>9, <1>10

(* A scan's steps before its findings are settled *)
LEMMA TypeAnswered ==
  ASSUME TypeOK,
         \/ \E S \in SUBSET Moves : RenovateAnswers(S)
         \/ \E names \in SUBSET WorkerNames : WorkerFiles(names)
         \/ \E fp \in Fingerprints : Ingest(fp)
  PROVE  TypeOK'
<1>1. /\ row \in Rows /\ stand \in Stands(Moves) /\ ready \subseteq Moves
      /\ grouped \in BOOLEAN /\ due \in BOOLEAN /\ pc \in Steps /\ run \in RunRow
      /\ shifts \in Nat /\ requests \in Nat
  BY Parts
<1>2. /\ UNCHANGED <<stand, ready, grouped, shifts, due, requests>>
      /\ Trouble \/ UNCHANGED troubles
      /\ pc' = "ingest"
  BY DEF RenovateAnswers, WorkerFiles, Ingest, world, At
<1>3. ASSUME NEW S \in SUBSET Moves, RenovateAnswers(S)
      PROVE  row' \in Rows /\ run' \in RunRow
  <2>1. Proposed(S) \subseteq Fingerprints
    BY <1>1, ProposedIsNamed
  <2>2. /\ run' = [NoRun EXCEPT !.cands = Proposed(S), !.skipped = S, !.todo = Proposed(S)]
        /\ UNCHANGED row
    BY <1>3 DEF RenovateAnswers
  <2> QED
    BY <1>1, <2>1, <2>2, NoRunIs DEF RunRow
<1>4. ASSUME NEW names \in SUBSET WorkerNames, WorkerFiles(names)
      PROVE  row' \in Rows /\ run' \in RunRow
  <2>1. names \subseteq Fingerprints
    BY DEF WorkerNames
  <2>2. run' = [NoRun EXCEPT !.worker = TRUE, !.todo = names] /\ UNCHANGED row
    BY <1>4 DEF WorkerFiles
  <2> QED
    BY <1>1, <2>1, <2>2, NoRunIs DEF RunRow
<1>5. ASSUME NEW fp \in Fingerprints, Ingest(fp)
      PROVE  row' \in Rows /\ run' \in RunRow
  <2>1. row[fp] \in Row
    BY <1>1 DEF Rows
  <2>2. Filed(row[fp]) \in Row /\ Reopened(row[fp]) \in Row
    BY <2>1, RowIs DEF Status, Modes
  <2>3. \/ row' = row
        \/ row' = [row EXCEPT ![fp] = Filed(row[fp])]
        \/ row' = [row EXCEPT ![fp] = Reopened(row[fp])]
    BY <1>5 DEF Ingest
  <2>4. row' \in Rows
    BY <1>1, <2>2, <2>3, OneRow
  <2>5. run.todo \ {fp} \in SUBSET Fingerprints
    BY <1>1 DEF RunRow
  <2>6. \/ run' = [run EXCEPT !.todo = run.todo \ {fp}]
        \/ run' = [run EXCEPT !.todo = run.todo \ {fp}, !.invalid = TRUE]
    BY <1>5 DEF Ingest
  <2>7. run' \in RunRow
    BY <1>1, <2>5, <2>6, RunFields
  <2> QED
    BY <2>4, <2>7
<1>6. row' \in Rows /\ run' \in RunRow
  BY <1>3, <1>4, <1>5
<1> QED
  BY <1>1, <1>2, <1>6, TypeTroubles, Whole DEF Steps

LEMMA TypeSettled ==
  ASSUME TypeOK, ScanFails \/ Ingested \/ RetireUnproposed \/ HandOver \/ Stamp \/ Bump
  PROVE  TypeOK'
<1>1. /\ row \in Rows /\ stand \in Stands(Moves) /\ ready \subseteq Moves
      /\ grouped \in BOOLEAN /\ due \in BOOLEAN /\ run \in RunRow
      /\ shifts \in Nat /\ requests \in Nat /\ NoRun \in RunRow
  BY Parts, NoRunIs
<1>2. /\ UNCHANGED <<stand, ready, grouped, shifts, requests>>
      /\ Trouble \/ UNCHANGED troubles
      /\ due' \in {due, FALSE} /\ run' \in {run, NoRun}
  BY DEF ScanFails, Ingested, RetireUnproposed, HandOver, Stamp, Bump, SettleFails, world,
     Goto, EndCycle
<1>3. pc' \in Steps
  BY DEF ScanFails, Ingested, RetireUnproposed, HandOver, Stamp, Bump, SettleFails, Goto,
     EndCycle, Steps
<1>4. row' \in Rows
  <2>1. CASE UNCHANGED row
    BY <1>1, <2>1
  <2>2. CASE row' = [fp \in Fingerprints |->
               IF Retirable(fp) THEN [row[fp] EXCEPT !.status = "unproposed"]
                                ELSE row[fp]]
    <3>1. \A fp \in Fingerprints : row[fp] \in Row
      BY <1>1 DEF Rows
    <3>2. \A fp \in Fingerprints : [row[fp] EXCEPT !.status = "unproposed"] \in Row
      BY <3>1 DEF Row, Status
    <3> QED
      BY <2>2, <3>1, <3>2 DEF Rows
  <2>3. ASSUME NEW heir \in [Handing -> run.cands], row' = Handed(heir),
               \A q \in Handing : heir[q] \in Heirs(q)
        PROVE  row' \in Rows
    BY <2>3, HandOverIs
  <2> QED
    BY <2>1, <2>2, <2>3 DEF ScanFails, Ingested, RetireUnproposed, HandOver, Stamp, Bump,
       SettleFails
<1> QED
  BY <1>1, <1>2, <1>3, <1>4, TypeTroubles, Whole

LEMMA TypeOther ==
  ASSUME TypeOK, FixTier \/ Operator \/ World
  PROVE  TypeOK'
<1>1. /\ row \in Rows /\ stand \in Stands(Moves) /\ ready \subseteq Moves
      /\ grouped \in BOOLEAN /\ due \in BOOLEAN /\ pc \in Steps /\ run \in RunRow
      /\ shifts \in Nat /\ requests \in Nat /\ troubles \in Nat /\ NoRun \in RunRow
  BY Parts, NoRunIs
<1>2. ASSUME NEW fp \in Fingerprints
      PROVE  /\ row[fp] \in Row /\ row[fp].override \in Modes
             /\ \A s \in Status : [row[fp] EXCEPT !.status = s] \in Row
             /\ \A m \in Modes : [row[fp] EXCEPT !.override = m] \in Row
             /\ \A m \in Modes : [status |-> "queued", override |-> m] \in Row
  <2>1. row[fp] \in Row
    BY <1>1 DEF Rows
  <2> QED
    BY <2>1 DEF Row, Status
<1>3. CASE FixTier
  <2>1. PICK fp \in Fingerprints : FixTakes(fp) \/ FixReturns(fp)
    BY <1>3 DEF FixTier
  <2>2. \E r \in Row : row' = [row EXCEPT ![fp] = r]
    <3>1. CASE FixTakes(fp)
      <4>1. row' = [row EXCEPT ![fp] = [row[fp] EXCEPT !.status = "taken"]]
        BY <3>1 DEF FixTakes
      <4> QED
        BY <1>2, <4>1 DEF Status
    <3>2. CASE FixReturns(fp)
      <4>1. \E m \in Modes : row' = [row EXCEPT ![fp] = [status |-> "queued",
                                                         override |-> m]]
        BY <1>2, <3>2 DEF FixReturns, Modes
      <4> QED
        BY <1>2, <4>1
    <3> QED
      BY <2>1, <3>1, <3>2
  <2>3. PICK r \in Row : row' = [row EXCEPT ![fp] = r]
    BY <2>2
  <2>4. row' \in Rows
    BY <1>1, <2>3, OneRow
  <2>5. UNCHANGED <<stand, ready, grouped, shifts, due, pc, run, requests, troubles>>
    BY <2>1 DEF FixTakes, FixReturns, world
  <2> QED
    BY <1>1, <2>4, <2>5, Whole
<1>4. CASE Operator
  <2>1. PICK fp \in Fingerprints :
          Decide(fp) \/ \E mode \in {"once", "exempt"} : Override(fp, mode)
    BY <1>4 DEF Operator
  <2>2. \E r \in Row : Request(fp, r)
    <3>1. CASE Decide(fp)
      <4>1. PICK way \in {<<"new", "queued">>, <<"queued", "new">>, <<"new", "declined">>} :
              Request(fp, [row[fp] EXCEPT !.status = way[2]])
        BY <3>1 DEF Decide
      <4>2. way[2] \in Status
        BY <4>1 DEF Status
      <4> QED
        BY <1>2, <4>1, <4>2
    <3>2. CASE \E mode \in {"once", "exempt"} : Override(fp, mode)
      BY <1>2, <3>2 DEF Override, Modes
    <3> QED
      BY <2>1, <3>1, <3>2
  <2>3. PICK r \in Row : Request(fp, r)
    BY <2>2
  <2>4. row' \in Rows
    BY <1>1, <2>3, OneRow DEF Request
  <2>5. /\ UNCHANGED <<stand, ready, grouped, shifts, due, pc, run, troubles>>
        /\ requests' = requests + 1
    BY <2>3 DEF Request, world
  <2> QED
    BY <1>1, <2>4, <2>5, Whole
<1>5. CASE Regrouped \/ ScanFallsDue \/ Crash
  <2>1. CASE Regrouped
    BY <1>1, <2>1, Whole DEF Regrouped, Shift
  <2>2. CASE ScanFallsDue
    BY <1>1, <2>2, Whole DEF ScanFallsDue, world
  <2>3. CASE Crash
    <3>1. /\ UNCHANGED <<row, stand, ready, grouped, shifts, due, requests>>
          /\ Trouble /\ pc' \in Steps /\ run' \in RunRow
      BY <1>1, <2>3 DEF Crash, EndCycle, world, Steps
    <3> QED
      BY <1>1, <3>1, TypeTroubles, Whole
  <2> QED
    BY <1>5, <2>1, <2>2, <2>3
<1>6. ASSUME NEW m \in Moves, Released(m)
      PROVE  TypeOK'
  BY <1>1, <1>6, Whole DEF Released, Shift
<1>7. ASSUME NEW m \in Moves, Lands(m)
      PROVE  TypeOK'
  <2>1. /\ stand \in [Moves -> Nat] /\ \A n \in Moves : stand[n] <= MaxStand[n]
        /\ MaxStand[m] \in Nat /\ stand[m] < MaxStand[m]
        /\ stand' = [stand EXCEPT ![m] = stand[m] + 1]
    BY <1>1, <1>7, StandIs, DepUpdatesAssumption DEF Lands
  <2>2. stand[m] + 1 \in Nat /\ stand[m] + 1 <= MaxStand[m]
    BY <2>1
  <2>3. stand' \in [Moves -> Nat] /\ \A n \in Moves : stand'[n] <= MaxStand[n]
    BY <2>1, <2>2
  <2>4. stand' \in Stands(Moves)
    BY <2>3, StandIs
  <2> QED
    BY <1>1, <1>7, <2>4, Whole DEF Lands, Shift
<1> QED
  BY <1>3, <1>4, <1>5, <1>6, <1>7 DEF World

LEMMA TypeInit ==
  ASSUME Init
  PROVE  TypeOK
<1>1. row \in Rows
  BY DEF Init, Rows, Row, Absent, Status, Modes
<1>2. stand \in Stands(Moves)
  <2>1. \A m \in Moves : MaxStand[m] \in Nat
    BY DepUpdatesAssumption
  <2>2. stand \in [Moves -> Nat] /\ \A m \in Moves : stand[m] <= MaxStand[m]
    BY <2>1 DEF Init
  <2> QED
    BY <2>2, StandIs
<1> QED
  BY <1>1, <1>2, NoRunIs, TypeIs DEF Init, Steps

LEMMA TypeStep ==
  ASSUME TypeOK, [Next]_vars
  PROVE  TypeOK'
<1>1. CASE UNCHANGED vars
  <2>1. UNCHANGED <<row, stand, ready, grouped, shifts, due, pc, run, requests, troubles>>
    BY <1>1 DEF vars, world
  <2> QED
    BY <2>1, Parts, Whole
<1>2. CASE Next
  BY <1>2, TypeAnswered, TypeSettled, TypeOther DEF Next, Scan
<1> QED
  BY <1>1, <1>2

(* The findings, the locals of a scan and the versions keep their types: what*)
(* is proposed always names a fingerprint there is (renovate_scan,           *)
(* run_dep_update, ingest)                                                   *)
THEOREM TypeCorrect == Spec => []TypeOK
BY TypeInit, TypeStep, PTL DEF Spec

-----------------------------------------------------------------------------
(* The queue *)

(* What a step of the loop owes the finding q *)
Spared(q) ==
  /\ Is(q, "taken") => row'[q] = row[q]
  /\ Is(q, "declined") => row'[q] = row[q] \/ run.worker
  /\ Is(q, "queued") /\ row'[q].status # "queued" =>
       \E p \in run.cands :
         /\ row'[p].status = "queued"
         /\ Members(q) \cap Members(p) # {} \/ SameUnit(q, p)
         /\ Rank(row'[p].override) >= Rank(row[q].override)

LEMMA SparedAsItIs ==
  ASSUME NEW q, row'[q] = row[q]
  PROVE  Spared(q)
BY DEF Spared, Is

(* Two findings of one move have a member or a unit in common. *)
LEMMA SameMoveIs ==
  ASSUME NEW q, NEW p, SameMove(q, p)
  PROVE  Members(q) \cap Members(p) # {} \/ SameUnit(q, p)
<1>1. CASE SameUnit(q, p)
  BY <1>1
<1>2. CASE Single(q) /\ Members(q) \subseteq Members(p)
  <2>1. Members(q) # {}
    BY <1>2, FS_EmptySet DEF Single
  <2> QED
    BY <1>2, <2>1
<1> QED
  BY <1>1, <1>2 DEF SameMove

LEMMA SparedByIngest ==
  ASSUME TypeOK, NEW fp \in Fingerprints, Ingest(fp), NEW q \in Fingerprints
  PROVE  Spared(q)
<1>1. row \in Rows /\ row[q] \in Row
  BY Parts DEF Rows
<1>2. \/ row'[q] = row[q]
      \/ row'[q] = Filed(row[q])
      \/ run.worker /\ row'[q] = Reopened(row[q])
  BY <1>1 DEF Ingest, Rows
<1>3. CASE row'[q] = Filed(row[q])
  <2>1. row[q].status \in {"taken", "declined", "queued"} => row'[q] = row[q]
    BY <1>1, <1>3, RowIs DEF Status, Modes
  <2> QED
    BY <2>1 DEF Spared, Is
<1>4. CASE run.worker /\ row'[q] = Reopened(row[q])
  <2>1. row[q].status \in {"taken", "queued"} => row'[q] = row[q]
    BY <1>4 DEF Reopened
  <2> QED
    BY <1>4, <2>1 DEF Spared, Is
<1> QED
  BY <1>2, <1>3, <1>4, SparedAsItIs

LEMMA SparedByRetiring ==
  ASSUME RetireUnproposed, NEW q \in Fingerprints
  PROVE  Spared(q)
<1>1. CASE row' = row
  BY <1>1, SparedAsItIs
<1>2. CASE row' = [fp \in Fingerprints |->
             IF Retirable(fp) THEN [row[fp] EXCEPT !.status = "unproposed"]
                              ELSE row[fp]]
  <2>1. ~Is(q, "new") => row'[q] = row[q]
    BY <1>2 DEF Retirable
  <2> QED
    BY <2>1 DEF Spared, Is
<1> QED
  BY <1>1, <1>2 DEF RetireUnproposed, SettleFails

LEMMA SparedByHandOver ==
  ASSUME TypeOK, HandOver, NEW q \in Fingerprints
  PROVE  Spared(q)
<1>1. CASE row' = row
  BY <1>1, SparedAsItIs
<1>2. ASSUME NEW heir \in [Handing -> run.cands], row' = Handed(heir),
             \A p \in Handing : heir[p] \in Heirs(p)
      PROVE  Spared(q)
  <2>1. CASE q \in Handing
    <3>1. Is(q, "queued")
      BY <2>1 DEF Handing
    <3>2. /\ heir[q] \in Heirs(q) /\ row'[heir[q]].status = "queued"
          /\ Rank(row'[heir[q]].override) >= Rank(row[q].override)
      BY <1>2, <2>1, HandOverIs
    <3>3. heir[q] \in run.cands /\ SameMove(q, heir[q])
      BY <3>2 DEF Heirs
    <3>4. Members(q) \cap Members(heir[q]) # {} \/ SameUnit(q, heir[q])
      BY <3>3, SameMoveIs
    <3> QED
      BY <3>1, <3>2, <3>3, <3>4 DEF Spared, Is
  <2>2. CASE q \notin Handing /\ ~Is(q, "new")
    BY <1>2, <2>2, HandOverIs, SparedAsItIs
  <2>3. CASE Is(q, "new")
    BY <2>3 DEF Spared, Is
  <2> QED
    BY <2>1, <2>2, <2>3
<1> QED
  BY <1>1, <1>2 DEF HandOver, SettleFails

QueueStep == pc # "idle" /\ requests' = requests
               => \A q \in Fingerprints : Spared(q)

LEMMA QueueKept ==
  ASSUME TypeOK, [Next]_vars
  PROVE  [QueueStep]_vars
<1>1. CASE row' = row
  BY <1>1, SparedAsItIs DEF QueueStep
<1>2. ASSUME NEW fp \in Fingerprints, Ingest(fp)
      PROVE  QueueStep
  BY <1>2, SparedByIngest DEF QueueStep
<1>3. CASE RetireUnproposed
  BY <1>3, SparedByRetiring DEF QueueStep
<1>4. CASE HandOver
  BY <1>4, SparedByHandOver DEF QueueStep
<1>5. CASE FixTier
  BY <1>5 DEF FixTier, FixTakes, FixReturns, At, QueueStep
<1>6. CASE Operator
  <2>1. requests' = requests + 1
    BY <1>6 DEF Operator, Decide, Override, Request
  <2>2. requests' # requests
    BY <2>1, Parts
  <2> QED
    BY <2>2 DEF QueueStep
<1>7. ASSUME World \/ ScanFails \/ Ingested \/ Stamp \/ Bump
             \/ (\E S \in SUBSET Moves : RenovateAnswers(S))
             \/ (\E names \in SUBSET WorkerNames : WorkerFiles(names))
             \/ UNCHANGED vars
      PROVE  row' = row
  BY <1>7 DEF World, Regrouped, ScanFallsDue, Crash, Released, Lands, Shift, ScanFails,
     Ingested, Stamp, Bump, RenovateAnswers, WorkerFiles, vars
<1> QED
  BY <1>1, <1>2, <1>3, <1>4, <1>5, <1>6, <1>7 DEF Next, Scan

(* No scan writes over what a worker has taken up, none reverses a verdict of*)
(* the operator's on Renovate's word, and what it takes off the queue it     *)
(* replaces there by a finding of the same move, under an override at least  *)
(* as strong (supersede_unproposed_dep_updates, hand_over_queued_dep_updates)*)
THEOREM QueueIsKept == Spec => QueueSurvivesScans
<1>1. QueueSurvivesScans <=> [][QueueStep]_vars
  BY PTL DEF QueueSurvivesScans, QueueStep, Spared
<1> QED
  BY <1>1, QueueKept, TypeCorrect, PTL DEF Spec

=============================================================================
