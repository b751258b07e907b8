----------------------------- MODULE DepUpdates -----------------------------
(***************************************************************************)
(* The dependency scan of one repository: what Renovate, or the worker that*)
(* stands in for it, proposes is filed as findings; the ones no longer     *)
(* proposed are retired; and a queued one whose move is now proposed in    *)
(* another finding hands its place in the queue over to that finding       *)
(* (hunter-rs/src/scheduler.rs, store.rs, ingest.rs, dep_scan.rs).         *)
(*                                                                         *)
(* One scheduler task scans and fixes, so no fix runs during a scan; the   *)
(* operator's requests come at any time, and the daemon may die.           *)
(***************************************************************************)
EXTENDS Naturals, FiniteSets

CONSTANTS
  Moves,        \* the updates of a package in a class, as Renovate sees them
  MaxStand,     \* bound: the last version of a move's package, by move
  Guessed,      \* bound: the moves a worker that stands in reports
  MaxShifts,    \* bound: changes of the repository, its upstreams, the presets
  MaxRequests,  \* bound: operator requests
  MaxTroubles   \* bound: crashes, failed writes, scans in part or by a worker

ASSUME DepUpdatesAssumption ==
  /\ MaxStand \in [Moves -> Nat] /\ Guessed \subseteq Moves
  /\ MaxShifts \in Nat
  /\ MaxRequests \in Nat /\ MaxTroubles \in Nat

VARIABLES
  row,       \* the dep_update findings, by fingerprint
  stand,     \* the version every package has in the repository
  ready,     \* the moves a newer version exists for
  grouped,   \* do the presets put all moves into one branch?
  due,       \* has the scan interval passed since last_dep_update_at?
  pc,        \* where the scheduler task is
  run,       \* its locals
  shifts, requests, troubles   \* what the bounds count

world  == <<stand, ready, grouped, shifts>>
vars   == <<row, world, due, pc, run, requests, troubles>>

-----------------------------------------------------------------------------
(* A fingerprint names a unit and where its members stand: a branch of one *)
(* move, the branch of a group, or what the worker called it.              *)
Versions == UNION {0..MaxStand[m] : m \in Moves}
Stands(members) ==
  {at \in [members -> Versions] : \A m \in members : at[m] <= MaxStand[m]}

Fingerprint(kind, members) ==
  {[unit |-> kind, at |-> at] : at \in Stands(members)}

Fingerprints ==
  UNION ({Fingerprint("branch", {m}) : m \in Moves}
           \cup {Fingerprint("worker", {m}) : m \in Guessed}
           \cup {Fingerprint("group", S) : S \in (SUBSET Moves) \ {{}}})

Members(fp) == DOMAIN fp.at

(* fp's package is a member's name only when there is just one. *)
Single(fp) == Cardinality(Members(fp)) = 1

(* The fingerprint of one starts with the other's unit. *)
SameUnit(q, p) == q.unit = p.unit /\ (q.unit = "group" \/ Members(q) = Members(p))

(* The join of hand_over_queued_dep_updates *)
SameMove(q, p) == (Single(q) /\ Members(q) \subseteq Members(p)) \/ SameUnit(q, p)

(* What Renovate proposes when it cannot look up the dependencies skipped *)
StandingNext(S) == [m \in S |-> stand[m] + 1]   \* mutant: names the target
Standing(S) == [m \in S |-> stand[m]]
Proposed(skipped) ==
  LET open == ready \ skipped
  IN CASE open = {}             -> {}
       [] open # {} /\ grouped  -> {[unit |-> "group", at |-> Standing(open)]}
       [] OTHER -> {[unit |-> "branch", at |-> Standing({m})] : m \in open}

(* taken: fixing, blocked or in a PR; declined: rejected or wontfix.       *)
(* Superseded by the scan, with its reason: no longer proposed, or replaced*)
(* by another finding.                                                     *)
Status    == {"absent", "new", "queued", "taken", "declined", "unproposed",
              "replaced"}
Modes     == {"none", "once", "exempt"}
Row       == [status : Status, override : Modes]
Absent    == [status |-> "absent", override |-> "none"]
NoRun     == [cands |-> {}, skipped |-> {}, todo |-> {}, worker |-> FALSE,
              invalid |-> FALSE]

TypeOK ==
  /\ row \in [Fingerprints -> Row]
  /\ stand \in Stands(Moves) /\ ready \subseteq Moves
  /\ grouped \in BOOLEAN /\ due \in BOOLEAN
  /\ pc \in {"idle", "ingest", "retire", "hand", "stamp", "bump"}
  /\ run \in [cands : SUBSET Fingerprints, skipped : SUBSET Moves,
              todo : SUBSET Fingerprints, worker : BOOLEAN, invalid : BOOLEAN]
  /\ shifts \in Nat /\ requests \in Nat /\ troubles \in Nat

Init ==
  /\ row = [fp \in Fingerprints |-> Absent]
  /\ stand = [m \in Moves |-> 0] /\ ready \in SUBSET Moves /\ grouped \in BOOLEAN
  /\ due = TRUE /\ pc = "idle" /\ run = NoRun
  /\ shifts = 0 /\ requests = 0 /\ troubles = 0

At(p)    == pc = p
Goto(p)  == pc' = p /\ UNCHANGED run
EndCycle == pc' = "idle" /\ run' = NoRun
Trouble  == troubles < MaxTroubles /\ troubles' = troubles + 1
Is(fp, status) == row[fp].status = status

-----------------------------------------------------------------------------
(* run_dep_update *)

(* A scan that is due comes round; what happened since the clone was synced *)
(* is as if it came after the answer.                                       *)
Scanning == At("idle") /\ due

(* renovate_scan: an answer about everything but the dependencies skipped.  *)
(* One that looked nothing up is none.                                      *)
RenovateAnswers(skipped) ==
  /\ Scanning /\ skipped # Moves /\ pc' = "ingest"
  /\ \/ skipped = {} /\ UNCHANGED troubles
     \/ skipped # {} /\ Trouble
  /\ run' = [NoRun EXCEPT !.cands = Proposed(skipped), !.skipped = skipped,
                          !.todo = Proposed(skipped)]
  /\ UNCHANGED <<row, world, due, requests>>

(* The clone cannot be synced or the answer not be written: the cycle fails. *)
ScanFails ==
  /\ Scanning /\ Goto("bump")
  /\ UNCHANGED <<row, world, due, requests, troubles>>

(* Without an answer a worker scans, a new one or one that resumes in the   *)
(* tree it had: it files what it believes under names of its own.           *)
WorkerNames ==
  {fp \in Fingerprints : fp.unit = "worker" /\ \A m \in Members(fp) : fp.at[m] <= stand[m]}

WorkerFiles(names) ==
  /\ Scanning /\ names \subseteq WorkerNames /\ Trouble /\ pc' = "ingest"
  /\ run' = [NoRun EXCEPT !.worker = TRUE, !.todo = names]
  /\ UNCHANGED <<row, world, due, requests>>

(* mutant: what was retired stays retired *)
FiledOnce(r) == [r EXCEPT !.status = IF @ = "absent" THEN "new" ELSE @]

(* upsert_finding, and refresh_dep_update of one on file already *)
Filed(r) == [r EXCEPT !.status = IF @ \in {"absent", "unproposed"} THEN "new" ELSE @]

(* reopen_if_changed: a worker was shown what is declined, and files it again *)
(* because the code the verdict rests on has changed.                         *)
Reopened(r) == IF r.status = "declined" THEN [r EXCEPT !.status = "new"] ELSE r

(* ingest, one entry; one that cannot be written is counted. *)
Ingest(fp) ==
  /\ At("ingest") /\ fp \in run.todo /\ pc' = pc
  /\ \/ /\ \/ row' = [row EXCEPT ![fp] = Filed(@)]
           \/ run.worker /\ row' = [row EXCEPT ![fp] = Reopened(@)]
        /\ run' = [run EXCEPT !.todo = @ \ {fp}]
        /\ UNCHANGED troubles
     \/ /\ Trouble /\ UNCHANGED row
        /\ run' = [run EXCEPT !.todo = @ \ {fp}, !.invalid = TRUE]
  /\ UNCHANGED <<world, due, requests>>

(* Only Renovate's answer, taken in whole, is acted upon.  A worker's scan is *)
(* over when it is done, killed or failed; one that only pauses is not.       *)
Ingested ==
  /\ At("ingest") /\ run.todo = {}
  /\ \/ ~run.invalid /\ Goto(IF run.worker THEN "stamp" ELSE "retire")
     \/ (run.invalid \/ run.worker) /\ Goto("bump")
     \/ run.worker /\ EndCycle
  /\ UNCHANGED <<row, world, due, requests, troubles>>

(* settle_dep_updates fails: the error ends the cycle. *)
SettleFails ==
  /\ Trouble /\ Goto("bump") /\ UNCHANGED row

(* A group is matched by its name: nothing skipped is called like it. *)
Retirable(fp) ==
  /\ Is(fp, "new") /\ fp \notin run.cands
  /\ ~(Single(fp) /\ Members(fp) \subseteq run.skipped)

(* supersede_unproposed_dep_updates *)
RetireUnproposed ==
  /\ At("retire")
  /\ \/ /\ row' = [fp \in Fingerprints |->
             IF Retirable(fp) THEN [row[fp] EXCEPT !.status = "unproposed"]
                              ELSE row[fp]]
        /\ Goto("hand") /\ UNCHANGED troubles
     \/ SettleFails
  /\ UNCHANGED <<world, due, requests>>

(* mutant: the override of the finding that takes over is kept as it is *)
OwnOverride(own, given) == own

Strongest(own, given) ==
  IF "exempt" \in {own} \cup given THEN "exempt"
  ELSE IF own = "none" /\ "once" \in given THEN "once"
  ELSE own

(* The queued findings that hand over, and the new ones they may hand to: *)
(* the code takes the one filed first.                                   *)
Heirs(q) == {p \in run.cands : Is(p, "new") /\ SameMove(q, p)}
Handing  == {q \in Fingerprints :
               Is(q, "queued") /\ q \notin run.cands /\ Heirs(q) # {}}

(* What is filed once every queued finding of them has handed over to its heir *)
Handed(heir) ==
  [fp \in Fingerprints |->
     LET giving == {q \in Handing : heir[q] = fp}
     IN CASE fp \in Handing -> [row[fp] EXCEPT !.status = "replaced"]
          [] giving # {} ->
               [status |-> "queued",
                override |-> Strongest(row[fp].override,
                               {row[q].override : q \in giving})]
          [] OTHER -> row[fp]]

(* hand_over_queued_dep_updates, one transaction *)
HandOver ==
  /\ At("hand")
  /\ \/ \E heir \in [Handing -> run.cands] :
          /\ \A q \in Handing : heir[q] \in Heirs(q)
          /\ row' = Handed(heir)
          /\ Goto("stamp") /\ UNCHANGED troubles
     \/ SettleFails
  /\ UNCHANGED <<world, due, requests>>

(* set_last_dep_update, by the runner after a clean scan *)
Stamp ==
  /\ At("stamp") /\ Goto("bump")
  /\ \/ due' = FALSE /\ UNCHANGED troubles
     \/ Trouble /\ UNCHANGED due
  /\ UNCHANGED <<row, world, requests>>

(* run_cycle_inner records the attempt of a rotation scan, failed or not. *)
Bump ==
  /\ At("bump") /\ EndCycle
  /\ \/ due' = FALSE /\ UNCHANGED troubles
     \/ Trouble /\ UNCHANGED due
  /\ UNCHANGED <<row, world, requests>>

-----------------------------------------------------------------------------
(* The fix tier, between scans: a queued update is taken up, and comes back *)
(* to the queue when its attempt did not finish; `once` is then spent.      *)
FixTakes(fp) ==
  /\ At("idle") /\ Is(fp, "queued")
  /\ row' = [row EXCEPT ![fp].status = "taken"]
  /\ UNCHANGED <<world, due, pc, run, requests, troubles>>

FixReturns(fp) ==
  /\ At("idle") /\ Is(fp, "taken")
  /\ row' = [row EXCEPT ![fp] =
       [status |-> "queued", override |-> IF @.override = "once" THEN "none"
                                                                ELSE @.override]]
  /\ UNCHANGED <<world, due, pc, run, requests, troubles>>

(* The operator queues, unqueues and decides, and sets overrides. *)
Request(fp, to) ==
  /\ requests < MaxRequests /\ requests' = requests + 1
  /\ row' = [row EXCEPT ![fp] = to]
  /\ UNCHANGED <<world, due, pc, run, troubles>>

Decide(fp) ==
  \E way \in {<<"new", "queued">>, <<"queued", "new">>, <<"new", "declined">>} :
    Is(fp, way[1]) /\ Request(fp, [row[fp] EXCEPT !.status = way[2]])

Override(fp, mode) ==
  /\ Is(fp, "queued") /\ row[fp].override # mode
  /\ Request(fp, [row[fp] EXCEPT !.override = mode])

-----------------------------------------------------------------------------
(* The world *)

Shift == /\ shifts < MaxShifts /\ shifts' = shifts + 1
         /\ UNCHANGED <<row, due, pc, run, requests, troubles>>

(* A version is released; one lands, by hand or by a merge; the presets, or *)
(* which dependencies move together, change.                                *)
Released(m) == m \notin ready /\ ready' = ready \cup {m} /\ Shift
               /\ UNCHANGED <<stand, grouped>>
Lands(m)    == m \in ready /\ stand[m] < MaxStand[m] /\ Shift
               /\ ready' = ready \ {m} /\ stand' = [stand EXCEPT ![m] = @ + 1]
               /\ UNCHANGED grouped
Regrouped   == grouped' = ~grouped /\ Shift /\ UNCHANGED <<stand, ready>>

ScanFallsDue ==
  /\ At("idle") /\ ~due /\ due' = TRUE
  /\ UNCHANGED <<row, world, pc, run, requests, troubles>>

Crash ==
  /\ ~At("idle") /\ Trouble /\ EndCycle
  /\ UNCHANGED <<row, world, due, requests>>

-----------------------------------------------------------------------------
Scan == \/ ScanFails \/ Ingested
        \/ RetireUnproposed \/ HandOver \/ Stamp \/ Bump
        \/ \E S \in SUBSET Moves : RenovateAnswers(S)
        \/ \E names \in SUBSET WorkerNames : WorkerFiles(names)
        \/ \E fp \in Fingerprints : Ingest(fp)

FixTier  == \E fp \in Fingerprints : FixTakes(fp) \/ FixReturns(fp)
Operator == \E fp \in Fingerprints :
              Decide(fp) \/ \E mode \in {"once", "exempt"} : Override(fp, mode)
World    == \/ Regrouped \/ ScanFallsDue \/ Crash
            \/ \E m \in Moves : Released(m) \/ Lands(m)

Next == Scan \/ FixTier \/ Operator \/ World

Spec == Init /\ [][Next]_vars

(* The loop goes on, time passes, and again and again Renovate answers for  *)
(* every dependency.                                                        *)
Fairness ==
  /\ WF_vars(Scan) /\ WF_vars(ScanFallsDue)
  /\ SF_vars(RenovateAnswers({}))

LiveSpec == Spec /\ Fairness

-----------------------------------------------------------------------------
(* A scan writes over nothing a worker has taken up; it reverses a verdict   *)
(* of the operator's only on a worker's word, never on Renovate's; and it    *)
(* takes a finding off the queue only by putting one it proposes for the     *)
(* same move there, under an override at least as strong: an update the      *)
(* operator queued is neither lost nor demoted (hand_over_queued_dep_updates)*)
Rank(mode) == CASE mode = "none" -> 0 [] mode = "once" -> 1 [] OTHER -> 2

QueueSurvivesScans ==
  [][pc # "idle" /\ requests' = requests =>
       \A q \in Fingerprints :
         /\ Is(q, "taken") => row'[q] = row[q]
         /\ Is(q, "declined") => row'[q] = row[q] \/ run.worker
         /\ Is(q, "queued") /\ row'[q].status # "queued" =>
              \E p \in run.cands :
                /\ row'[p].status = "queued"
                /\ Members(q) \cap Members(p) # {} \/ SameUnit(q, p)
                /\ Rank(row'[p].override) >= Rank(row[q].override)]_vars

(* Again and again the findings on file are what Renovate proposes: all of it*)
(* is on file, also what an earlier scan had retired, or failed on half way  *)
(* (refresh_dep_update), under its own fingerprint unless that was handed    *)
(* over; and no new finding waits for the operator that is not proposed any  *)
(* more (supersede_unproposed_dep_updates).                                  *)
OnFile ==
  /\ \A fp \in Proposed({}) : row[fp].status \notin {"absent", "unproposed"}
  /\ \A fp \in Fingerprints \ Proposed({}) : ~Is(fp, "new")

FileFollowsRenovate == []<>OnFile

=============================================================================
