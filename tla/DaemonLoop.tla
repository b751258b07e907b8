----------------------------- MODULE DaemonLoop -----------------------------
(***************************************************************************)
(* The scheduler loop of the daemon and what the operator's requests do to *)
(* it: cycles one after another, the sleep between them that a request     *)
(* cuts short, the pause, overdrive and the gates a cycle passes, and the  *)
(* shutdown (hunter-rs/src/daemon.rs, server.rs, scheduler.rs).            *)
(*                                                                         *)
(* The loop and the HTTP handlers run in parallel and share atomics and a  *)
(* tokio Notify.  What a cycle does to the finding it works on is the      *)
(* other modules' matter: here it is one of a number that are queued.      *)
(***************************************************************************)
EXTENDS Naturals

CONSTANTS
  MaxQueued,    \* bound: findings queued at a time
  MaxRequests,  \* bound: operator requests
  MaxShifts,    \* bound: changes of the provider's quota windows
  MaxEnds       \* bound: crashes, signals, requests cut off, cycles that fail

ASSUME DaemonLoopAssumption ==
  MaxQueued \in Nat /\ MaxRequests \in Nat /\ MaxShifts \in Nat /\ MaxEnds \in Nat

VARIABLES
  pc,        \* where the loop is
  last,      \* how the cycle ended
  nap,       \* the sleep after it: none, or some time
  running, paused, overdrive, permit,   \* the SchedulerHandle, permit its Notify's
  told,      \* the latched shutdown
  queued,    \* findings waiting to be worked
  windows,   \* the provider's quota windows: under their ramp, over it, exhausted
  calls,     \* requests whose effect is stored and whose notify is to come
  unseen,    \* answered requests no cycle has begun since
  begun,     \* cycles begun since the pause was stored
  requests, shifts, ends   \* what the bounds count

handle == <<running, paused, overdrive, permit>>
loop   == <<pc, last, nap>>
seen   == <<calls, unseen, begun>>
bounds == <<requests, shifts, ends>>
vars   == <<loop, handle, told, queued, windows, seen, bounds>>

Pcs   == {"off", "top", "held", "begin", "pick", "gate", "work", "rest", "asleep"}
Ends  == {"none", "worked", "skipped", "denied", "idle", "failed"}
Windows == {"long", "short"}
Calls == {"queue", "unqueue", "pause", "resume", "overdrive", "cycle"}

TypeOK ==
  /\ pc \in Pcs /\ last \in Ends /\ nap \in {"none", "some"}
  /\ running \in BOOLEAN /\ paused \in BOOLEAN /\ overdrive \in BOOLEAN
  /\ permit \in BOOLEAN /\ told \in BOOLEAN
  /\ queued \in 0..MaxQueued /\ windows \in [Windows -> {"under", "over", "exhausted"}]
  /\ calls \subseteq Calls /\ unseen \subseteq Calls /\ begun \in Nat
  /\ requests \in Nat /\ shifts \in Nat /\ ends \in Nat

Init ==
  /\ pc = "top" /\ last = "none" /\ nap = "none"
  /\ running = FALSE /\ paused = FALSE /\ overdrive = FALSE /\ permit = FALSE
  /\ told = FALSE /\ queued \in 0..MaxQueued /\ windows = [w \in Windows |-> "under"]
  /\ calls = {} /\ unseen = {} /\ begun = 0
  /\ requests = 0 /\ shifts = 0 /\ ends = 0

At(p) == pc = p
Goto(p) == pc' = p /\ UNCHANGED <<last, nap>>
Trouble == ends < MaxEnds /\ ends' = ends + 1 /\ UNCHANGED <<requests, shifts>>

-----------------------------------------------------------------------------
(* The loop *)

(* The pause is looked at before running is set, not atomically with it. *)
Hold ==
  /\ At("top") /\ paused /\ Goto("held")
  /\ UNCHANGED <<handle, told, queued, windows, seen, bounds>>

GoOn ==
  /\ At("top") /\ ~paused /\ Goto("begin")
  /\ UNCHANGED <<handle, told, queued, windows, seen, bounds>>

Begin ==
  /\ At("begin") /\ Goto("pick") /\ running' = TRUE
  /\ unseen' = {} /\ begun' = IF paused THEN begun + 1 ELSE begun
  /\ UNCHANGED <<paused, overdrive, permit, told, queued, windows, calls, bounds>>

(* mutant: a paused loop that is woken goes on with a cycle *)
GoesOn == "begin"

(* After a select: the latch is looked at whichever branch won. *)
Onward == "top"
Turn == IF told THEN "off" ELSE Onward

(* mutant: only a notify ends the wait of a paused loop *)
WokenByNotify == permit /\ permit' = FALSE
Woken == \/ permit /\ permit' = FALSE
         \/ told /\ UNCHANGED permit

Resume ==
  /\ At("held") /\ Woken /\ Goto(Turn)
  /\ UNCHANGED <<running, paused, overdrive, told, queued, windows, seen, bounds>>

(* The sleep ends by itself, by a notify, or by the shutdown: when several  *)
(* could, any of them may win, and a permit is then kept.                   *)
Wakes == (permit /\ permit' = FALSE) \/ (told /\ UNCHANGED permit)

Wake ==
  /\ At("asleep") /\ (Wakes \/ (nap = "none" /\ UNCHANGED permit))
  /\ pc' = Turn /\ nap' = "none" /\ UNCHANGED last
  /\ UNCHANGED <<running, paused, overdrive, told, queued, windows, seen, bounds>>

TimeIsUp ==
  /\ At("asleep") /\ nap = "some"
  /\ pc' = Turn /\ nap' = "none" /\ UNCHANGED last
  /\ UNCHANGED <<handle, told, queued, windows, seen, bounds>>

-----------------------------------------------------------------------------
(* A cycle *)

EndCycle(how) == pc' = "rest" /\ last' = how /\ nap' = nap /\ running' = FALSE

(* reconcile_and_log, or the cycle, fails and is caught. *)
CycleFails ==
  /\ pc \in {"pick", "gate", "work"} /\ Trouble /\ EndCycle("failed")
  /\ UNCHANGED <<paused, overdrive, permit, told, queued, windows, seen>>

DiskFull ==
  /\ At("pick") /\ Trouble /\ EndCycle("denied")
  /\ UNCHANGED <<paused, overdrive, permit, told, queued, windows, seen>>

(* pick_next; with nothing queued there may still be a repository to scan. *)
Pick ==
  /\ At("pick")
  /\ \/ queued > 0 /\ Goto("gate") /\ UNCHANGED running
     \/ queued = 0 /\ \E how \in {"idle", "worked"} : EndCycle(how)
  /\ UNCHANGED <<paused, overdrive, permit, told, queued, windows, seen, bounds>>

Normal == \A w \in Windows : windows[w] = "under"

(* decide_inner: the first window that is over its ramp, longest first,     *)
(* decides about prioritized work.                                          *)
First == IF windows["long"] # "under" THEN "long" ELSE "short"
Prioritized == Normal \/ windows[First] = "over"

(* mutant: overdrive does not reach the gate *)
GrantsNormal == Normal
(* OverdriveBackend: the prioritized verdict stands for the normal one. *)
Grants == IF overdrive THEN Prioritized ELSE Normal

Deny ==
  /\ At("gate") /\ queued > 0 /\ ~Grants /\ EndCycle("denied")
  /\ UNCHANGED <<paused, overdrive, permit, told, queued, windows, seen, bounds>>

(* mutant: the finding picked is taken without a look at its status *)
StillQueuedAnyway == TRUE
(* claim_in_progress: the finding picked may have been taken out of the queue. *)
StillQueued == queued > 0

Claim ==
  /\ At("gate") /\ StillQueued /\ Grants /\ Goto("work") /\ queued' = queued - 1
  /\ UNCHANGED <<handle, told, windows, seen, bounds>>

Skip ==
  /\ At("gate") /\ ~StillQueued /\ EndCycle("skipped")
  /\ UNCHANGED <<paused, overdrive, permit, told, queued, windows, seen, bounds>>

WorkEnds ==
  /\ At("work") /\ EndCycle("worked")
  /\ UNCHANGED <<paused, overdrive, permit, told, queued, windows, seen, bounds>>

(* compute_sleep_s *)
Rest ==
  /\ At("rest") /\ pc' = "asleep" /\ last' = "none"
  /\ nap' = IF last = "skipped" \/ (last = "worked" /\ queued > 0) THEN "none" ELSE "some"
  /\ UNCHANGED <<handle, told, queued, windows, seen, bounds>>

-----------------------------------------------------------------------------
(* The operator.  A handler stores its effect and then notifies the loop.   *)

Store(call) ==
  /\ ~At("off") /\ call \notin calls /\ calls' = calls \cup {call}
  /\ requests < MaxRequests /\ requests' = requests + 1
  /\ UNCHANGED <<loop, running, permit, told, windows, unseen, shifts, ends>>

Queue ==
  /\ Store("queue") /\ queued < MaxQueued /\ queued' = queued + 1
  /\ UNCHANGED <<paused, overdrive, begun>>

Unqueue ==
  /\ Store("unqueue") /\ queued > 0 /\ queued' = queued - 1
  /\ UNCHANGED <<paused, overdrive, begun>>

SetPaused ==
  /\ Store(IF paused THEN "resume" ELSE "pause") /\ paused' = ~paused
  /\ begun' = 0 /\ UNCHANGED <<overdrive, queued>>

SetOverdrive ==
  /\ Store("overdrive") /\ overdrive' = ~overdrive
  /\ UNCHANGED <<paused, queued, begun>>

(* cycle: refused when paused or busy, which may change before the notify. *)
Cycle ==
  /\ ~paused /\ ~running /\ Store("cycle")
  /\ UNCHANGED <<paused, overdrive, queued, begun>>

(* mutant: wakes who waits, and stores nothing *)
NotifyWaiters == permit' = (permit \/ pc \in {"held", "asleep"})
NotifyOne == permit' = TRUE

Answer(call) ==
  /\ call \in calls /\ calls' = calls \ {call} /\ NotifyOne
  /\ unseen' = unseen \cup ({call} \ {"pause"})
  /\ UNCHANGED <<loop, running, paused, overdrive, told, queued, windows, begun, bounds>>

(* The event of a verdict cannot be written, or the client is gone: what was *)
(* stored stays, and nobody is notified.  Where nothing is awaited between   *)
(* the two, a handler cannot end there.                                      *)
CutOff(call) ==
  /\ call \in calls \cap {"queue", "unqueue"} /\ calls' = calls \ {call} /\ Trouble
  /\ UNCHANGED <<loop, handle, told, queued, windows, unseen, begun>>

-----------------------------------------------------------------------------
(* The rest of the world *)

WindowsMove ==
  /\ shifts < MaxShifts /\ shifts' = shifts + 1
  /\ \E w \in Windows, to \in {"under", "over", "exhausted"} :
        windows[w] # to /\ windows' = [windows EXCEPT ![w] = to]
  /\ UNCHANGED <<loop, handle, told, queued, seen, requests, ends>>

Signal ==
  /\ ~At("off") /\ ~told /\ told' = TRUE /\ Trouble
  /\ UNCHANGED <<loop, handle, queued, windows, seen>>

Crash ==
  /\ ~At("off") /\ Goto("off") /\ Trouble
  /\ UNCHANGED <<handle, told, queued, windows, seen>>

(* The atomics, the permit and the open requests are those of a process. *)
Boot ==
  /\ At("off") /\ pc' = "top" /\ last' = "none" /\ nap' = "none"
  /\ running' = FALSE /\ paused' = FALSE /\ overdrive' = FALSE /\ permit' = FALSE
  /\ told' = FALSE /\ calls' = {} /\ unseen' = {} /\ begun' = 0
  /\ UNCHANGED <<queued, windows, bounds>>

-----------------------------------------------------------------------------
Loop == \/ Hold \/ GoOn \/ Begin \/ Resume \/ Wake \/ Pick \/ Deny \/ Claim
        \/ Skip \/ WorkEnds \/ Rest

Operator == Queue \/ Unqueue \/ SetPaused \/ SetOverdrive \/ Cycle

Handlers == \E call \in Calls : Answer(call)

Environment == \/ TimeIsUp \/ CycleFails \/ DiskFull \/ WindowsMove \/ Signal
               \/ Crash \/ Boot \/ \E call \in Calls : CutOff(call)

Next == Loop \/ Operator \/ Handlers \/ Environment

Spec == Init /\ [][Next]_vars

(* The loop's task is scheduled, what it waits for in a cycle ends, handlers *)
(* answer, and a sleep is bounded by an hour.                                *)
Fairness == WF_vars(Loop) /\ WF_vars(Handlers) /\ WF_vars(TimeIsUp)

LiveSpec == Spec /\ Fairness

-----------------------------------------------------------------------------
(* "A notify delivered mid-cycle is held as a permit, so a trigger is never  *)
(* lost" (SchedulerHandle): while the loop waits, and is not paused, every   *)
(* request that was answered has had a cycle begin after it, or is about to. *)
AnsweredIsSeen ==
  (At("held") \/ (At("asleep") /\ nap = "some")) /\ ~permit /\ ~paused
    /\ "resume" \notin calls
  => unseen = {}

(* After the pause is stored at most one more cycle begins (run_daemon's     *)
(* comment on the check), whatever wakes the loop meanwhile.                 *)
PauseHolds == paused => begun <= 1

(* A signal stops the daemon, also while it is paused, asleep or in a cycle, *)
(* and whichever branch of a select wins (run_daemon).                       *)
StopEnds == told ~> At("off")

(* What is queued is worked off unless the operator pauses the scheduler or  *)
(* the windows do not admit it, with overdrive or without: no denial, failed *)
(* cycle, stale pick or missed notify leaves the queue standing.             *)
Admitted == Normal \/ (overdrive /\ \A w \in Windows : windows[w] # "exhausted")

QueueDrains ==
  queued > 0 /\ Admitted ~>
    queued = 0 \/ paused \/ ~Admitted \/ At("off")

(* "Pacing limits are bypassed, but provider hard stops remain enforced"     *)
(* (SchedulerHandle.overdrive): nothing is claimed while a window is         *)
(* exhausted.                                                                *)
HardStopHolds ==
  [][At("gate") /\ pc' = "work" => \A w \in Windows : windows[w] # "exhausted"]_vars

=============================================================================
