------------------------------ MODULE Scheduler ------------------------------
(***************************************************************************)
(* Who may start a digest run of a user, and when: the 15-minute fan-out    *)
(* tick with its slot predicate, the manual-run endpoint that bypasses it,  *)
(* and the per-user lock (users.current_run_id, current_run_started_at)     *)
(* that the last worker of a run clears.                                    *)
(*                                                                         *)
(* A tick reads the user, decides on what it read, and commits a run and    *)
(* the lock later; a finalizer reads the user, compares the lock with its   *)
(* run, and writes later.  Neither holds a row lock in between.             *)
(*                                                                         *)
(* Time runs through a day of DayLength units of 7.5 minutes; spans are     *)
(* kept as ages that stop at the value from which on they no longer matter. *)
(* A tick or a request takes at most 60 s, less than a unit.                *)
(***************************************************************************)
EXTENDS Integers

CONSTANTS
  Runs,         \* run rows that may exist at the same time
  NoRun,        \* users.current_run_id is NULL
  DayLength,    \* units of a day
  Slots,        \* the user's slots of a day, as UTC instants
  TickEvery,    \* EventBridge: rate(15 minutes)
  HalfWindow,   \* SLOT_HALF_WINDOW, 7.5 minutes
  Debounce,     \* LAST_RUN_DEBOUNCE, one hour
  StaleAfter,   \* LOCK_STALE_AFTER, 30 minutes
  MaxFaults     \* bound on ticks that die half-way and records given up

ASSUME RunsAssumption == NoRun \notin Runs /\ MaxFaults \in Nat
ASSUME TimeAssumption ==
  /\ DayLength \in Nat \ {0}
  /\ Slots \subseteq 0 .. DayLength - 1
  /\ {TickEvery, HalfWindow, Debounce, StaleAfter} \subseteq Nat \ {0}
  /\ DayLength % TickEvery = 0
  /\ 2 * HalfWindow < StaleAfter /\ 2 * HalfWindow < Debounce

VARIABLES
  clock,     \* time of day
  ticked,    \* EventBridge has invoked the fan-out at this instant
  consented, \* the user accepted the current legal versions
  scanning,  \* an active account with auto_scan_enabled exists
  lock,      \* users.current_run_id
  finished,  \* time since users.last_run_finished_at, Debounce when longer
  run,       \* digest_runs of the user
  tick,      \* what the fan-out Lambda holds
  faults

vars == <<clock, ticked, consented, scanning, lock, finished, run, tick, faults>>

(* A run row: `age` since started_at, which is also when its lock began;    *)
(* `sent`: its messages reached SQS and no record of it was given up, so    *)
(* that workers will end it;                                                *)
(* `clearing`: its finalizer has read the user and found the lock its own   *)
(* or another's; `alone` (history): scheduled, and no other run live since. *)
(* Only a completed row that was alone is remembered (for OneRunPerSlot).   *)
Free == [status |-> "free", age |-> 0, sent |-> FALSE, clearing |-> "no", alone |-> FALSE]
RunRow ==
  [status : {"free", "live", "complete"}, age : 0 .. StaleAfter, sent : BOOLEAN,
   clearing : {"no", "own", "other"}, alone : BOOLEAN]

View ==
  [consented : BOOLEAN, finished : 0 .. Debounce, locked : BOOLEAN,
   age : 0 .. StaleAfter]
Resting == [pc |-> "idle", run |-> NoRun,
            seen |-> [consented |-> FALSE, finished |-> 0, locked |-> FALSE, age |-> 0]]

TypeOK ==
  /\ clock \in 0 .. DayLength - 1
  /\ ticked \in BOOLEAN /\ consented \in BOOLEAN /\ scanning \in BOOLEAN
  /\ lock \in Runs \cup {NoRun}
  /\ finished \in 0 .. Debounce
  /\ run \in [Runs -> RunRow]
  /\ tick \in [pc : {"idle", "loaded", "sending"}, run : Runs \cup {NoRun}, seen : View]
  /\ faults \in 0 .. MaxFaults

-----------------------------------------------------------------------------
(* The slot predicate (core/scheduling.py).                                 *)

Live == {r \in Runs : run[r].status = "live"}
Capped(n, cap) == IF n < cap THEN n ELSE cap

(* Distance of two instants around midnight: the day before and the day     *)
(* after are candidates as well.                                            *)
Distance(s, t) ==
  LET d == (s - t) % DayLength IN IF d <= DayLength - d THEN d ELSE DayLength - d

SlotMatches(t) == \E s \in Slots : Distance(s, t) <= HalfWindow

(* Mutant: a lock never goes stale.                                         *)
DueWhenUnlocked(t, user) ==
  user.finished >= Debounce /\ ~user.locked /\ SlotMatches(t)

(* Mutant: only the lock is looked at, not the last finished run.           *)
DueWithoutDebounce(t, user) ==
  (user.locked => user.age >= StaleAfter) /\ SlotMatches(t)

IsDue(t, user) ==
  /\ user.finished >= Debounce
  /\ user.locked => user.age >= StaleAfter
  /\ SlotMatches(t)

-----------------------------------------------------------------------------
(* Starting a run.                                                          *)

(* A row nothing refers to any more stands for a new one: a run without     *)
(* messages, and a success once its slot has passed.                        *)
Reusable(r) ==
  /\ lock # r /\ tick.run # r
  /\ \/ run[r].status = "free"
     \/ run[r].status = "live" /\ ~run[r].sent
     \/ run[r].status = "complete" /\ run[r].age = StaleAfter

Begin(r, scheduled, sent) ==
  /\ Reusable(r)
  /\ run' = [q \in Runs |->
       IF q = r THEN [status |-> "live", age |-> 0, sent |-> sent, clearing |-> "no",
                      alone |-> scheduled /\ Live \subseteq {r}]
       ELSE [run[q] EXCEPT !.alone = @ /\ run[q].status # "live"]]
  /\ lock' = r

(* The tick reads every user whose schedule is not disabled, then the time. *)
TickLoad ==
  /\ clock % TickEvery = 0
  /\ tick.pc = "idle" /\ ~ticked
  /\ tick' = [pc |-> "loaded", run |-> NoRun,
              seen |-> [consented |-> consented, finished |-> finished,
                        locked |-> lock # NoRun,
                        age |-> IF lock = NoRun THEN 0 ELSE run[lock].age]]
  /\ ticked' = TRUE
  /\ UNCHANGED <<clock, consented, scanning, lock, finished, run, faults>>

TickAdmits == tick.seen.consented /\ IsDue(clock, tick.seen) /\ scanning

TickSkip ==
  /\ tick.pc = "loaded" /\ ~TickAdmits
  /\ tick' = Resting
  /\ UNCHANGED <<clock, ticked, consented, scanning, lock, finished, run, faults>>

TickCommit ==
  /\ tick.pc = "loaded" /\ TickAdmits
  /\ \E r \in Runs :
       /\ Begin(r, TRUE, FALSE)
       /\ tick' = [tick EXCEPT !.pc = "sending", !.run = r]
  /\ UNCHANGED <<clock, ticked, consented, scanning, finished, faults>>

TickSend ==
  /\ tick.pc = "sending"
  /\ run' = [run EXCEPT ![tick.run].sent = TRUE]
  /\ tick' = Resting
  /\ UNCHANGED <<clock, ticked, consented, scanning, lock, finished, faults>>

(* The Lambda dies before its commit, before its first message, or between  *)
(* two messages; EventBridge invokes it again or gives up.                  *)
TickCrash ==
  /\ tick.pc # "idle" /\ faults < MaxFaults
  /\ \/ UNCHANGED run
     \/ tick.pc = "sending" /\ run' = [run EXCEPT ![tick.run].sent = TRUE]
  /\ tick' = Resting
  /\ ticked' \in BOOLEAN
  /\ faults' = faults + 1
  /\ UNCHANGED <<clock, consented, scanning, lock, finished>>

(* POST /runs: no slot, no debounce, and whatever the lock holds is         *)
(* overwritten.  Messages are sent before the commit.                       *)
ManualRun ==
  /\ consented /\ scanning
  /\ \E r \in Runs : Begin(r, FALSE, TRUE)
  /\ UNCHANGED <<clock, ticked, consented, scanning, finished, tick, faults>>

-----------------------------------------------------------------------------
(* Ending a run: maybe_finalize_run calls _clear_user_lock and commits.     *)

LoadUser(r) ==
  /\ run[r].status = "live" /\ run[r].sent /\ run[r].clearing = "no"
  /\ run' = [run EXCEPT ![r].clearing = IF lock = r THEN "own" ELSE "other"]
  /\ UNCHANGED <<clock, ticked, consented, scanning, lock, finished, tick, faults>>

(* Mutant: only a completed run gives its lock back.                        *)
ClearsWhenComplete(r, outcome) == run[r].clearing = "own" /\ outcome = "complete"

Clears(r, outcome) == run[r].clearing = "own"

StampsFinish(r, outcome) == run[r].clearing = "own" /\ outcome = "complete"

(* Mutant: the finish time is written in local time.                        *)
FinishEarly(r) ==
  /\ run[r].clearing = "own" /\ run' = [run EXCEPT ![r] = Free]
  /\ lock' = NoRun /\ finished' = -1
  /\ UNCHANGED <<clock, ticked, consented, scanning, tick, faults>>

FinishRun(r) ==
  /\ run[r].clearing # "no"
  /\ \E outcome \in {"complete", "failed"} :
       /\ run' = [run EXCEPT ![r] =
                    IF outcome = "complete" /\ @.alone
                    THEN [@ EXCEPT !.status = "complete", !.clearing = "no"] ELSE Free]
       /\ lock' = IF Clears(r, outcome) THEN NoRun ELSE lock
       /\ finished' = IF StampsFinish(r, outcome) THEN 0 ELSE finished
  /\ UNCHANGED <<clock, ticked, consented, scanning, tick, faults>>

(* A record of the run has failed max_receive_count times and goes to the   *)
(* dead-letter queue: its work stays pending and nobody ends the run.       *)
DeadLetter(r) ==
  /\ run[r].status = "live" /\ run[r].sent /\ run[r].clearing = "no"
  /\ faults < MaxFaults
  /\ run' = [run EXCEPT ![r].sent = FALSE]
  /\ faults' = faults + 1
  /\ UNCHANGED <<clock, ticked, consented, scanning, lock, finished, tick>>

-----------------------------------------------------------------------------
(* The rest of the world.                                                   *)

(* A release raises the legal versions; POST /legal/consent accepts them.   *)
NewTerms ==
  /\ consented /\ consented' = FALSE
  /\ UNCHANGED <<clock, ticked, scanning, lock, finished, run, tick, faults>>
AcceptLegalConsent ==
  /\ ~consented /\ consented' = TRUE
  /\ UNCHANGED <<clock, ticked, scanning, lock, finished, run, tick, faults>>

(* The user switches automatic scanning off or on, connects or disconnects. *)
ChangeAccounts ==
  /\ scanning' = ~scanning
  /\ UNCHANGED <<clock, ticked, consented, lock, finished, run, tick, faults>>

(* Every tick is invoked, and done, within its unit.                        *)
Advance ==
  /\ tick.pc = "idle"
  /\ clock % TickEvery = 0 => ticked
  /\ clock' = (clock + 1) % DayLength
  /\ ticked' = FALSE
  /\ finished' = Capped(finished + 1, Debounce)
  /\ run' = [r \in Runs |-> IF run[r].status = "free" THEN run[r] ELSE
                              [run[r] EXCEPT !.age = Capped(@ + 1, StaleAfter)]]
  /\ UNCHANGED <<consented, scanning, lock, tick, faults>>

Init ==
  /\ clock = 0 /\ ticked = FALSE
  /\ consented \in BOOLEAN /\ scanning \in BOOLEAN
  /\ lock = NoRun /\ finished = Debounce
  /\ run = [r \in Runs |-> Free]
  /\ tick = Resting
  /\ faults = 0

Tick == TickLoad \/ TickSkip \/ TickCommit \/ TickSend

Next ==
  \/ Tick \/ TickCrash \/ ManualRun
  \/ \E r \in Runs : LoadUser(r) \/ FinishRun(r) \/ DeadLetter(r)
  \/ NewTerms \/ AcceptLegalConsent \/ ChangeAccounts
  \/ Advance

Spec == Init /\ [][Next]_vars

(* Time passes, the tick Lambda goes on, and workers end what was sent,     *)
(* but for the runs that DeadLetter leaves behind (RunPipeline.RunEnds).    *)
(* Nothing makes a user press a button.                                     *)
Fairness ==
  /\ WF_vars(Advance) /\ WF_vars(Tick)
  /\ \A r \in Runs : WF_vars(LoadUser(r) \/ FinishRun(r))

FairSpec == Spec /\ Fairness

-----------------------------------------------------------------------------
(* Properties                                                               *)

(* The lock never outlives its run: whoever ends a run whose lock is in     *)
(* place clears it, failed or complete, and no stale read puts a finished   *)
(* run's lock back.                                                         *)
LockOwnerIsLive == lock # NoRun => run[lock].status = "live"

(* A scheduled run that had the user to itself and did not fail is not      *)
(* started a second time for its slot, though two ticks may match the slot. *)
OneRunPerSlot ==
  [][\A r, s \in Runs :
       tick.run # s /\ tick'.run = s /\ r # s /\ run[r].alone
       => run[r].age > 2 * HalfWindow]_vars

(* The lock of a run that still works is never taken away: the end of an    *)
(* older run leaves a fresher run's lock in place (fanout.py: "a stale       *)
(* worker must not clobber a fresher run").                                 *)
FresherLockSurvives ==
  [][\A r \in Runs : lock = r /\ lock' = NoRun => run'[r].status # "live"]_vars

(* A user who wants to be scanned is: a run starts again and again, though  *)
(* a dying tick or a dead-lettered record may leave a lock behind that      *)
(* nobody will clear.                                                       *)
UserIsServed ==
  <>[](consented /\ scanning) => []<>(\E r \in Live : run[r].age = 0)
=============================================================================
