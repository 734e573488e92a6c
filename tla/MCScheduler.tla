----------------------------- MODULE MCScheduler -----------------------------
(***************************************************************************)
(* Instances of Scheduler (a short day with two slots, one matched by two   *)
(* ticks and one by a single tick) and of Profile (two zones and a day of   *)
(* twelve units).  They share no state; a behaviour runs one of them        *)
(* (lane), so that their state spaces add up.                               *)
(***************************************************************************)
EXTENDS Scheduler, Profile, TLC

VARIABLE lane

(* In the first zone the wall clock skips 24 .. 26, in the second it shows  *)
(* 21 .. 23 twice: both changes touch a slot next to midnight.              *)
SpringAndAutumn ==
  {[before |-> -5, after |-> -2, at |-> 29], [before |-> 5, after |-> 2, at |-> 19]}

(* The clock skips 22 and 23, the last of a day, as in Nuuk since 2024.     *)
SkipToMidnight == {[before |-> -3, after |-> -1, at |-> 25]}

AroundMidnight == {<<>>, <<11>>, <<0, 11>>}

allVars == <<vars, profileVars, lane>>

(* The lane that stands still has one initial state.                        *)
MCInit ==
  /\ Init /\ ProfileInit /\ lane \in {"runs", "profile"}
  /\ lane = "runs" => user = CHOOSE s \in Schedule : s.frequency = "disabled"
  /\ lane = "profile" => ~consented /\ ~scanning
MCNext ==
  \/ lane = "runs" /\ Next /\ UNCHANGED <<profileVars, lane>>
  \/ lane = "profile" /\ ProfileNext /\ UNCHANGED <<vars, lane>>

InLane(l, A) == lane = l /\ A

(* Scheduler!FairSpec in its lane.                                          *)
MCSpec ==
  /\ MCInit /\ [][MCNext]_allVars
  /\ WF_vars(InLane("runs", Advance)) /\ WF_vars(InLane("runs", Tick))
  /\ \A r \in Runs : WF_vars(InLane("runs", LoadUser(r) \/ FinishRun(r)))
=============================================================================
