------------------------------- MODULE MCRunEnds -------------------------------
(***************************************************************************)
(* The instance on which the end of a run is checked.  Two lanes that share *)
(* no behaviour keep the temporal check small.  In "overlap" two workers    *)
(* interleave without a fault, over any scan of newsletters that no digest  *)
(* lists; in "fault" one worker meets one crash or duplicate anywhere, over *)
(* two newsletters of which the first is listed.                            *)
(***************************************************************************)
EXTENDS MCRunPipeline

VARIABLE lane

laneVars == <<vars, lane>>

Listed == label[e1] = "must_read"
Taken(m) == queue'[m] < queue[m]

(* The workers and the emails of this lane are interchangeable: two idle    *)
(* workers begin with w1, a scan of one email finds e1, and the first       *)
(* classify record is e1's.                                                 *)
MayWork(w) ==
  CASE lane = "overlap" -> w = w1 \/ \E v \in Workers : session[v] # Idle
    [] lane = "fault" -> w = w1

Overlap ==
  /\ faults' = faults /\ ~Listed'
  /\ member' # {e2}
  /\ Taken(Classify(e2)) => queue[Classify(e1)] = 0
Fault ==
  /\ member' \in {{}, Emails}
  /\ e1 \in newsletters' => Listed'

LaneNext ==
  /\ Next /\ UNCHANGED lane
  /\ \A w \in Workers : session'[w] # session[w] => MayWork(w)
  /\ (lane = "overlap" => Overlap) /\ (lane = "fault" => Fault)

WorksInLane(w) == MayWork(w) /\ Works(w) /\ UNCHANGED lane

(* RunPipeline!FairSpec in its lane: a worker that the lane leaves out is   *)
(* not assumed to work.  Of what a step may find or be answered the lanes   *)
(* leave a part, and always some, so that no fair worker is held up.        *)
LaneSpec ==
  /\ Init /\ lane \in {"overlap", "fault"}
  /\ [][LaneNext]_laneVars
  /\ WF_laneVars(Start /\ UNCHANGED lane)
  /\ \A w \in Workers : WF_laneVars(WorksInLane(w))
=============================================================================
