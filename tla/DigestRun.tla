----------------------------- MODULE DigestRun -----------------------------
(***************************************************************************)
(* What a digest run promises to the page that polls it                    *)
(* (GET /runs/{run_id}): mail joins the run while it is active, leaves it   *)
(* when it is dealt with, and the run ends once, with nothing left to do.   *)
(* Queues, workers, claims and progress queries are not visible here.       *)
(***************************************************************************)
CONSTANT Emails

VARIABLES
  status,  \* digest_runs.status, "absent" before the row is committed
  owed     \* emails whose classification or summary the run still owes

runVars == <<status, owed>>

Active == {"queued", "running"}
Ended == {"complete", "failed"}

Init == status = "absent" /\ owed = {}

(* The row appears; a reclassification brings its mail along.               *)
Open ==
  /\ status = "absent"
  /\ status' = "queued"
  /\ owed' \in SUBSET Emails

(* The record that starts a run commits what it found with it.              *)
Start == status = "queued" /\ status' = "running" /\ owed' \in SUBSET Emails

(* A scan adds mail, a verdict or a summary settles some, the user reads    *)
(* some: while the run is active the work may change in any way.            *)
Work == status \in Active /\ owed' \in SUBSET Emails /\ UNCHANGED status

(* Reading mail settles it at any time; nothing joins a run that has ended. *)
Settle == owed' \in SUBSET owed /\ UNCHANGED status

End == status \in Active /\ owed = {} /\ status' \in Ended /\ UNCHANGED owed

Next == Open \/ Start \/ Work \/ Settle \/ End

Spec == Init /\ [][Next]_runVars
=============================================================================
