--------------------------- MODULE RunImplements ---------------------------
(***************************************************************************)
(* The pipeline of RunPipeline, seen through its run row and its pending    *)
(* counters, is a DigestRun.                                               *)
(***************************************************************************)
EXTENDS RunPipeline

Promise == INSTANCE DigestRun
  WITH status <- run, owed <- PendingUnclassified \cup PendingSummaries

(* Workers that interleave over one account's mail, with redundant          *)
(* finalizers and a user who reads meanwhile, keep the promise of the run   *)
(* row: it never leaves a terminal status, ends only when nothing is owed,  *)
(* and no mail joins it afterwards (services/runs.py maybe_finalize_run).   *)
ImplementsDigestRun == Promise!Spec
=============================================================================
