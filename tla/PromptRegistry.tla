---------------------------- MODULE PromptRegistry ----------------------------
(***************************************************************************)
(* PromptRegistry.sync_to_db and the lookup that follows it.  Every record  *)
(* handler loads the prompt files of its own deployment package, refreshes  *)
(* the prompt_versions row, and later resolves the row by the hash of its   *)
(* own file.  During a deployment workers of two releases, whose files      *)
(* differ in place (same name and version), share the row.                  *)
(*                                                                         *)
(* The sync is a read, a second read and a flush; the transaction is        *)
(* committed at the end of the record.  A flushed row is locked until then. *)
(***************************************************************************)
EXTENDS Integers

CONSTANTS
  SyncWorkers, \* Lambda workers
  Releases,    \* deployed packages, in this order
  NoRow,       \* the row does not exist
  NoWorker     \* nobody holds the row lock

ASSUME ReleaseAssumption ==
  /\ Releases \in Nat \ {0}
  /\ NoRow \notin 1 .. Releases /\ NoWorker \notin SyncWorkers

VARIABLES
  released, \* the newest release that is deployed
  oldest,   \* the oldest release that still has workers
  row,      \* content_hash of the committed prompt_versions row
  holder,   \* the worker with an uncommitted insert or update of the row
  worker    \* what each worker holds

promptVars == <<released, oldest, row, holder, worker>>

AtRest == [pc |-> "idle", release |-> 1, seen |-> NoRow]

(* A worker sees its own uncommitted row, else the committed one.           *)
RowSeenBy(w) == IF holder = w THEN worker[w].release ELSE row

Goes(w, pc) == [worker EXCEPT ![w].pc = pc]

(* A record arrives; content_hash of its release's file is looked up.       *)
LookForHash(w) ==
  /\ worker[w].pc = "idle"
  /\ \E r \in oldest .. released :
       worker' = [worker EXCEPT ![w] =
         [pc |-> IF row = r THEN "resolve" ELSE "read", release |-> r, seen |-> NoRow]]
  /\ UNCHANGED <<released, oldest, row, holder>>

(* The row of (name, version), whatever its text.                           *)
ReadRow(w) ==
  /\ worker[w].pc = "read"
  /\ worker' = [worker EXCEPT ![w].pc = "flush", ![w].seen = row]
  /\ UNCHANGED <<released, oldest, row, holder>>

(* Mutant: a row that exists keeps its text.                                *)
FlushInsertsOnly(w) ==
  /\ worker[w].pc = "flush" /\ holder = NoWorker
  /\ worker' = Goes(w, IF worker[w].seen = NoRow /\ row # NoRow THEN "raised" ELSE "resolve")
  /\ holder' = IF worker[w].seen = NoRow /\ row = NoRow THEN w ELSE holder
  /\ UNCHANGED <<released, oldest, row>>

(* INSERT or UPDATE, once nobody else holds the row; an insert of a row     *)
(* that another worker committed meanwhile breaks the unique constraint.    *)
Flush(w) ==
  /\ worker[w].pc = "flush" /\ holder = NoWorker
  /\ LET duplicate == worker[w].seen = NoRow /\ row # NoRow IN
       /\ worker' = Goes(w, IF duplicate THEN "raised" ELSE "resolve")
       /\ holder' = IF duplicate THEN holder ELSE w
  /\ UNCHANGED <<released, oldest, row>>

(* _load_prompt_row: LookupError when no row has the hash.                  *)
Resolve(w) ==
  /\ worker[w].pc = "resolve"
  /\ worker' = Goes(w, IF RowSeenBy(w) = worker[w].release THEN "call" ELSE "raised")
  /\ UNCHANGED <<released, oldest, row, holder>>

(* The model call is done; the record's transaction is committed.           *)
CommitRecord(w) ==
  /\ worker[w].pc = "call"
  /\ row' = RowSeenBy(w)
  /\ holder' = IF holder = w THEN NoWorker ELSE holder
  /\ worker' = [worker EXCEPT ![w] = AtRest]
  /\ UNCHANGED <<released, oldest>>

(* The record raised, or dies during the model call: a rollback, and SQS    *)
(* delivers it again.                                                       *)
Abandon(w) ==
  /\ worker[w].pc \in {"raised", "call"}
  /\ holder' = IF holder = w THEN NoWorker ELSE holder
  /\ worker' = [worker EXCEPT ![w] = AtRest]
  /\ UNCHANGED <<released, oldest, row>>

Deploy ==
  /\ released < Releases
  /\ released' = released + 1
  /\ UNCHANGED <<oldest, row, holder, worker>>

(* The last worker of an old release is gone.                               *)
Retire ==
  /\ oldest < released
  /\ \A w \in SyncWorkers : worker[w].pc # "idle" => worker[w].release > oldest
  /\ oldest' = oldest + 1
  /\ UNCHANGED <<released, row, holder, worker>>

PromptInit ==
  /\ released = 1 /\ oldest = 1
  /\ row = NoRow /\ holder = NoWorker
  /\ worker = [w \in SyncWorkers |-> AtRest]

HandleRecord(w) ==
  LookForHash(w) \/ ReadRow(w) \/ Flush(w) \/ Resolve(w) \/ CommitRecord(w)

PromptNext ==
  \/ \E w \in SyncWorkers : HandleRecord(w) \/ Abandon(w)
  \/ Deploy \/ Retire

-----------------------------------------------------------------------------
(* Properties                                                               *)

(* Two releases that share the row undo each other's text and lose each     *)
(* other's lookups; once one release is alone, the row holds its text for   *)
(* good and no lookup or refresh fails any more.                            *)
SettlesAfterDeployment ==
  <>[](oldest = Releases) =>
    <>[](row = Releases /\ \A w \in SyncWorkers : worker[w].pc # "raised")

=============================================================================
