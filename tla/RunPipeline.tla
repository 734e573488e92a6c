------------------------------ MODULE RunPipeline ------------------------------
(***************************************************************************)
(* One digest run of one user, from the request that starts it to its      *)
(* terminal status.  A starter (the scheduler's fan-out or the manual-run  *)
(* endpoint) writes the digest_runs row and puts the first messages on     *)
(* SQS.  Lambda workers receive one message each, commit the message's own *)
(* work, send the follow-up messages, and then try to finalize the run:    *)
(* they read the pending counters one query after another, claim and send  *)
(* the category digests and the newsletter cluster job, and mark the run   *)
(* complete or failed when nothing was pending.                            *)
(*                                                                         *)
(* Delivery is at least once: a message is acknowledged after the worker's *)
(* last commit, a crash or an exception puts it back, and SQS may hand out *)
(* a second copy.  Every query sees what is committed at that moment       *)
(* (READ COMMITTED); nothing keeps two workers from interleaving.          *)
(***************************************************************************)
EXTENDS Integers, FiniteSets

CONSTANTS
  Accounts,         \* connected accounts in the run's scope
  Emails,           \* emails the run may touch
  Categories,       \* taxonomy.summarizable_labels
  Workers,          \* Lambda workers that may run at the same time
  AccountOf,        \* the account an email belongs to
  ScanResults,      \* for each account, what one Gmail scan may return
  Verdicts,         \* for each email, what the rules or the model may answer
  ClusterKey,       \* for each email, ClusterRouter.route(...).cluster_key
  Trigger,          \* who starts the run: "scheduled", "manual", "reclassify"
  ProvidersMayFail, \* the provider chain may be exhausted
  UnsubscribeQueue, \* BRIEFED_UNSUBSCRIBE_QUEUE_URL is configured
  EnqueueLimit,     \* the `limit` of the two enqueue_* functions
  Readable,         \* emails the user may mark as read while the run is active
  MaxFaults,        \* bound on crashes and duplicate deliveries
  NoMessage         \* what an idle worker holds

Labels == Categories \cup {"ignore"}
Verdict == [label : Labels, newsletter : BOOLEAN]

ASSUME TaxonomyAssumption ==
  /\ "none" \notin Labels
  /\ "ignore" \notin Categories
ASSUME MailAssumption ==
  /\ Accounts # {}
  /\ AccountOf \in [Emails -> Accounts]
  /\ ScanResults \in [Accounts -> SUBSET SUBSET Emails]
  /\ \A a \in Accounts : \A S \in ScanResults[a] : \A e \in S : AccountOf[e] = a
  /\ Verdicts \in [Emails -> SUBSET Verdict]
  /\ Readable \subseteq Emails
ASSUME SettingsAssumption ==
  /\ Trigger \in {"scheduled", "manual", "reclassify"}
  /\ ProvidersMayFail \in BOOLEAN
  /\ UnsubscribeQueue \in BOOLEAN
  /\ Trigger = "reclassify" => Emails # {}
  /\ EnqueueLimit \in Nat
  /\ MaxFaults \in Nat

-----------------------------------------------------------------------------
(* Messages (workers/messages.py).  The cluster message carries the emails  *)
(* it was built for; every other payload is read again by its handler.      *)

Ingest(a) == [kind |-> "ingest", account |-> a]
Classify(e) == [kind |-> "classify", email |-> e]
SummarizeEmail(e) == [kind |-> "summarize_email", email |-> e]
Hygiene(a) == [kind |-> "hygiene", account |-> a]
CategoryDigest(c) == [kind |-> "category_digest", category |-> c]
TechNewsCluster(S) == [kind |-> "tech_news_cluster", emails |-> S]

MinClusterNewsletters == 2

Message ==
  {Ingest(a) : a \in Accounts} \cup {Classify(e) : e \in Emails}
    \cup {SummarizeEmail(e) : e \in Emails} \cup {Hygiene(a) : a \in Accounts}
    \cup {CategoryDigest(c) : c \in Categories}
    \cup {TechNewsCluster(S) : S \in SUBSET Emails}

ASSUME NoMessageAssumption == NoMessage \notin Message

(* The dispatches that a claim makes unique per run: one row per account,   *)
(* one per category, and digest_runs.tech_news_cluster_enqueued_at.         *)
HygieneClaim(a) == [claim |-> "hygiene", account |-> a]
DigestClaim(c) == [claim |-> "category_digest", category |-> c]
ClusterClaim == [claim |-> "tech_news_cluster"]
Claim ==
  {HygieneClaim(a) : a \in Accounts} \cup {DigestClaim(c) : c \in Categories}
    \cup {ClusterClaim}

VARIABLES
  starter,       \* progress of the request or tick that starts the run
  run,           \* digest_runs.status, "absent" until the row is committed
  member,        \* digest_run_emails
  unread,        \* emails whose labels contain UNREAD
  label,         \* classifications.label, "none" without a row
  newsletters,   \* emails with classifications.is_newsletter
  summarized,    \* emails with a per-email summary row
  failed,        \* emails with a fatal prompt_call_log error row of this run
  clustered,     \* the run has a tech_news_cluster summary row
  clusterFailed, \* the run has a newsletter_group error row without an email
  digest,        \* category_digest rows: the emails a row was written from
  claimed,       \* committed claims
  queue,         \* copies of each message that wait on SQS
  session,       \* what each worker holds between two of its database calls
  faults         \* crashes and duplicate deliveries so far

pipeline == <<label, newsletters, summarized, failed, clustered, clusterFailed, digest>>
vars == <<starter, run, member, unread, pipeline, claimed, queue, session, faults>>

Terminal == {"complete", "failed"}
NoDigest == {}

(* Work a worker has not begun is pending until a query says otherwise.     *)
Idle ==
  [pc |-> "idle", msg |-> NoMessage, seen |-> "absent", items |-> {},
   unclassified |-> TRUE, summaries |-> TRUE, cluster |-> TRUE,
   categories |-> Categories, errors |-> FALSE, claims |-> {}]

ProgramCounters ==
  {"idle", "mark", "handle", "write_digest", "enqueue_unclassified", "enqueue_unsummarized",
   "enqueue_summary", "claim_hygiene", "load_run", "count_unclassified",
   "count_summaries", "count_cluster", "count_categories", "count_errors",
   "dispatch_cluster", "dispatch_digests", "commit"}

Session ==
  [pc : ProgramCounters, msg : Message \cup {NoMessage},
   seen : {"absent", "queued", "running", "complete", "failed"},
   items : SUBSET Emails, unclassified : BOOLEAN, summaries : BOOLEAN,
   cluster : BOOLEAN, categories : SUBSET Categories, errors : BOOLEAN,
   claims : SUBSET Claim]

TypeOK ==
  /\ starter \in {"new", "half", "done", "dead"}
  /\ run \in {"absent", "queued", "running", "complete", "failed"}
  /\ member \in SUBSET Emails
  /\ unread \in SUBSET Emails
  /\ label \in [Emails -> Labels \cup {"none"}]
  /\ newsletters \in SUBSET Emails
  /\ summarized \in SUBSET Emails
  /\ failed \in SUBSET Emails
  /\ clustered \in BOOLEAN
  /\ clusterFailed \in BOOLEAN
  /\ digest \in [Categories -> SUBSET Emails]
  /\ claimed \in SUBSET Claim
  /\ queue \in [Message -> Nat]
  /\ session \in [Workers -> Session]
  /\ faults \in Nat

-----------------------------------------------------------------------------
(* The queries the workers share.                                           *)

NeedsSummary(e) == label[e] \in Categories \/ e \in newsletters
AwaitingSummary == {e \in member \cap unread : NeedsSummary(e) /\ e \notin summarized}

(* _pending_unclassified, _pending_summaries *)
PendingUnclassified == {e \in member \cap unread : label[e] = "none"}
(* Mutant: failed items stay pending. *)
FailuresStayPending == AwaitingSummary
PendingSummaries == AwaitingSummary \ failed

(* _run_newsletters_query, _pending_clusters *)
RunNewsletters == member \cap unread \cap newsletters
ClusterPending ==
  /\ Cardinality(RunNewsletters) >= MinClusterNewsletters
  /\ ~clusterFailed
  /\ ~clustered

(* _load_category_items, _missing_category_digest_categories *)
CategoryItems(c) == {e \in member \cap unread : label[e] = c /\ e \in summarized}
MissingDigests == {c \in Categories : CategoryItems(c) # {} /\ digest[c] = NoDigest}

(* _prompt_errors *)
PromptErrors == failed # {} \/ clusterFailed

(* SQS: how often a message waits after each message of S was sent once.    *)
Sent(S) == [m \in Message |-> IF m \in S THEN queue[m] + 1 ELSE queue[m]]
Send(S) == queue' = Sent(S)

(* LIMIT of the enqueue queries: all rows, or as many as the limit allows.  *)
Page(S) ==
  IF Cardinality(S) <= EnqueueLimit THEN {S}
  ELSE {T \in SUBSET S : Cardinality(T) = EnqueueLimit}

(* A worker ends without an acknowledgement: its transaction is rolled back *)
(* and the message waits again.                                             *)
GiveBack(w, Q) ==
  /\ queue' = [Q EXCEPT ![session[w].msg] = @ + 1]
  /\ session' = [session EXCEPT ![w] = Idle]

Goto(w, pc) == session' = [session EXCEPT ![w].pc = pc]

At(w, pc, kind) == session[w].pc = pc /\ session[w].msg.kind = kind

-----------------------------------------------------------------------------
(* Starting the run.  The fan-out tick commits the row and then sends; the  *)
(* manual-run endpoint sends and only then, when its request ends, commits. *)

StartMessages ==
  IF Trigger = "reclassify" THEN {Classify(e) : e \in Emails}
  ELSE {Ingest(a) : a \in Accounts}

CreateRun == run' = "queued" /\ member' = (IF Trigger = "reclassify" THEN Emails ELSE member)

FanoutCommit ==
  /\ Trigger = "scheduled" /\ starter = "new"
  /\ starter' = "half"
  /\ CreateRun
  /\ UNCHANGED <<unread, pipeline, claimed, queue, session, faults>>

FanoutSend ==
  /\ Trigger = "scheduled" /\ starter = "half"
  /\ starter' = "done"
  /\ Send(StartMessages)
  /\ UNCHANGED <<run, member, unread, pipeline, claimed, session, faults>>

ManualSend ==
  /\ Trigger # "scheduled" /\ starter = "new"
  /\ starter' = "half"
  /\ Send(StartMessages)
  /\ UNCHANGED <<run, member, unread, pipeline, claimed, session, faults>>

ManualCommit ==
  /\ Trigger # "scheduled" /\ starter = "half"
  /\ starter' = "done"
  /\ CreateRun
  /\ UNCHANGED <<unread, pipeline, claimed, queue, session, faults>>

(* The process dies among its sends, or with everything sent before commit. *)
StarterCrash ==
  /\ faults < MaxFaults
  /\ \/ /\ starter = (IF Trigger = "scheduled" THEN "half" ELSE "new")
        /\ \E T \in SUBSET StartMessages : Send(T)
     \/ /\ Trigger # "scheduled" /\ starter = "half"
        /\ UNCHANGED queue
  /\ starter' = "dead"
  /\ faults' = faults + 1
  /\ UNCHANGED <<run, member, unread, pipeline, claimed, session>>

-----------------------------------------------------------------------------
(* Delivery, and the status that mark_run_running reads first (`seen`).     *)

Receive(w, m) ==
  /\ session[w] = Idle
  /\ queue[m] > 0
  /\ queue' = [queue EXCEPT ![m] = @ - 1]
  /\ session' = [session EXCEPT ![w].pc = IF run = "queued" THEN "mark" ELSE "handle",
                                ![w].msg = m, ![w].seen = run]
  /\ UNCHANGED <<starter, run, member, unread, pipeline, claimed, faults>>

Duplicate(m) ==
  /\ faults < MaxFaults
  /\ queue[m] > 0 \/ \E w \in Workers : session[w].msg = m
  /\ Send({m})
  /\ faults' = faults + 1
  /\ UNCHANGED <<starter, run, member, unread, pipeline, claimed, session>>

(* The first query of a dispatch flushes the session, and with it the status *)
(* of a run that the finalizer loaded as queued.                             *)
QueriesCluster(w) == ~session[w].unclassified /\ session[w].cluster
QueriesDigests(w) == ~session[w].unclassified /\ ~session[w].summaries
Flushed(w) ==
  \/ session[w].pc \in {"dispatch_digests", "commit"} /\ QueriesCluster(w)
  \/ session[w].pc = "commit" /\ QueriesDigests(w)

(* A transaction that has updated the digest_runs row keeps the row locked   *)
(* until it ends: the handlers' up to their first commit, the hygiene        *)
(* record's up to its only one, and a finalizer's after it has flushed a     *)
(* status or claimed the cluster job.                                        *)
LocksRow(v) ==
  \/ /\ session[v].seen = "queued"
     /\ \/ session[v].pc \in {"handle", "write_digest"}
        \/ session[v].msg \in {Hygiene(a) : a \in Accounts} /\ session[v].pc # "mark"
        \/ Flushed(v)
  \/ ClusterClaim \in session[v].claims
RowIsFree(w) == \A v \in Workers \ {w} : ~LocksRow(v)

(* The UPDATE of mark_run_running names the row by its key alone, whatever   *)
(* its status has become; the handler's commit makes it visible.             *)
MarkRunRunning(w) ==
  /\ session[w].pc = "mark"
  /\ RowIsFree(w)
  /\ Goto(w, "handle")
  /\ UNCHANGED <<starter, run, member, unread, pipeline, claimed, queue, faults>>

Started(status) == IF status = "queued" THEN "running" ELSE status
CommitRunning(w) == run' = IF session[w].seen = "queued" THEN "running" ELSE run

-----------------------------------------------------------------------------
(* _handle_ingest_record                                                    *)

(* A digest_run_emails row needs its digest_runs row: without one the       *)
(* insert of a non-empty membership raises and the record is redelivered.   *)
HandleIngest(w) ==
  /\ At(w, "handle", "ingest")
  /\ \E scan \in ScanResults[session[w].msg.account] :
       IF run = "absent" /\ scan # {}
       THEN GiveBack(w, queue) /\ UNCHANGED <<member, run>>
       ELSE /\ member' = member \cup scan
            /\ CommitRunning(w)
            /\ Goto(w, "enqueue_unclassified")
            /\ UNCHANGED queue
  /\ UNCHANGED <<starter, unread, pipeline, claimed, faults>>

OfAccount(S, a) == {e \in S : AccountOf[e] = a}

UnclassifiedTargets(w) ==
  OfAccount({e \in member : label[e] = "none"}, session[w].msg.account)
SummaryTargets(w) == OfAccount(AwaitingSummary, session[w].msg.account)

EnqueueUnclassified(w) ==
  /\ session[w].pc = "enqueue_unclassified"
  /\ \E T \in Page(UnclassifiedTargets(w)) : Send({Classify(e) : e \in T})
  /\ Goto(w, "enqueue_unsummarized")
  /\ UNCHANGED <<starter, run, member, unread, pipeline, claimed, faults>>

EnqueueUnsummarized(w) ==
  /\ session[w].pc = "enqueue_unsummarized"
  /\ \E T \in Page(SummaryTargets(w)) : Send({SummarizeEmail(e) : e \in T})
  /\ Goto(w, "load_run")
  /\ UNCHANGED <<starter, run, member, unread, pipeline, claimed, faults>>

-----------------------------------------------------------------------------
(* _handle_classify_record                                                  *)

(* ClassificationsRepo.upsert: the verdict replaces whatever row is there.  *)
WriteVerdict(e, v) ==
  /\ label' = [label EXCEPT ![e] = v.label]
  /\ newsletters' = IF v.newsletter THEN newsletters \cup {e} ELSE newsletters \ {e}

NeedsReview == [label |-> "ignore", newsletter |-> FALSE]

(* Mutant: a retry that finds a verdict skips the rest of the record. *)
ClassifyOnce(w) ==
  /\ At(w, "handle", "classify")
  /\ LET e == session[w].msg.email IN
       IF label[e] # "none" THEN Goto(w, "load_run") /\ UNCHANGED <<label, newsletters>>
       ELSE (\E v \in Verdicts[e] : WriteVerdict(e, v)) /\ Goto(w, "enqueue_summary")
  /\ CommitRunning(w)
  /\ UNCHANGED <<starter, member, unread, summarized, failed, clustered, clusterFailed,
                 digest, claimed, queue, faults>>

(* Mutant: a record whose run is not there is acknowledged unclassified. *)
ClassifyForKnownRun(w) ==
  /\ At(w, "handle", "classify")
  /\ LET e == session[w].msg.email IN
       IF run = "absent" THEN UNCHANGED <<label, newsletters>>
       ELSE \E v \in Verdicts[e] : WriteVerdict(e, v)
  /\ CommitRunning(w)
  /\ Goto(w, "enqueue_summary")
  /\ UNCHANGED <<starter, member, unread, summarized, failed, clustered, clusterFailed,
                 digest, claimed, queue, faults>>

HandleClassify(w) ==
  /\ At(w, "handle", "classify")
  /\ LET e == session[w].msg.email IN
       \/ \E v \in Verdicts[e] : WriteVerdict(e, v) /\ UNCHANGED failed
       \/ ProvidersMayFail /\ WriteVerdict(e, NeedsReview) /\ failed' = failed \cup {e}
  /\ CommitRunning(w)
  /\ Goto(w, "enqueue_summary")
  /\ UNCHANGED <<starter, member, unread, summarized, clustered, clusterFailed, digest,
                 claimed, queue, faults>>

(* Mutant: no follow-up work for a run that has ended. *)
EnqueueSummaryWhileActive(w) ==
  /\ session[w].pc = "enqueue_summary"
  /\ Send({SummarizeEmail(e) : e \in IF run \in Terminal THEN {}
                                       ELSE AwaitingSummary \cap {session[w].msg.email}})
  /\ Goto(w, "claim_hygiene")
  /\ UNCHANGED <<starter, run, member, unread, pipeline, claimed, faults>>

EnqueueSummary(w) ==
  /\ session[w].pc = "enqueue_summary"
  /\ Send({SummarizeEmail(e) : e \in AwaitingSummary \cap {session[w].msg.email}})
  /\ Goto(w, "claim_hygiene")
  /\ UNCHANGED <<starter, run, member, unread, pipeline, claimed, faults>>

(* Mutant: a claim another transaction has not committed does not count. *)
NobodyWaits(w, c) == TRUE

(* INSERT ... ON CONFLICT DO NOTHING waits for another transaction that has *)
(* inserted the same key and not ended yet.                                 *)
NobodyHolds(w, c) == \A v \in Workers \ {w} : c \notin session[v].claims

(* Mutant: a claim in the run's stats, read and then written. *)
ClaimHygieneInStats(w) ==
  /\ session[w].pc = "claim_hygiene"
  /\ LET a == AccountOf[session[w].msg.email] IN
       IF UnsubscribeQueue /\ run # "absent" /\ HygieneClaim(a) \notin claimed
       THEN /\ Send({Hygiene(a)})
            /\ session' = [session EXCEPT ![w].pc = "load_run",
                                          ![w].claims = @ \cup {HygieneClaim(a)}]
       ELSE UNCHANGED queue /\ Goto(w, "load_run")
  /\ UNCHANGED <<starter, run, member, unread, pipeline, claimed, faults>>

ClaimHygiene(w) ==
  /\ session[w].pc = "claim_hygiene"
  /\ LET a == AccountOf[session[w].msg.email]
         c == HygieneClaim(a)
     IN IF UnsubscribeQueue /\ run # "absent" /\ c \notin claimed
        THEN /\ NobodyHolds(w, c)
             /\ Send({Hygiene(a)})
             /\ session' = [session EXCEPT ![w].pc = "load_run", ![w].claims = @ \cup {c}]
        ELSE UNCHANGED queue /\ Goto(w, "load_run")
  /\ UNCHANGED <<starter, run, member, unread, pipeline, claimed, faults>>

-----------------------------------------------------------------------------
(* _handle_summarize_record: one email, one category, or the newsletters    *)

HandleSummarizeEmail(w) ==
  /\ At(w, "handle", "summarize_email")
  /\ LET e == session[w].msg.email IN
       \/ summarized' = summarized \cup {e} /\ UNCHANGED failed
       \/ /\ ProvidersMayFail /\ e \notin summarized
          /\ failed' = failed \cup {e} /\ UNCHANGED summarized
  /\ CommitRunning(w)
  /\ Goto(w, "load_run")
  /\ UNCHANGED <<starter, member, unread, label, newsletters, clustered, clusterFailed,
                 digest, claimed, queue, faults>>

(* _assert_complete_category raises while this category, or the             *)
(* classification of any member, still has recoverable work.                *)
CategoryReady(c) ==
  /\ PendingUnclassified = {}
  /\ \A e \in member \cap unread : label[e] = c => e \in summarized \cup failed

(* Mutant: a category that is not ready is acknowledged. *)
DropUnreadyCategory(w) ==
  /\ At(w, "handle", "category_digest")
  /\ LET c == session[w].msg.category
         write == digest[c] = NoDigest /\ CategoryReady(c) /\ CategoryItems(c) # {}
     IN session' = [session EXCEPT ![w].pc = IF write THEN "write_digest" ELSE "load_run",
                                   ![w].items = IF write THEN CategoryItems(c) ELSE @]
  /\ UNCHANGED <<starter, run, member, unread, pipeline, claimed, queue, faults>>

(* Mutant: one email read by the user empties the category. *)
DropReadCategory(w) ==
  /\ At(w, "handle", "category_digest")
  /\ LET c == session[w].msg.category
         write == digest[c] = NoDigest /\ member \subseteq unread /\ CategoryItems(c) # {}
     IN session' = [session EXCEPT ![w].pc = IF write THEN "write_digest" ELSE "load_run",
                                   ![w].items = IF write THEN CategoryItems(c) ELSE @]
  /\ UNCHANGED <<starter, run, member, unread, pipeline, claimed, queue, faults>>

ReadCategory(w) ==
  /\ At(w, "handle", "category_digest")
  /\ LET c == session[w].msg.category IN
       \/ /\ digest[c] # NoDigest \/ (CategoryReady(c) /\ CategoryItems(c) = {})
          /\ CommitRunning(w)
          /\ Goto(w, "load_run")
          /\ UNCHANGED queue
       \/ /\ digest[c] = NoDigest /\ CategoryReady(c) /\ CategoryItems(c) # {}
          /\ session' = [session EXCEPT ![w].pc = "write_digest", ![w].items = CategoryItems(c)]
          /\ UNCHANGED <<run, queue>>
       \/ /\ digest[c] = NoDigest /\ ~CategoryReady(c)
          /\ GiveBack(w, queue)
          /\ UNCHANGED run
  /\ UNCHANGED <<starter, member, unread, pipeline, claimed, faults>>

(* The model call lies between the read and the write.  When it fails the   *)
(* row is rendered from the items themselves, so a row is written anyway.   *)
WriteDigest(w) ==
  /\ session[w].pc = "write_digest"
  /\ digest' = [digest EXCEPT ![session[w].msg.category] = session[w].items]
  /\ CommitRunning(w)
  /\ Goto(w, "load_run")
  /\ UNCHANGED <<starter, member, unread, label, newsletters, summarized, failed,
                 clustered, clusterFailed, claimed, queue, faults>>

(* cluster_and_summarize: groups below min_cluster_size are skipped, each   *)
(* other group ends in a summary row or in an error row.                    *)
ClusterGroups(S) ==
  {G \in SUBSET S : /\ Cardinality(G) >= MinClusterNewsletters
                    /\ \E e \in G : G = {f \in S : ClusterKey[f] = ClusterKey[e]}}

HandleTechNewsCluster(w) ==
  /\ At(w, "handle", "tech_news_cluster")
  /\ LET groups == IF clustered THEN {} ELSE ClusterGroups(session[w].msg.emails) IN
       \E broken \in SUBSET (IF ProvidersMayFail THEN groups ELSE {}) :
         /\ clustered' = (clustered \/ groups \ broken # {})
         /\ clusterFailed' = (clusterFailed \/ broken # {})
  /\ CommitRunning(w)
  /\ Goto(w, "load_run")
  /\ UNCHANGED <<starter, member, unread, label, newsletters, summarized, failed, digest,
                 claimed, queue, faults>>

(* _handle_unsubscribe_record changes no table of this module and commits   *)
(* once, after finalization.                                                *)
HandleUnsubscribe(w) ==
  /\ At(w, "handle", "hygiene")
  /\ Goto(w, "load_run")
  /\ UNCHANGED <<starter, run, member, unread, pipeline, claimed, queue, faults>>

-----------------------------------------------------------------------------
(* maybe_finalize_run.  Each query of _progress_snapshot is a step.         *)

(* A digest record goes on with the DigestRun object it loaded first, and a *)
(* hygiene record with its own update, not committed yet; the other records *)
(* have committed theirs and read the row again.                            *)

LoadRun(w) ==
  /\ session[w].pc = "load_run"
  /\ LET status ==
           CASE session[w].msg.kind = "category_digest" -> Started(session[w].seen)
             [] session[w].msg.kind = "hygiene" /\ session[w].seen = "queued" -> "queued"
             [] OTHER -> run
     IN session' = [session EXCEPT
          ![w].seen = status,
          ![w].pc = IF status \in Terminal \cup {"absent"} THEN "commit"
                    ELSE "count_unclassified"]
  /\ UNCHANGED <<starter, run, member, unread, pipeline, claimed, queue, faults>>

(* Mutant: the last unclassified email does not count. *)
CountAllButOne(w) ==
  /\ session[w].pc = "count_unclassified"
  /\ session' = [session EXCEPT ![w].pc = "count_summaries",
                                ![w].unclassified = Cardinality(PendingUnclassified) > 1]
  /\ UNCHANGED <<starter, run, member, unread, pipeline, claimed, queue, faults>>

CountUnclassified(w) ==
  /\ session[w].pc = "count_unclassified"
  /\ session' = [session EXCEPT ![w].pc = "count_summaries",
                                ![w].unclassified = (PendingUnclassified # {})]
  /\ UNCHANGED <<starter, run, member, unread, pipeline, claimed, queue, faults>>

(* Mutant: only labels ask for a summary, newsletters do not. *)
CountLabelledSummaries(w) ==
  /\ session[w].pc = "count_summaries"
  /\ session' = [session EXCEPT ![w].pc = "count_cluster",
       ![w].summaries = \E e \in PendingSummaries : label[e] \in Categories]
  /\ UNCHANGED <<starter, run, member, unread, pipeline, claimed, queue, faults>>

CountSummaries(w) ==
  /\ session[w].pc = "count_summaries"
  /\ session' = [session EXCEPT ![w].pc = "count_cluster",
                                ![w].summaries = (PendingSummaries # {})]
  /\ UNCHANGED <<starter, run, member, unread, pipeline, claimed, queue, faults>>

CountCluster(w) ==
  /\ session[w].pc = "count_cluster"
  /\ session' = [session EXCEPT ![w].pc = "count_categories", ![w].cluster = ClusterPending]
  /\ UNCHANGED <<starter, run, member, unread, pipeline, claimed, queue, faults>>

CountCategories(w) ==
  /\ session[w].pc = "count_categories"
  /\ session' = [session EXCEPT ![w].pc = "count_errors", ![w].categories = MissingDigests]
  /\ UNCHANGED <<starter, run, member, unread, pipeline, claimed, queue, faults>>

(* Mutant: error rows without an email are left out. *)
CountEmailErrors(w) ==
  /\ session[w].pc = "count_errors"
  /\ session' = [session EXCEPT ![w].pc = "dispatch_cluster", ![w].errors = (failed # {})]
  /\ UNCHANGED <<starter, run, member, unread, pipeline, claimed, queue, faults>>

CountErrors(w) ==
  /\ session[w].pc = "count_errors"
  /\ session' = [session EXCEPT ![w].pc = "dispatch_cluster", ![w].errors = PromptErrors]
  /\ UNCHANGED <<starter, run, member, unread, pipeline, claimed, queue, faults>>

DispatchCluster(w) ==
  /\ session[w].pc = "dispatch_cluster"
  /\ session[w].seen = "queued" /\ QueriesCluster(w) => RowIsFree(w)
  /\ IF /\ QueriesCluster(w)
        /\ Cardinality(RunNewsletters) >= MinClusterNewsletters
        /\ ClusterClaim \notin claimed
     THEN /\ RowIsFree(w)
          /\ Send({TechNewsCluster(RunNewsletters)})
          /\ session' = [session EXCEPT ![w].pc = "dispatch_digests",
                                        ![w].claims = @ \cup {ClusterClaim}]
     ELSE UNCHANGED queue /\ Goto(w, "dispatch_digests")
  /\ UNCHANGED <<starter, run, member, unread, pipeline, claimed, faults>>

DigestsToDispatch(w) ==
  IF ~QueriesDigests(w) THEN {}
  ELSE {c \in MissingDigests : DigestClaim(c) \notin claimed}

DispatchDigests(w) ==
  /\ session[w].pc = "dispatch_digests"
  /\ session[w].seen = "queued" /\ QueriesDigests(w) => RowIsFree(w)
  /\ \A c \in DigestsToDispatch(w) : NobodyHolds(w, DigestClaim(c))
  /\ Send({CategoryDigest(c) : c \in DigestsToDispatch(w)})
  /\ session' = [session EXCEPT
       ![w].pc = "commit",
       ![w].claims = @ \cup {DigestClaim(c) : c \in DigestsToDispatch(w)}]
  /\ UNCHANGED <<starter, run, member, unread, pipeline, claimed, faults>>

(* Mutant: pending_total without the missing digests. *)
DrainedButDigests(w) ==
  ~session[w].unclassified /\ ~session[w].summaries /\ ~session[w].cluster

(* snapshot.pending_total = 0                                               *)
Drained(w) ==
  /\ ~session[w].unclassified /\ ~session[w].summaries /\ ~session[w].cluster
  /\ session[w].categories = {}

(* Mutant: whatever is not drained is running. *)
RunningUntilDrained(w) ==
  IF ~Drained(w) THEN "running" ELSE IF session[w].errors THEN "failed" ELSE "complete"

FinalStatus(w) ==
  CASE Drained(w) -> IF session[w].errors THEN "failed" ELSE "complete"
    [] ~Drained(w) /\ session[w].seen = "queued" -> "running"
    [] OTHER -> run

(* Mutant: the acknowledgement deletes a waiting copy. *)
CommitAndDelete(w) ==
  /\ session[w].pc = "commit"
  /\ run' = FinalStatus(w)
  /\ claimed' = claimed \cup session[w].claims
  /\ queue' = [queue EXCEPT ![session[w].msg] = @ - 1]
  /\ session' = [session EXCEPT ![w] = Idle]
  /\ UNCHANGED <<starter, member, unread, pipeline, faults>>

(* The second commit: claims, status, and with it the acknowledgement.  The *)
(* UPDATE of the status names the run only, not the status it was read at.  *)
Commit(w) ==
  /\ session[w].pc = "commit"
  /\ (Drained(w) \/ session[w].seen = "queued") => RowIsFree(w)
  /\ run' = FinalStatus(w)
  /\ claimed' = claimed \cup session[w].claims
  /\ session' = [session EXCEPT ![w] = Idle]
  /\ UNCHANGED <<starter, member, unread, pipeline, queue, faults>>

-----------------------------------------------------------------------------
(* What the step a worker is at sends: a crash may lose the rest of it.     *)
Sending(w) ==
  CASE session[w].pc = "enqueue_unclassified" -> {Classify(e) : e \in UnclassifiedTargets(w)}
    [] session[w].pc = "enqueue_unsummarized" -> {SummarizeEmail(e) : e \in SummaryTargets(w)}
    [] session[w].pc = "dispatch_digests" -> {CategoryDigest(c) : c \in DigestsToDispatch(w)}
    [] OTHER -> {}

(* Mutant: a record whose handler has committed counts as handled.          *)
CrashAcknowledged(w) ==
  /\ session[w] # Idle
  /\ faults < MaxFaults
  /\ IF session[w].pc \in {"mark", "handle"} THEN GiveBack(w, queue)
     ELSE /\ \E T \in SUBSET Sending(w) : queue' = Sent(T)
          /\ session' = [session EXCEPT ![w] = Idle]
  /\ faults' = faults + 1
  /\ UNCHANGED <<starter, run, member, unread, pipeline, claimed>>

(* Mutant: the digest claims are committed before their messages are sent. *)
CrashKeepsClaims(w) ==
  /\ session[w] # Idle
  /\ faults < MaxFaults
  /\ \E T \in SUBSET Sending(w) : GiveBack(w, Sent(T))
  /\ claimed' = claimed \cup
       IF session[w].pc = "dispatch_digests"
       THEN {DigestClaim(c) : c \in DigestsToDispatch(w)} ELSE {}
  /\ faults' = faults + 1
  /\ UNCHANGED <<starter, run, member, unread, pipeline>>

(* The invocation dies or raises; uncommitted rows and claims are undone.   *)
Crash(w) ==
  /\ session[w] # Idle
  /\ faults < MaxFaults
  /\ \E T \in SUBSET Sending(w) : GiveBack(w, Sent(T))
  /\ faults' = faults + 1
  /\ UNCHANGED <<starter, run, member, unread, pipeline, claimed>>

(* The user reads an email of the run (api/v1/emails.py drops its UNREAD).  *)
MarkRead(e) ==
  /\ e \in Readable \cap member \cap unread
  /\ unread' = unread \ {e}
  /\ UNCHANGED <<starter, run, member, pipeline, claimed, queue, session, faults>>

Quiet ==
  /\ starter \in {"done", "dead"}
  /\ \A m \in Message : queue[m] = 0
  /\ \A w \in Workers : session[w] = Idle

(* Nothing is left to do: the only way the system may rest.                 *)
Rest == Quiet /\ UNCHANGED vars

(* A reclassification targets recent mail: some of it an earlier run has    *)
(* classified, and summarized when its verdict asked for a summary.         *)
InitPipeline ==
  \E old \in IF Trigger = "reclassify" THEN SUBSET Emails ELSE {{}} :
    \E prior \in [old -> Verdict] :
      /\ \A e \in old : prior[e] \in Verdicts[e]
      /\ label = [e \in Emails |-> IF e \in old THEN prior[e].label ELSE "none"]
      /\ newsletters = {e \in old : prior[e].newsletter}
      /\ summarized = {e \in old : prior[e].label \in Categories \/ prior[e].newsletter}

Init ==
  /\ starter = "new" /\ run = "absent" /\ member = {} /\ unread = Emails
  /\ InitPipeline
  /\ failed = {} /\ clustered = FALSE /\ clusterFailed = FALSE
  /\ digest = [c \in Categories |-> NoDigest]
  /\ claimed = {}
  /\ queue = [m \in Message |-> 0]
  /\ session = [w \in Workers |-> Idle]
  /\ faults = 0

Start == FanoutCommit \/ FanoutSend \/ ManualSend \/ ManualCommit
Handle(w) ==
  \/ MarkRunRunning(w)
  \/ HandleIngest(w) \/ EnqueueUnclassified(w) \/ EnqueueUnsummarized(w)
  \/ HandleClassify(w) \/ EnqueueSummary(w) \/ ClaimHygiene(w)
  \/ HandleSummarizeEmail(w) \/ ReadCategory(w) \/ WriteDigest(w)
  \/ HandleTechNewsCluster(w) \/ HandleUnsubscribe(w)
Finalize(w) ==
  \/ LoadRun(w) \/ CountUnclassified(w) \/ CountSummaries(w) \/ CountCluster(w)
  \/ CountCategories(w) \/ CountErrors(w)
  \/ DispatchCluster(w) \/ DispatchDigests(w) \/ Commit(w)

Next ==
  \/ Start \/ StarterCrash \/ Rest
  \/ \E w \in Workers : Handle(w) \/ Finalize(w) \/ Crash(w)
  \/ \E m \in Message : Duplicate(m) \/ \E w \in Workers : Receive(w, m)
  \/ \E e \in Emails : MarkRead(e)

Spec == Init /\ [][Next]_vars

-----------------------------------------------------------------------------
(* Properties                                                               *)

Held(m, pcs) == \E w \in Workers : session[w].msg = m /\ session[w].pc \in pcs
Begun == {"mark", "handle"}
Waits(m) == queue[m] > 0
InFlight(m) == Waits(m) \/ \E w \in Workers : session[w].msg = m

(* Every member without a classification has a message that will classify   *)
(* it, or its account's scan still has to send one.  The ingest worker      *)
(* commits before it sends, so a crash between the two must be made good by *)
(* the redelivered ingest message.                                          *)
ClassificationIsCarried ==
  \A e \in member : label[e] = "none" =>
    \/ Waits(Classify(e)) \/ Held(Classify(e), Begun)
    \/ Waits(Ingest(AccountOf[e]))
    \/ Held(Ingest(AccountOf[e]), Begun \cup {"enqueue_unclassified"})

(* Every unread member that needs a summary and has neither a summary nor a *)
(* provider error has a message on its way that will produce one of the two.*)
SummaryIsCarried ==
  \A e \in PendingSummaries :
    \/ Waits(SummarizeEmail(e)) \/ Held(SummarizeEmail(e), Begun)
    \/ Waits(Classify(e)) \/ Held(Classify(e), Begun \cup {"enqueue_summary"})
    \/ Waits(Ingest(AccountOf[e]))
    \/ Held(Ingest(AccountOf[e]),
            Begun \cup {"enqueue_unclassified", "enqueue_unsummarized"})

(* A dispatch is claimed by one worker at a time and stays claimed: of two  *)
(* finalizers that both see a digest missing only one sends it.             *)
ClaimsAreExclusive ==
  \A w \in Workers :
    /\ session[w].claims \cap claimed = {}
    /\ \A v \in Workers \ {w} : session[w].claims \cap session[v].claims = {}

(* A committed digest claim is never a digest lost: the row is there, or a  *)
(* message that will write it, or the user read the category empty.         *)
ClaimedDigestIsCarried ==
  \A c \in Categories : DigestClaim(c) \in claimed =>
    \/ digest[c] # NoDigest
    \/ InFlight(CategoryDigest(c))
    \/ CategoryItems(c) = {}

(* A run whose start went through and that has not ended is never left with *)
(* nothing that will work on it: some message waits or a worker holds one.  *)
(* (A starter that dies before it sends leaves its row queued for good.)    *)
NotStranded == starter = "done" /\ run \in {"queued", "running"} => ~Quiet

(* The step that ends a run finds every unread member classified and every  *)
(* summary written or failed; a run without failures has all its digests.   *)
EndsDrained ==
  [][run \notin Terminal /\ run' \in Terminal =>
       /\ PendingUnclassified = {} /\ PendingSummaries = {}
       /\ run' = "complete" => MissingDigests = {}]_vars

(* A run reported complete has no provider failure behind it, one reported  *)
(* failed has.                                                              *)
FailureIsReported ==
  [][run \notin Terminal /\ run' \in Terminal => (run' = "failed" <=> PromptErrors)]_vars

(* A digest is written from every summary its category has when the run     *)
(* ends.                                                                    *)
DigestCoversCategory ==
  run = "complete" => \A c \in Categories : CategoryItems(c) \subseteq digest[c]

(* A terminal status is final.                                              *)
TerminalIsFinal == [][(run \in Terminal) => run' = run]_vars

(* The starter goes on, a worker finishes what it holds, and Lambda polls   *)
(* while messages wait: nothing is assumed of which message is next.        *)
Works(w) == Handle(w) \/ Finalize(w) \/ \E m \in Message : Receive(w, m)
Fairness == WF_vars(Start) /\ \A w \in Workers : WF_vars(Works(w))

FairSpec == Spec /\ Fairness

(* Once the starter has sent its messages the run reaches a terminal status, *)
(* whichever providers fail, because the finalizer that comes last sees that *)
(* nothing is owed (maybe_finalize_run).  It is checked for a scheduled      *)
(* start: with two workers and no fault, whatever their interleaving and     *)
(* what the scan finds, and with one worker and one crash or duplicate, when *)
(* the scan finds mail.  A manual start refutes it: see run manual_reopened. *)
RunEnds == (starter = "done") ~> (run \in Terminal)
=============================================================================
