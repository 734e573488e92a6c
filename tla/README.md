# Briefed: TLA+ models of the digest pipeline and the code around it

Briefed reads a user's mailboxes, classifies the new mail, summarizes what is worth
reading and builds one digest per *run*. A run is spread over SQS queues and Lambda
workers that share nothing but a PostgreSQL database. Nobody is in charge of a run:
every worker, after its own work, looks whether anything is left and finishes the run
when nothing is. This directory models that protocol and the components it stands on,
checks them with TLC on small instances and proves part of it with TLAPS for instances of
every size.

Paths below are relative to `src/backend/app/` unless they begin with `src/`.

## 1. Inventory

| Component | State it keeps | Operations | What makes it correct | Modules |
|---|---|---|---|---|
| Digest-run lifecycle `services/runs.py` | `digest_runs` (status, claims), `digest_run_emails` | membership, queued to running, finalization and its dispatches | a run ends, once, only when its work is done, with the right status; each dispatch happens once | `RunPipeline`, `DigestRun`, `RunImplements` |
| Queue workers `lambda_worker.py`, `workers/` | none between records | one handler per message kind: commit, send, finalize, commit | redelivery repairs every crash | `RunPipeline`; insides of the transactions in the modules below |
| Run starters `workers/handlers/fanout.py`, `api/v1/frontend.py` | the run row, the user lock | tick, manual run | a started run is worked on, a slot is served once | `Scheduler`, `RunPipeline` |
| Scheduling `core/scheduling.py`, `api/v1/profile.py` | user lock, last finish time, schedule columns | `is_due`, next slot, GET and PATCH of the schedule | a dead run is superseded; the preview tells what the tick will do | `Scheduler`, `Profile` |
| Classification `services/classification/` | `classifications` | override check, rule, model, upsert | every email gets a verdict; the owner's choice survives | `Triage`, `RunPipeline` |
| Rule rubric `services/classification/rubric.py`, `api/v1/rubric.py` | `rubric_rules` | decision function, edits | precedence as documented, also while edited | `Rubric`, `Triage` |
| Summaries `services/summarization/` | `summaries`, clusters, error rows | per email, per category, newsletter clusters | one row or one error per unit of work; a digest covers its category; the news page names its sources | `RunPipeline`, `NewsClusters` |
| LLM client `llm/client.py` | breakers, caps and budget in memory | one call with retries and fallbacks | a call ends and leaves one row; an open breaker spares its provider, and not for good | `LlmClient` |
| Redaction `llm/redaction/` | none | rewriting of a prompt | nothing it looks for is left | `Redaction` |
| Prompt registry `services/prompts/registry.py` | `prompt_versions` | sync and lookup | a deployment settles | `PromptRegistry` |
| Gmail sync `services/gmail/`, `services/ingestion/` | sync cursor, `emails` | history and full scan, dedup, store | no mail is skipped when history expires or a scan dies | `Mailbox` |
| OAuth, accounts `services/gmail/oauth.py`, `api/v1/{oauth,accounts}.py` | tokens, account status, cookies | sign-in, link, refresh, disconnect, remove | a purge leaves nothing; a link serves who began it | `Mailbox`, `SignIn` |
| Emails API `api/v1/emails.py` | UNREAD labels, overrides | mark read, bucket override | the database says read only of what Gmail confirmed | `MarkRead`, `Triage`, `RunPipeline` |
| Unsubscribe `services/unsubscribe/` | suggestions | rank, dismiss, confirm, execute | the owner's dismissal and success survive rankings | `Unsubscribe` |
| Offline queue `src/frontend/src/offline/` | IndexedDB records | enqueue, replay, cancel | no choice is lost | `OfflineQueue` |
| Manual-run cap, encryption, batch summarization, HTTP wiring, Terraform | | | | section 7 |

How they interact. A starter writes the run and sends `Ingest` or `Classify` messages;
`Ingest` commits emails and membership and sends `Classify`; `Classify` commits a verdict
and sends `SummarizeEmail` and, once per account, `Unsubscribe`; `SummarizeEmail` commits a
summary or an error row. Whoever drains classification and summaries claims and sends the
`CategoryDigest` and `TechNewsCluster` messages, and whoever finds nothing pending ends the
run and clears the user lock. Each record builds a model client and a redaction chain of its
own and refreshes the prompt rows of its release first. The owner meets the same rows through
the API: accounts, labels, buckets, rules, suggestions, the schedule.

What is hard: the five progress queries of a finalizer are not one view; messages are sent
before the commit that makes their run visible; delivery is at least once, and every handler
has a gap between its commit and its sends; sessions keep rows as they read them and write
back only the columns that differ; a purge waits for rows that exist and not for those about
to be inserted. The list with source lines is `hazards` in `PROJECT.json`, with the properties
that watch each one.

## 2. Modules

`RunPipeline` is the composition: one run with every message, commit, send and query, and
every handler reduced to what the other handlers can see of it. The other modules each open one
of those steps, or one of the actors beside them, and look at what happens *inside* the
transactions, down to row locks and column-wise updates.

| Module | Content | Checked through |
|---|---|---|
| `RunPipeline` | one run from its start to its terminal status | `MCRunPipeline`, `MCRunEnds` |
| `DigestRun` | the abstract run: opened, worked on, ended once with nothing owed | `RunImplements` |
| `RunImplements` | the refinement mapping from `RunPipeline` to `DigestRun` | `MCRunPipeline` |
| `Scheduler` | the runs of one user over days: ticks, manual runs, the lock | `MCScheduler` |
| `Profile` | local slots, clock changes, preview, concurrent PATCHes | `MCScheduler` |
| `LlmClient` | one call after another of one record's client | `MCLlmClient` |
| `PromptRegistry` | workers of two releases and one prompt row | `MCLlmClient` |
| `Redaction` | one prompt through one user's chain | `MCLlmClient` |
| `NewsClusters` | the cluster job statement by statement, and the news page | `MCLlmClient` |
| `Mailbox` | one account: ingests, owner, Google | `MCMailbox` |
| `MarkRead` | overlapping mark-read requests | `MCMailbox` |
| `SignIn` | one browser with several tabs | `MCMailbox` |
| `Rubric` | the rule engine, as operators | `MCTriage` (through `Triage`) |
| `Triage` | the verdict on one email under all its writers | `MCTriage` |
| `Unsubscribe` | the suggestions of one account | `MCTriage` |
| `OfflineQueue` | the browser's durable queue | `MCTriage` |
| `RunPipelineProofs`, `SchedulerProofs` (also of `Profile`), `LlmClientProofs` (also of `Redaction`, `NewsClusters`), `MailboxProofs`, `TriageProofs`, `HygieneProofs` (of `Unsubscribe`), `RequestProofs` (of `SignIn`, `MarkRead`, `OfflineQueue`) | theorems | TLAPS |
| `NaturalFacts` | least and largest members of sets of naturals, and induction over a set, used by the proofs | TLAPS |

An MC module that extends several components that share no state has a variable `lane`: a
behaviour picks one lane at its start and stays in it, while the others stand still. The
state spaces add up instead of multiplying. A lane may also leave out actors of its component,
so that two small instances replace one large one (the mailbox with two workers and no owner,
and with one worker and the owner).

## 3. RunPipeline and the code

State. `run` is `digest_runs.status` (`"absent"` before the row is committed), `member` the
rows of `digest_run_emails`, `unread` the emails whose labels still contain UNREAD. `label`
and `newsletters` are `classifications`, `summarized` the per-email rows of `summaries`,
`failed` and `clusterFailed` the fatal rows of `prompt_call_log`, `clustered` the cluster
summary, `digest[c]` the emails a category digest was written from. `claimed` holds the
committed dispatch claims. `queue` counts the waiting copies of each message. `session[w]`
is what worker `w` holds in memory and in its open transaction: its message, its place in
the handler, the status it read (`seen`), the items of a digest it is writing, the results
of its progress queries and its uncommitted claims.

Steps. A worker's record is cut exactly where another actor can come in between: at every
commit, at every query of the finalizer, around the model call of a digest, at every send
that follows a commit.

| Code | Actions |
|---|---|
| `run_fanout` (commit, then send) | `FanoutCommit`, `FanoutSend` |
| `start_manual_run` (send, then commit at the end of the request) | `ManualSend`, `ManualCommit` |
| SQS delivery, second copies, a process that ends | `Receive`, `Duplicate`, `Crash`, `StarterCrash` |
| `mark_run_running` | `Receive` reads the status, `MarkRunRunning` updates by key, the handler's commit shows it |
| `_handle_ingest_record` | `HandleIngest`, `EnqueueUnclassified`, `EnqueueUnsummarized` |
| `_handle_classify_record` | `HandleClassify`, `EnqueueSummary`, `ClaimHygiene` |
| `_handle_summarize_record` | `HandleSummarizeEmail`; `ReadCategory` and `WriteDigest`; `HandleTechNewsCluster` |
| `_handle_unsubscribe_record` | `HandleUnsubscribe` |
| `maybe_finalize_run` | `LoadRun`, `CountUnclassified` ... `CountErrors`, `DispatchCluster`, `DispatchDigests`, `Commit` |
| `mark_read_emails` | `MarkRead` |

Points a reader of the code may stumble over:

- *Stale objects.* Sessions keep their objects after a commit (`expire_on_commit=False`). A
  digest record still refers to the `DigestRun` it loaded at its start, the other handlers
  load it again. `LoadRun` tells the three cases apart.
- *Row locks.* An UPDATE of the run row keeps it locked until the transaction ends. The model
  has the locks that status changes and the cluster claim take, and the flush that the first
  query of a dispatch causes (`Flushed`). The flush of a changed `stats` counter also takes
  the lock; it is left out, so the model has more interleavings than the code. A claim in an
  open transaction makes a second claimer wait (`NobodyHolds`).
- *Verdicts.* The rubric, the model and the user's override are any member of `Verdicts[e]`;
  an exhausted provider chain gives the needs-review row (`NeedsReview`) and an error row.
- *Redelivery.* A record that raises goes back to its queue in the same state as after a crash
  (`GiveBack`): an ingest record without its run row, a digest record whose category is not
  ready. A crash inside a loop of sends loses any part of what was left (`Sending`).
- *Sends of a starter or a dispatch are one step.* A message may stay on the queue for any
  time, so sending one after another adds no behaviour except a crash in between, which
  `StarterCrash` and `Crash` have.
- *Rest.* When all is done the only step is `Rest`, so TLC checks for deadlock in every run.

Left out of this module: the counters in `stats` and `cost_cents`, the user lock (it is in
`Scheduler`), the dead-letter queue (five receives), the inline digest builder (no caller in the worker passes
one), `run_id` = none, a refusal by the budget in the middle of a cluster record (the
default has no budget), and everything the unsubscribe handler writes to its own tables.

## 4. The other modules and the code

A step ends where another actor can come in: at a query, at a statement that takes or waits
for a row lock, at an `await` of a network call, at a commit.

**Scheduler.** `TickLoad`, `TickSkip`/`TickCommit`, `TickSend`, `TickCrash` are
`run_fanout` for one user: it reads the user, decides on what it read (`IsDue`), commits run
and lock, then sends. `ManualRun` is `start_manual_run`, which asks nobody and overwrites
the lock. `LoadUser` and `FinishRun` are the two halves of `_clear_user_lock`: the comparison
on the row as read, and the UPDATE by primary key at the commit. Time is a ring of units of
7.5 minutes with tick, window, debounce and stale span in their real proportions (2, 1, 8
and 4); the day is shortened to eight units. Ages stop where they no longer matter.
`DeadLetter` is a run one of whose records was given up by its queue: nobody ends it, and
its lock stays.

**Profile.** `LocalTime`, `UtcTime`, `CandidateSlots` and `NextSlot` are `core/scheduling.py`
with `zoneinfo`'s rule for skipped and repeated wall times; `LoadSchedule` and `PatchSchedule`
are the read and the write of a PATCH, column by column, with the validator, the table's CHECK
and what a null does to both; `GetSchedule` is the preview.

**LlmClient.** `BeginCall`, `TryProvider`, `Request(kind)`, `Accept`, `RejectSchema`, `Exhausted`
follow `LLMClient.call` and `OpenRouterProvider`; each kind of answer is one `kind`.
`TimePasses` ages open breakers, `NewDay` is UTC midnight, `NewRecord` the next SQS record,
which brings a new client.

**PromptRegistry.** `LookForHash`, `ReadRow`, `Flush` are `sync_to_db`, `Resolve` is
`_load_prompt_row`, `CommitRecord` and `Abandon` end the record; `Deploy` and `Retire` are
the releases.

**Redaction.** `DefaultChain` is `build_default_chain`, each `Pass` one sanitizer, `Rewritten`
is `re.subn`, the `...Match` operators are the patterns. A text is a sequence of symbols; mails and profiles are
written without the placeholders, which are symbols of their own (`SymbolsAssumption`).
Three of the seven patterns are kept: the one that runs furthest, one found by a mark inside
it, one that needs word boundaries. On all prompts of the instance the Python chain and the
model give the same text.

**NewsClusters.** `StartJob` (guard), `LoadEmails`, `FindCluster` and `UpsertCluster` (row and
member rows, unique keys, foreign key), `AskModelForCluster`, `CommitJob` are
`cluster_and_summarize`; `Route` is `ClusterRouter`; `PurgeAccount` the cascade of a
disconnect; `ReadNews` and `ReadMembers` the two queries of the news page. `FallbackKey` keeps of
`cluster_router.py` that routing is a function of the letter; what it computes the key from is simpler.

**Mailbox.** `Begin` ... `Commit` are `handle_ingest` and `run_ingest` of one record, with the
token refresh and its row lock; `LoadOwnedAccount`, `PurgeToken`, `PurgeCursor`, `PurgeEmails`
the statements of `disconnect_account`; `RemoveAccount` is `delete_account`; `Consent`, `SeeToken`,
`StoreGrant` the callback of a reconnect. Google may deliver mail, forget history, revoke
grants; the owner may read or trash mail. Message `m` makes the mailbox's history id `m + 1`. The pages of one
history listing are one step.

**MarkRead.** `Select`, the five outcomes of a batch or a single message, `NextAccount`, and
the three ways a request ends: with an answer, with a 503 that commits what finished accounts
did, with an exception that rolls back.

**SignIn.** `Start` (with or without link), the four ways a callback ends, and the cookies
that expire or are replaced.

**Rubric, Triage.** `Clause` and `Evaluate` are the rule engine. `LoadRules`, `CheckOverride`,
`AskModel`, `SelectRow`, `WriteVerdict` are `classify_one`; `LoadOwned`, `SelectOwned`,
`WriteOverride` the bucket PATCH; `LoadRule`, `UpdateRule`, `CreateRule`, `DeleteRule` the
rubric API. `Updated` is the ORM's UPDATE: it sets the columns whose new value differs from
the one the session read, so two sessions can leave a row neither meant. `reached` is not in the
code: it records that the rules as they are have got through to the row (section 5).

**Unsubscribe.** `Aggregate`, `Pass`, `Propose`, `FlushRow`, `CommitRanks` are one unsubscribe
record, which holds the lock of each row it wrote to its end; `Execute` is the read and the
POST, `StoreOutcome` the write after it.

**OfflineQueue.** `ListPending`, `Replay`, `RemoveReplayed`, `NoteFailure` are
`drainMutations`, with two callers that do not know of each other. The store is IndexedDB's table
of records keyed by id; ids grow with `createdAt`, so `First` is the next record of a replay.

## 5. What the runs check

| Run | Bounds | Shows |
|---|---|---|
| `pipeline_scheduled` | one account, two emails in two categories or a listed newsletter and another that make a cluster, any scan result, two workers, the user reads mail | the pipeline implements `DigestRun` (it leaves no terminal status, ends only when nothing is owed, and no mail joins afterwards), and a complete run's digests have every summary of their category |
| `pipeline_crashes` | two accounts whose scans overlap, one crash or duplicate anywhere; a redelivered scan may find other mail | no classification, summary or claimed digest is lost, and an unfinished run always has a message or a busy worker |
| `pipeline_reclassify` | mail of which any part was classified before, one fault, an unsubscribe queue | claims are exclusive, no classification is lost |
| `pipeline_liveness` | a scheduled start and providers that fail; in one lane two workers, no fault and any scan result, in the other one worker, one fault and a scan that finds two emails | once its messages are sent the run ends, `failed` exactly when something failed |
| `scheduler` | two run rows, two slots (one matched by two ticks), one tick that dies or record that is given up; two zones, two PATCHes | the lock never outlives its run, a slot is served once, a user who wants to be scanned is, and the preview keeps its word |
| `llm_client` | two models, all ten kinds of answer, three retries and five failures as in the code; two releases; 1,000 prompts; five newsletters, three deliveries | section 4's four modules, see below |
| `mailbox` | two messages, two grants, one disconnect or removal, one failure; three mails of two accounts; three sign-ins of two identities | no mail is skipped and all of it comes in, stored mail has a cursor; labels change for what Gmail confirmed; a link serves who began it |
| `triage` | two records, two moves, two edits, one crash, two workers in each lane, an email that a seed matches or not, a rule above and one below the seeds; two rankings, two executes, two choices | the owner's bucket holds, an edit reaches the verdict and stays there, every email gets a verdict; dismissals, vetoes and successes survive; no offline choice is lost |

`pipeline_liveness`: `RunEnds` is about the opportunistic end of a run: with two workers each finalizer
may count while the other commits, and nobody may leave to the other what the other leaves to him.
`MCRunEnds` has two lanes because both workers with a fault would be too large for a temporal
check; in the first the newsletters are in no digest's category, in the second the first one is. Workers
and emails of the first lane are interchangeable, and it takes one of each two renamed behaviours. What
it leaves out is named: a fault while two workers interleave (their safety half, `NotStranded`, is
checked with both in `pipeline_crashes`), a fault with a scan that finds nothing, and the manual
start, for which it is false (`manual_reopened`, and the empty scan in the list below).

`triage`: `EditsReachVerdict` starts where a record that loaded the rules as they are commits its
verdict while no record with older rules is under way, and lasts until the next edit: whatever is
delivered again, dies, fails or is moved in between, by either worker, the row is one that these
rules, or the seeds, lead to, or it is the owner's. A record that is under way with older rules when
the new ones reach the row may put the older verdict back; the list below says so.

`llm_client`: an open breaker passes nothing but the retries of the call that opened it
(`OpenBreakerSparesProvider`), a call leaves one row (`OneRowPerCall`) and ends (`CallEnds`), the
primary is tried again (`PrimaryIsTriedAgain`); when one release is alone its text is in the row
and no lookup fails (`SettlesAfterDeployment`); no match of any pass is left in what is sent
(`NothingPrivateLeaves`); the page names the letters its text was written from
(`NewsNamesItsSources`).

Why the bounds are enough. Two items are the least with which one is pending while another is
done, and two newsletters the least that make a cluster; two workers (or requests, or tabs)
the least with which a read of one and a commit of the other interleave, and no race found
needed a third. One fault is the least that can hit every step, because it is enabled at every
step. `MaxGrants` 2 is a connect and a reconnect. Three sign-ins are a link, a second tab and
the sign-in that follows. Five letters make two clusters of which one is refused by a purge. The
ring of `Scheduler` is closed, so its behaviours have any number of days. The model's
`MaxAttempts` is 2 where the frontend has 5: one failed attempt that is kept and one that
exhausts the record are the two cases. Workers are symmetric in the safety runs of the pipeline.

Deadlock is checked in the pipeline and scheduler runs, where `Rest` or time goes on; the
others stop when their bounded inputs are used up.

Each property of each run has a mutant: a definition of the model changed as a plausible bug
would change the code (a claim committed before its send, a watermark read after the scan, an
UPDATE that sets every column, patterns run before identities). TLC finds every one of them,
so no property holds by the shape of the model.

### Fairness

| Run | Assumed | Because |
|---|---|---|
| `pipeline_liveness` | the starter and each worker's next step are weakly fair | a request or tick that began goes on unless its process dies; a Lambda invocation goes on, or times out and the message is visible again; Lambda polls as long as messages wait |
| `scheduler` | time, the tick, and the end of each run that was sent | EventBridge fires every 15 minutes; `RunEnds` of the pipeline; a run that nobody ends (`manual_reopened`, a record given up) is `DeadLetter`, which is not fair and which the lock must survive |
| `llm_client` | the next step of a call, time; of a prompt worker each step weakly, and strongly its flush and its commit | requests have timeouts; a row lock that comes free again and again is granted, and not every model call of a worker dies |
| `mailbox` | each ingest, the purge, the end of a callback | as above; runs keep sending ingest records |
| `triage` | each classify record, each unsubscribe record | as above |

Nothing is assumed about which message is received next, and nothing makes the owner act.

### Disagreements with the repository's own words

Four runs look for a violation and find it; `findings` in `PROJECT.json` quotes the sentence.

| Run | What happens |
|---|---|
| `small_newsletter_groups` | two newsletters in groups of one keep the cluster pending for ever, and the run with it |
| `disconnect_race` | a first ingest that read the active account commits its cursor and mail after the disconnect has deleted what was there |
| `manual_reopened` | the endpoint sends before it commits, so an ingest record may begin without its run row and finalize with it: it reads `queued` and counts its email as pending; the classify record finishes the run meanwhile; the ingest record's commit writes `running` over `complete` (`runs.py:268`), and no record is left to end the run |
| `known_waste` | a seed ranks with priority 10,000, a rule of the owner may have up to 100,000: "highest-priority" seeds lose to it, and the email of a known waste sender is shown as good to read |

### More that the models showed

These need a sentence each and no run of their own. Those with a property in brackets can be
replayed by naming it in the configuration of the module.

- *Runs.* With two accounts a run may be marked complete while the second account's mail is
  about to join it (`pipeline_crashes` with `ImplementsDigestRun` and no fault). With two accounts, too,
  a finalizer that read `queued` may write `running` over `complete` (`manual_reopened` has the manual
  start). A manual run
  over an empty mailbox whose only record is handled before the run is committed stays queued
  (`Trigger = "manual"`, `ScanResults <- NothingNew`, `NotStranded`). The user who reads the last
  mail of a category between the count and the dispatch strands the run (`pipeline_crashes` with
  `Readable` not empty and no fault). Mail beyond the enqueue limit of 500 is a member that
  nobody classifies (`EnqueueLimit = 1`, `ClassificationIsCarried`). A reclassification whose
  targets all have verdicts is drained from the start. A reclassify record handled before the
  membership is committed sends no summary message. A redelivered classify record may change a
  verdict after the digest of the new category was built. Three deliveries of one scan can strand
  a run (`pipeline_crashes` with one account, three workers and `MaxFaults = 2`): a digest record
  received while the run was `complete` keeps the row it loaded, a late ingest that had read
  `queued` then writes `running` over it and counts the digest as missing, and the digest record,
  which still sees `complete`, skips the finalization that was to end the run. With providers that
  may fail and a user who reads mail meanwhile, a run can go from `complete` to `failed`
  (`pipeline_scheduled` with `ProvidersMayFail = TRUE`, `ImplementsDigestRun`): one finalizer
  counted the errors before the classification of a read email failed, another after.
- *Lock.* A lock that a fresher run takes between the comparison and the UPDATE of
  `_clear_user_lock` is cleared (`FresherLockSurvives`), although `fanout.py` says that a stale
  worker must not do that. `release_user_lock` has no caller.
- *Schedule.* A PATCH with null times stores an empty list for an enabled schedule, and the user is
  never due: the validator takes null for a field that was not sent (`profile.py:219-222`), the row gets
  an empty list (`profile.py:237`), and the table's CHECK compares the `array_length` of an empty array,
  which is NULL, and passes. `db/models.py:110-111` says that "``len()`` must match" the frequency "(DB
  CHECK on PG)" (`scheduler` with `CadenceMatchesSlots`). America/Nuuk skips the hour from 23:00 to midnight: a
  slot in it comes due after midnight, when the predicate still looks at yesterday's slots and the preview
  (today and two days on, `scheduling.py:206`) no longer does, so it announces the next day's, although
  `scheduling.py:3-7` and `148-149` say that the predicate and the preview "never branch" (`scheduler` with
  `Zones <- SkipToMidnight`, `PreviewHolds`). A null frequency or zone answers 500. Concurrent PATCHes can enable an empty list.
  The preview does not know the debounce, the lock or the window behind a slot.
- *LLM client.* The caps count per record and not per warm Lambda, because each record builds
  its client (`CapCountsWholeDay`, with `MaxCallsCounted` above the cap); so does the budget. A
  half-open breaker lets every call through, not one probe. Schema mismatches do not add up,
  because the success before them resets the count. A body that is not JSON raises out of the
  client: no fallback, no row. The cost of an answer that fails its schema is not recorded. A
  call refused by the budget leaves no row.
- *Redaction.* An identity cut out of a URL leaves the URL's tail in clear; an alias inside
  another address leaves the rest of that address; an alias that is part of a placeholder's name
  rewrites placeholders; two overlapping candidates leave the rest of the second. A blank
  alias passes the profile API and fails every record of the user. `render_prompt` substitutes in
  the order of a set, so a value that contains another variable's braces is substituted too.
  `redact_pii` is stored and never read.
- *News.* A group larger than `max_cluster_size` loses members; with `MaxSize` 2 a purge between
  the guard and the load of a second delivery makes page and text disagree
  (`NewsNamesItsSources`). A cluster whose model call failed is not asked for again. A purge
  removes members and keeps the text written from them.
- *Mailbox.* A refused refresh writes `revoked` over a reconnect that came in between
  (`ReconnectResumes`). A disconnect repeated beside a reconnect can leave an active account
  without tokens. Raw mail is put to S3 before the flush and stays after a rollback. The ORM
  declares `history_id` as an Integer where the migration has a BigInteger. A disconnect clears
  `auto_scan_enabled` and a reconnect does not set it.
- *Mark read.* A 503 leaves mail unread in the database that Gmail has marked; a later scan
  repairs it.
- *Sign-in.* A second tab replaces the cookie of the first, and a mismatch deletes the cookie of
  the tab that would have matched.
- *Verdicts.* A worker and the owner between each other's read and write leave a row that neither
  meant (`VerdictIsOnePayload`). Two PUTs of one rule lose a version number. A
  record that loaded the rules before an edit and writes after a record that loaded them behind it
  leaves the older verdict until the email is reclassified (`triage` with `OlderRecords(w) = {}`
  left out of `WriteVerdict`'s `reached'`, `EditsReachVerdict`); `api/v1/rubric.py:4-6` promises the edit to
  the next run, and a run's records may overlap.
- *Unsubscribe.* Two overlapping executes both POST. Overlapping rankings can leave a vetoed
  sender recommended. A sender that no longer qualifies keeps its old suggestion.
- *Offline queue.* A replay overwrites a later direct choice (`LastChoiceWins`). A record that is
  cancelled while it is replayed is still sent. The idempotency key is stored and not sent.

## 6. What is proved

Every theorem holds for any value of the constants that satisfies the named ASSUMEs of its
module, and, unless the third column says otherwise, for any number of faults. TLC checks each
of these properties on small instances as well. Every invariant a passing run checks is stated by a
theorem here.

| Module | Theorem | Assumes also | Says |
|---|---|---|---|
| `RunPipelineProofs` | `TypedAlways` | - | the inductive type invariant `Typed` |
| | `TypeCorrect` | - | `TypeOK` |
| | `ClaimsExclusive` | - | `ClaimsAreExclusive` |
| | `ClassificationCarried` | `NoTruncation` | `ClassificationIsCarried` |
| | `SummaryCarriedAlways` | `NoTruncation`, not a reclassification | `SummaryIsCarried` |
| | `ClaimedDigestCarried` | `StableVerdicts`, `Readable = {}` | `ClaimedDigestIsCarried` |
| | `NeverStranded` | `Undisturbed`, `Readable = {}`, `NoTruncation`, `OneCluster` | `NotStranded` |
| | `FailureReported` | `Undisturbed`; `ProvidersMayFail => Readable = {}` | `FailureIsReported` |
| | `PromiseKept` | `Undisturbed`; `ProvidersMayFail => Readable = {}` | the refinement `ImplementsDigestRun` |
| | `DigestsCover` | `Undisturbed`; `ProvidersMayFail => Readable = {}` | `DigestCoversCategory` |
| `SchedulerProofs` | `TypeCorrect` | - | `TypeOK` |
| | `LockOwnerLive` | - | `LockOwnerIsLive` |
| | `OneRunOfASlot` | - | `OneRunPerSlot` |
| | `PreviewKept` | `OrdinaryClocks` | `PreviewHolds` |
| `LlmClientProofs` | `TypeCorrect` | - | `TypeOK` |
| | `OneRowAlways` | - | `OneRowPerCall` |
| | `OpenBreakerSpares` | - | `OpenBreakerSparesProvider` |
| | `PageNamesSources` | `Uncut` | `NewsNamesItsSources` of `NewsClusters` |
| | `NothingLeaves` | - | `NothingPrivateLeaves` of `Redaction` |
| `MailboxProofs` | `TypeCorrect` | - | `TypeOK` |
| | `MailIsNeverSkipped` | - | `NoMailSkipped` |
| | `MailHasItsCursor` | - | `MailComesWithCursor` |
| `TriageProofs` | `TypeCorrect` | - | `TypeOK` |
| | `OverrideStays` | - | `OverrideHolds` |
| | `EditsArrive` | - | `EditsReachVerdict` |
| `HygieneProofs` | `DismissalsStay` | - | `DismissalSurvives`, an action property |
| | `SuccessStays` | - | `SuccessIsKept` |
| | `VetoesHide` | - | `VetoHides` |
| `RequestProofs` | `StarterKept` | - | `LinkGoesToStarter` |
| | `ReadLocallyIsRead` | - | `LocalReadIsGmailRead` |
| | `AnswerIsComplete` | - | `AnswerCoversSelection` |
| | `ChoicesAreKept` | - | `QueuedIsNotLost` |

**RunPipeline: types, claims, messages.** `TypeOK` is not inductive: a step that reads
`msg.email` is well typed only because the worker's place fits the kind of its message. `Typed`
adds that (`Fits`): an idle worker holds nothing, the steps of the ingest record hold an ingest
message, and so on. `ClaimsAreExclusive` is inductive with `Typed`: a claim enters a session only
when it is not committed and nobody else holds it, and leaves it at the commit that adds it to
`claimed`. `ClassificationIsCarried` is not inductive for a reclassification, whose messages are
sent before its members exist. `ClassificationInv` speaks of `Promised` emails instead: the
members, and between the send and the commit all emails. It is preserved because a message
leaves the queue only into a worker that begins it, because a crash gives it back, and because
the ingest record reaches its sends only with every target in its query (`NoTruncation`: no
set of emails is larger than the limit, which section 5 shows to be needed).
`SummaryIsCarried` needs to know in addition that a classified email was a member when its
follow-up query ran. `MembersFirst` says that an email named by any message is a member; a
reclassification sends first, so it is excluded.

**RunPipeline: digests.** `ClaimedDigestIsCarried` speaks of committed claims; `DigestInv` also
of those that a worker still holds, and says that their categories have items. Two things can
empty a category after its claim: a user who reads the mail (the property then holds by its third
alternative, until a redelivered verdict fills the category again) and a redelivered
classification that changes a label. `Readable = {}` and `StableVerdicts` (every answer for an
email has the same label and no provider fails) exclude them, and TLC refutes the property without
either. Crashes and duplicates are not restricted.

**RunPipeline implements DigestRun.** Section 5 names what breaks the promise: a second account, a
manual start, a fault, and a reader together with a provider that fails. `Undisturbed` excludes the
first three, the other hypothesis the last; workers, mail, scans and verdicts are arbitrary. The
invariant `PromiseInv` follows the run from its start: before it is running there is nothing but its
scan (`Untouched`); the scan and each classification exist in one copy, waiting or begun (`ScanOnce`,
`VerdictOnce`, over `Single` and `Spent`), so that a verdict is not taken back; after that nobody
still takes the run for queued but the scan's own record, which reads the row again before it
finalizes (`StatusSeen`); what a finalizer found settled is settled, although it asked in three
queries (`Views`). `WorkerPromise` and `NextPromise` then map each step to one of `DigestRun` or to
none. `DigestsCover` adds `Coverage`: a row, and what a worker is about to write, covers a category
of which every member is summarized (`Complete`), and a finalizer that found nothing pending looked
for missing digests after that.

**RunPipeline: failures.** A finalizer decides between `complete` and `failed` on a count it made in
one more query, while other records may still fail. `FailureInv` says why the count is right where it
is used: work is asked only for mail of the run that needs it (`MailInv`), what was found settled
stays so for the cluster job too (`ClusterViews`), and once nothing is pending no record under way
can fail at anything that has not failed before (`ErrorsStay`), so that the count of a finalizer that
found all settled is the count for good (`ErrorViews`). `Reported` is then the property, and it makes
the status final: two finalizers of one run cannot disagree, which is what `PromiseKept` needs when
providers fail.

**RunPipeline: nobody is the last without knowing it.** `NotStranded` is about the worker that finds
something pending and leaves it to others. `Progress` says of an active run that a message waits or
a worker is `UpToDate`: what it found pending still is pending, the cluster job and the digests it
found missing it has claimed or they are on their way. Such a worker either finishes the run or
leaves a message, and a worker that is not up to date has met another's commit, which makes that one
up to date. `StrandInv` carries what this needs: whatever is pending has a message or a worker that
holds one (`ClassificationInv`, `SummaryInv`, `DispatchedInv`, `WritesItems`, `ClusterInv`), and nobody
believes the run ended before it has (`SeenEnded`). Each hypothesis has its counterexample in
section 5: faults and a reader strand the run; mail beyond the enqueue limit (`NoTruncation`) is never
sent; newsletters that fall into groups of one (`small_newsletter_groups`) keep the cluster pending,
which `OneCluster` excludes by giving all newsletters one key.

**Scheduler.** `LockOwnerIsLive` needs to know what a finalizer is doing between its read and
its write: `ClearingIsLive` says that its run is still live and sent, so that its row cannot be
a new run's, and that a run that found another's lock does not get the lock back.
`OneRunPerSlot` speaks of a tick that commits now and a run that began earlier. The invariant
carries the tick's knowledge from its read to its commit (`TickSeesRuns`): of a run that had the
user to itself, the tick has seen a finish no older than the run, or a lock as old as the run, or
the run is past the stale span. It holds when the tick reads, because such a run holds the lock
as long as it lives (`AloneHoldsLock`) and finished after it began (`FinishedSinceStart`), and it
keeps holding because time stands still for the tick. With the debounce and the stale span longer
than the window (`TimeAssumption`) the slot predicate then excludes a young run.

**Profile.** `PreviewHolds` compares two searches: the predicate asks whether a slot of yesterday,
today or tomorrow lies in the window behind the clock, the preview takes the least future slot of
today and the two days after. `NearSlots` bounds how far an instant lies from the local day it is
counted to, so every slot near an instant is one of three days; `NoSlotFromYesterday` says that no
slot of the day before is still to come, and `MatchesAnySlot` and `NextSlotIsFirst` that both
searches therefore see all slots they must. `ProfileInv` then keeps the announcement until the clock
passes it. `OrdinaryClocks` is what the calendar needs: a change of the clock with the window is
shorter than a day, and a skipped time and the instant it comes due are on one local day. TLC finds
the counterexample without the second half (section 5, Nuuk).

**LlmClient.** `OneRowPerCall` speaks of a client at rest; `NoEarlyRow` adds that a call under way
has written nothing. `OpenBreakerSparesProvider` bounds a burst; `OpenedByThisCall` says why: the
first request of a call meets a closed or a cooled-down breaker, so what reaches an open one are its
retries, of which the burst counts no more than were made.

**NewsClusters.** Members are rows and the page's text is a column, written at different statements by
deliveries that overlap. `NewsInv` says that both name the letters routed to the cluster, the text but
for letters that a purge has taken since: in the committed rows, in every open transaction, and on a
page between its two queries. Second deliveries write what the first wrote because routing is a
function of the letter; a purge deletes the member rows along with the letters, and waits for a
transaction that refers to them (`Refers`). `Uncut` (no group is larger than `max_cluster_size`) is
needed: section 5 has the counterexample.

**Redaction.** `Rewritten` is a recursive function over the text, and nothing in a library says that
such a function exists for every length: `RewritingExists` shows it by induction from a least
counterexample (`AllNaturals`). What it computes is described by `MadeAt`, which gives each symbol
of the result the place of the original it was made at, and `CopiedSpan`: a stretch of the result
without placeholders is a stretch of the original. From there a match in a rewritten text was a match
before (`IdentityWasThere`, `UrlWasThere`, `EmailWasThere`, `SsnWasThere`), so no pass undoes an earlier
one (`PassKeepsClean`). Identities hold no placeholder, and patterns cut at the edges of words
(`PatternEdges`, `EdgesWereThere`), so that they make no new boundary for one another; an identity may
be cut from the middle of a word, so identities run first. `RedactionInv` says that the text is
clean of the passes that have run. In the model a placeholder is one symbol: the theorem does not
speak of an alias that is part of a placeholder's name (section 5).

**Mailbox.** `NoMailSkipped` is about the stored cursor and is broken, if at all, by a worker that
writes a cursor it computed long ago. `ViewsHold` follows that computation: below the cursor a worker
has read, and later below the one it will write, each message is stored, gone, or in the worker's
hands, or a disconnect has emptied the mailbox since (`Purged`) and the next first run will bring it
back. It holds because of the row locks (`CursorLocks`): two workers never both create a cursor, and a
disconnect that is past the cursor row keeps it until its commit. `Watermarks` says that no cursor is
ahead of the mailbox. `TypeOK` needs that the holder of a lock is at work.

**Triage.** `OverrideInv` says of every page that nobody overtook that it holds the row as it is, and of
an override that nobody raced that no worker is past its check; `Held` that rows do not go away under
those who read them and that records are not doubled. `EditsReachVerdict` is about the row, so
`CurrentInv` follows a decision to it: a record with the rules as they are holds what they decide, asks
the model only when that is not sure and will write what it leads to (`Holds`); while the rules are
said to have reached the verdict no record with older ones is under way, and the row follows from them
(`Follows`). An UPDATE of a row that is still as it was read makes exactly the row it means
(`UpdatedType`); for the owner's page that is `OverrideInv`. The first link is a lemma about the engine
of `Rubric` (`LoadedDecides`): ordering the active rules and seeds and taking the first match gives a
decision that no matching rule outranks, for any finite set of rules. `ContentsAssumption` gives rule contents the
ranges that the API validates (confidence 0 to 1 in per cent, priority 0 to 100,000).

**Unsubscribe.** A ranking reads a row, asks a model and writes when the row lock is its own.
`RowsHeld` says that a row a ranking has written is locked by it until its commit, and exists if and
only if it existed at the read; `Rankings`, the type of what is flushed, that a vetoed proposal is
below the gate. `Success` follows an unsubscribe through the open request: its answer is accepted and
not stored yet, or the row says so.

**SignIn.** The cookie names a started flow and that flow's user (`CookieIsOfItsFlow`), through
every replacement, expiry and deletion; flows are numbered in the order they start.

**MarkRead.** A request's targets are always parted into not begun, queued, to be tried singly,
confirmed and refused (`Sorted`), and what is confirmed is removed at Gmail.

**OfflineQueue.** A record may be gone because another tab removed it. `RemovesApplied` says why that
loses nothing: whoever is about to remove a record has seen the server apply it, and a record that
is noted as failed is written back only if it is still stored.

### Only model-checked

- Instances outside the hypotheses of the table: `NotStranded` with one fault and two accounts
  (`pipeline_crashes`; with three deliveries of one scan it is false, so no proof covers any number of
  faults), `FailureIsReported` with one fault (`pipeline_liveness`).
- Liveness, whose fairness is out of the prover's reach: `RunEnds`, `UserIsServed`, `CallEnds`,
  `PrimaryIsTriedAgain`, `SettlesAfterDeployment`, `MailIsIngested`, `EmailIsTriaged`, `RanksEnd`.

## 7. Not modelled

`PROJECT.json` names every component with its status. Left out, and why:

- *Manual-run daily cap* (`core/rate_limit.py`): a sliding window in the memory of one process,
  called in sequence. Its window begins again with every Lambda instance.
- *Encryption and secrets*: cryptography and I/O without a protocol. *Batch summarization*: no
  handler calls it. *HTTP wiring, observability, Terraform*: no state. That a record goes to the
  dead-letter queue is a step of `Scheduler`; `RunPipeline` redelivers for ever.
- *Of the modelled components*: the counters in `stats` and `cost_cents`, prompt texts, message
  parsing, excerpts, backoff times, list and search queries, the frontend except its queue.
- *Between the modules*: row locks and column-wise updates appear where two sessions meet in one
  component. Components are composed in `RunPipeline`, at the grain of messages and commits.

## 8. Running

    tlc -config pipeline_crashes.cfg MCRunPipeline
    tlc -config scheduler.cfg MCScheduler
    tlc -config llm_client.cfg MCLlmClient
    tlc -config mailbox.cfg MCMailbox
    tlc -config triage.cfg MCTriage
    tlapm RunPipelineProofs.tla
    tlapm MailboxProofs.tla
    tlapm SchedulerProofs.tla
    tlapm LlmClientProofs.tla

`pipeline_liveness` belongs to `MCRunEnds`, the other `pipeline_*` configurations, `small_newsletter_groups`
and `manual_reopened` to `MCRunPipeline`, `disconnect_race` to `MCMailbox`, `known_waste` to `MCTriage`.
With two workers `triage` takes three minutes, every other run about two or less.
