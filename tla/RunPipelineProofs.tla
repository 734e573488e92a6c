-------------------------- MODULE RunPipelineProofs --------------------------
(***************************************************************************)
(* Machine-checked theorems about RunPipeline, for every set of accounts,   *)
(* emails, categories and workers and every bound on faults.               *)
(***************************************************************************)
EXTENDS RunImplements, FiniteSetTheorems, TLAPS

(* TypeOK alone is not inductive: what a step reads from its message is     *)
(* there only because the step belongs to that kind of message.             *)
IngestSteps == {"enqueue_unclassified", "enqueue_unsummarized"}
ClassifySteps == {"enqueue_summary", "claim_hygiene"}

Fits(s) ==
  /\ s.pc = "idle" => s = Idle
  /\ s.pc # "idle" => s.msg \in Message
  /\ s.pc \in IngestSteps => s.msg.kind = "ingest"
  /\ s.pc \in ClassifySteps => s.msg.kind = "classify"
  /\ s.pc = "write_digest" => s.msg.kind = "category_digest"
FitSession == {s \in Session : Fits(s)}

Typed == TypeOK /\ session \in [Workers -> FitSession]

-----------------------------------------------------------------------------
(* Lemmas about messages, queries and sessions                              *)

(* The messages the pipeline sends are messages.                            *)
LEMMA MessageType ==
  /\ StartMessages \subseteq Message
  /\ \A a \in Accounts : Ingest(a) \in Message /\ Hygiene(a) \in Message
  /\ \A e \in Emails : Classify(e) \in Message /\ SummarizeEmail(e) \in Message
  /\ \A c \in Categories : CategoryDigest(c) \in Message
  /\ \A S \in SUBSET Emails : TechNewsCluster(S) \in Message
BY DEF StartMessages, Message

(* The kind of a message tells what it carries.                             *)
LEMMA MessageFields ==
  /\ \A m \in Message : m.kind = "ingest" => m.account \in Accounts /\ m = Ingest(m.account)
  /\ \A m \in Message : m.kind = "classify" => m.email \in Emails /\ m = Classify(m.email)
  /\ \A m \in Message :
       m.kind = "summarize_email" => m.email \in Emails /\ m = SummarizeEmail(m.email)
  /\ \A m \in Message :
       m.kind = "category_digest" => m.category \in Categories /\ m = CategoryDigest(m.category)
BY DEF Message, Ingest, Classify, SummarizeEmail, Hygiene, CategoryDigest, TechNewsCluster

(* The account of an email in the scope is an account.                      *)
LEMMA AccountType == \A e \in Emails : AccountOf[e] \in Accounts
BY MailAssumption

(* What the shared queries return is a set of emails or of categories.      *)
LEMMA QueryType ==
  ASSUME TypeOK
  PROVE  /\ RunNewsletters \subseteq Emails
         /\ MissingDigests \subseteq Categories
         /\ \A c \in Categories : CategoryItems(c) \subseteq Emails
         /\ \A w : DigestsToDispatch(w) \subseteq Categories
BY DEF TypeOK, RunNewsletters, MissingDigests, CategoryItems, DigestsToDispatch

(* Sending adds at most one copy and leaves every message there.            *)
LEMMA SendType ==
  ASSUME queue \in [Message -> Nat], NEW S
  PROVE  /\ Sent(S) \in [Message -> Nat]
         /\ \A m \in Message : queue[m] > 0 => Sent(S)[m] > 0
         /\ \A m \in Message \cap S : Sent(S)[m] > 0
BY DEF Sent

(* An idle session fits.                                                    *)
LEMMA IdleFits == Idle \in FitSession /\ Idle.pc = "idle"
BY DEF Idle, FitSession, Fits, Session, ProgramCounters, NoDigest, IngestSteps, ClassifySteps

(* A worker's next step may not need another kind of message.               *)
LEMMA GotoFits ==
  ASSUME session \in [Workers -> FitSession], NEW w \in Workers,
         NEW pc \in ProgramCounters \ {"idle"}, session[w].pc # "idle",
         pc \in IngestSteps => session[w].msg.kind = "ingest",
         pc \in ClassifySteps => session[w].msg.kind = "classify",
         pc # "write_digest",
         Goto(w, pc)
  PROVE  session' \in [Workers -> FitSession]
<1> DEFINE s == [session[w] EXCEPT !.pc = pc]
<1>1. session[w] \in Session /\ session[w].msg \in Message
  BY DEF FitSession, Fits
<1>2. s \in Session /\ s.pc = pc /\ s.msg = session[w].msg
  BY <1>1 DEF Session
<1>3. s \in FitSession
  BY <1>1, <1>2 DEF FitSession, Fits
<1>4. session' = [session EXCEPT ![w] = s]
  BY DEF Goto
<1> HIDE DEF s
<1> QED BY <1>3, <1>4

(* A redelivery keeps the queue and the sessions typed, and the worker's    *)
(* message waits.                                                           *)
LEMMA GiveBackType ==
  ASSUME session \in [Workers -> FitSession], NEW w \in Workers,
         NEW Q \in [Message -> Nat], GiveBack(w, Q)
  PROVE  /\ queue' \in [Message -> Nat]
         /\ session' \in [Workers -> FitSession]
         /\ \A m \in Message : Q[m] > 0 \/ m = session[w].msg => queue'[m] > 0
<1>1. session' \in [Workers -> FitSession]
  BY IdleFits DEF GiveBack
<1>2. queue' = [m \in Message |-> IF m = session[w].msg THEN Q[m] + 1 ELSE Q[m]]
  BY DEF GiveBack
<1> QED BY <1>1, <1>2

(* The handlers of the queues' records keep the types.                      *)
LEMMA HandleType ==
  ASSUME Typed, NEW w \in Workers, Handle(w)
  PROVE  Typed'
<1> USE DEF pipeline
<1>0. /\ TypeOK /\ session \in [Workers -> FitSession]
      /\ session[w] \in FitSession /\ session[w] \in Session
      /\ session[w].pc # "idle" => session[w].msg \in Message
      /\ queue \in [Message -> Nat]
  BY DEF Typed, TypeOK, FitSession, Fits
<1>c. ASSUME CommitRunning(w)
      PROVE  run' \in {"absent", "queued", "running", "complete", "failed"}
  BY <1>0, <1>c DEF TypeOK, CommitRunning
<1>1. CASE MarkRunRunning(w)
  <2>1. session' \in [Workers -> FitSession]
    BY <1>0, <1>1, GotoFits DEF MarkRunRunning, ProgramCounters, IngestSteps, ClassifySteps
  <2> QED BY <1>0, <1>1, <2>1 DEF MarkRunRunning, Typed, TypeOK, FitSession
<1>2. CASE HandleIngest(w)
  <2>1. PICK scan \in ScanResults[session[w].msg.account] :
          IF run = "absent" /\ scan # {}
          THEN GiveBack(w, queue) /\ UNCHANGED <<member, run>>
          ELSE /\ member' = member \cup scan
               /\ CommitRunning(w)
               /\ Goto(w, "enqueue_unclassified")
               /\ UNCHANGED queue
    BY <1>2 DEF HandleIngest
  <2>2. session[w].pc = "handle" /\ session[w].msg.kind = "ingest"
    BY <1>2 DEF HandleIngest, At
  <2>3. scan \subseteq Emails
    BY <1>0, <2>1, <2>2, MessageFields, MailAssumption
  <2>4. session' \in [Workers -> FitSession] /\ queue' \in [Message -> Nat]
    BY <1>0, <2>1, <2>2, GotoFits, GiveBackType
       DEF ProgramCounters, IngestSteps, ClassifySteps
  <2>5. member' \in SUBSET Emails
    BY <1>0, <2>1, <2>3 DEF TypeOK
  <2>6. run' \in {"absent", "queued", "running", "complete", "failed"}
    BY <1>0, <1>c, <2>1 DEF TypeOK
  <2> QED BY <1>0, <1>2, <2>4, <2>5, <2>6 DEF HandleIngest, Typed, TypeOK, FitSession
<1>3. CASE EnqueueUnclassified(w)
  <2>1. session' \in [Workers -> FitSession]
    BY <1>0, <1>3, GotoFits
       DEF EnqueueUnclassified, FitSession, Fits, ProgramCounters, IngestSteps, ClassifySteps
  <2>2. queue' \in [Message -> Nat]
    BY <1>0, <1>3, SendType DEF EnqueueUnclassified, Send
  <2> QED BY <1>0, <1>3, <2>1, <2>2 DEF EnqueueUnclassified, Typed, TypeOK, FitSession
<1>4. CASE EnqueueUnsummarized(w)
  <2>1. session' \in [Workers -> FitSession]
    BY <1>0, <1>4, GotoFits
       DEF EnqueueUnsummarized, FitSession, Fits, ProgramCounters, IngestSteps, ClassifySteps
  <2>2. queue' \in [Message -> Nat]
    BY <1>0, <1>4, SendType DEF EnqueueUnsummarized, Send
  <2> QED BY <1>0, <1>4, <2>1, <2>2 DEF EnqueueUnsummarized, Typed, TypeOK, FitSession
<1>5. CASE HandleClassify(w)
  <2>1. session' \in [Workers -> FitSession]
    BY <1>0, <1>5, GotoFits
       DEF HandleClassify, At, ProgramCounters, IngestSteps, ClassifySteps
  <2>2. session[w].msg.email \in Emails
    BY <1>0, <1>5, MessageFields DEF HandleClassify, At
  <2>3. ASSUME NEW v \in Verdict, WriteVerdict(session[w].msg.email, v)
        PROVE  label' \in [Emails -> Labels \cup {"none"}] /\ newsletters' \in SUBSET Emails
    BY <1>0, <2>2, <2>3 DEF WriteVerdict, Verdict, TypeOK
  <2>4. NeedsReview \in Verdict
    BY DEF NeedsReview, Verdict, Labels
  <2>5. Verdicts[session[w].msg.email] \subseteq Verdict
    BY <2>2, MailAssumption
  <2>6. /\ label' \in [Emails -> Labels \cup {"none"}]
        /\ newsletters' \in SUBSET Emails
        /\ failed' \in SUBSET Emails
    BY <1>0, <1>5, <2>2, <2>3, <2>4, <2>5 DEF HandleClassify, TypeOK
  <2>7. run' \in {"absent", "queued", "running", "complete", "failed"}
    BY <1>5, <1>c DEF HandleClassify
  <2> QED BY <1>0, <1>5, <2>1, <2>6, <2>7 DEF HandleClassify, Typed, TypeOK, FitSession
<1>6. CASE EnqueueSummary(w)
  <2>1. session' \in [Workers -> FitSession]
    BY <1>0, <1>6, GotoFits
       DEF EnqueueSummary, FitSession, Fits, ProgramCounters, IngestSteps, ClassifySteps
  <2>2. queue' \in [Message -> Nat]
    BY <1>0, <1>6, SendType DEF EnqueueSummary, Send
  <2> QED BY <1>0, <1>6, <2>1, <2>2 DEF EnqueueSummary, Typed, TypeOK, FitSession
<1>7. CASE ClaimHygiene(w)
  <2>1. session[w].pc = "claim_hygiene" /\ session[w].msg.kind = "classify"
    BY <1>0, <1>7 DEF ClaimHygiene, FitSession, Fits, ClassifySteps
  <2>2. PICK a \in Accounts : a = AccountOf[session[w].msg.email]
    BY <1>0, <2>1, MessageFields, AccountType
  <2>3. HygieneClaim(a) \in Claim
    BY DEF Claim
  <2> DEFINE s == [session[w] EXCEPT !.pc = "load_run", !.claims = @ \cup {HygieneClaim(a)}]
  <2>4. s \in FitSession
    BY <1>0, <2>1, <2>3
       DEF FitSession, Fits, Session, ProgramCounters, IngestSteps, ClassifySteps
  <2>5. CASE Goto(w, "load_run") /\ UNCHANGED queue
    <3>1. session' \in [Workers -> FitSession]
      BY <1>0, <2>1, <2>5, GotoFits DEF ProgramCounters, IngestSteps, ClassifySteps
    <3> QED BY <1>0, <1>7, <2>5, <3>1 DEF ClaimHygiene, Typed, TypeOK, FitSession
  <2>6. CASE session' = [session EXCEPT ![w] = s] /\ Send({Hygiene(a)})
    <3>1. session' \in [Workers -> FitSession]
      BY <1>0, <2>4, <2>6
    <3>2. queue' \in [Message -> Nat]
      BY <1>0, <2>6, SendType DEF Send
    <3> QED BY <1>0, <1>7, <3>1, <3>2 DEF ClaimHygiene, Typed, TypeOK, FitSession
  <2> QED BY <1>7, <2>2, <2>5, <2>6 DEF ClaimHygiene
<1>8. CASE HandleSummarizeEmail(w)
  <2>1. session' \in [Workers -> FitSession]
    BY <1>0, <1>8, GotoFits
       DEF HandleSummarizeEmail, At, ProgramCounters, IngestSteps, ClassifySteps
  <2>2. session[w].msg.email \in Emails
    BY <1>0, <1>8, MessageFields DEF HandleSummarizeEmail, At
  <2>3. summarized' \in SUBSET Emails /\ failed' \in SUBSET Emails
    BY <1>0, <1>8, <2>2 DEF HandleSummarizeEmail, TypeOK
  <2>4. run' \in {"absent", "queued", "running", "complete", "failed"}
    BY <1>8, <1>c DEF HandleSummarizeEmail
  <2> QED BY <1>0, <1>8, <2>1, <2>3, <2>4 DEF HandleSummarizeEmail, Typed, TypeOK, FitSession
<1>9. CASE ReadCategory(w)
  <2> DEFINE c == session[w].msg.category
             s == [session[w] EXCEPT !.pc = "write_digest", !.items = CategoryItems(c)]
  <2>1. session[w].pc = "handle" /\ session[w].msg.kind = "category_digest" /\ c \in Categories
    BY <1>0, <1>9, MessageFields DEF ReadCategory, At
  <2>2. s \in FitSession
    BY <1>0, <2>1, QueryType
       DEF FitSession, Fits, Session, ProgramCounters, IngestSteps, ClassifySteps
  <2>3. session' \in [Workers -> FitSession] /\ queue' \in [Message -> Nat]
    <3>1. CASE Goto(w, "load_run") /\ UNCHANGED queue
      BY <1>0, <2>1, <3>1, GotoFits DEF ProgramCounters, IngestSteps, ClassifySteps
    <3>2. CASE session' = [session EXCEPT ![w] = s] /\ UNCHANGED queue
      BY <1>0, <2>2, <3>2
    <3>3. CASE GiveBack(w, queue)
      BY <1>0, <3>3, GiveBackType
    <3> QED BY <1>9, <3>1, <3>2, <3>3 DEF ReadCategory
  <2>4. run' \in {"absent", "queued", "running", "complete", "failed"}
    BY <1>0, <1>9, <1>c DEF ReadCategory, TypeOK
  <2> QED BY <1>0, <1>9, <2>3, <2>4 DEF ReadCategory, Typed, TypeOK, FitSession
<1>10. CASE WriteDigest(w)
  <2>1. session' \in [Workers -> FitSession]
    BY <1>0, <1>10, GotoFits DEF WriteDigest, ProgramCounters, IngestSteps, ClassifySteps
  <2>2. digest' \in [Categories -> SUBSET Emails]
    BY <1>0, <1>10 DEF WriteDigest, TypeOK, Session
  <2>3. run' \in {"absent", "queued", "running", "complete", "failed"}
    BY <1>10, <1>c DEF WriteDigest
  <2> QED BY <1>0, <1>10, <2>1, <2>2, <2>3 DEF WriteDigest, Typed, TypeOK, FitSession
<1>11. CASE HandleTechNewsCluster(w)
  <2>1. session' \in [Workers -> FitSession]
    BY <1>0, <1>11, GotoFits
       DEF HandleTechNewsCluster, At, ProgramCounters, IngestSteps, ClassifySteps
  <2>2. clustered' \in BOOLEAN /\ clusterFailed' \in BOOLEAN
    BY <1>11, Zenon DEF HandleTechNewsCluster
  <2>3. run' \in {"absent", "queued", "running", "complete", "failed"}
    BY <1>11, <1>c DEF HandleTechNewsCluster
  <2> QED BY <1>0, <1>11, <2>1, <2>2, <2>3 DEF HandleTechNewsCluster, Typed, TypeOK, FitSession
<1>12. CASE HandleUnsubscribe(w)
  <2>1. session' \in [Workers -> FitSession]
    BY <1>0, <1>12, GotoFits DEF HandleUnsubscribe, At, ProgramCounters, IngestSteps, ClassifySteps
  <2> QED BY <1>0, <1>12, <2>1 DEF HandleUnsubscribe, Typed, TypeOK, FitSession
<1> QED
  BY <1>1, <1>2, <1>3, <1>4, <1>5, <1>6, <1>7, <1>8, <1>9, <1>10, <1>11, <1>12 DEF Handle

(* What a query of _progress_snapshot stores fits.                          *)
LEMMA CountFits ==
  ASSUME NEW s \in FitSession, s.pc # "idle", NEW b \in BOOLEAN
  PROVE  /\ [s EXCEPT !.pc = "count_summaries", !.unclassified = b] \in FitSession
         /\ [s EXCEPT !.pc = "count_cluster", !.summaries = b] \in FitSession
         /\ [s EXCEPT !.pc = "count_categories", !.cluster = b] \in FitSession
         /\ [s EXCEPT !.pc = "dispatch_cluster", !.errors = b] \in FitSession
BY ZenonT(30) DEF FitSession, Fits, Session, ProgramCounters, IngestSteps, ClassifySteps

(* The finalizer keeps the types.                                           *)
LEMMA FinalizeType ==
  ASSUME Typed, NEW w \in Workers, Finalize(w)
  PROVE  Typed'
<1> USE DEF pipeline
<1>0. /\ TypeOK /\ session \in [Workers -> FitSession]
      /\ session[w] \in FitSession /\ session[w] \in Session
      /\ session[w].pc # "idle" => session[w].msg \in Message
      /\ queue \in [Message -> Nat]
  BY DEF Typed, TypeOK, FitSession, Fits
<1>1. CASE LoadRun(w)
  <2> DEFINE status ==
        CASE session[w].msg.kind = "category_digest" -> Started(session[w].seen)
          [] session[w].msg.kind = "hygiene" /\ session[w].seen = "queued" -> "queued"
          [] OTHER -> run
      s == [session[w] EXCEPT
              !.seen = status,
              !.pc = IF status \in Terminal \cup {"absent"} THEN "commit" ELSE "count_unclassified"]
  <2>1. session[w].pc # "idle" /\ session' = [session EXCEPT ![w] = s]
    BY <1>1 DEF LoadRun
  <2>2. status \in {"absent", "queued", "running", "complete", "failed"}
    BY <1>0 DEF Session, Started, TypeOK
  <2>3. s \in FitSession
    <3> HIDE DEF status
    <3> QED BY <1>0, <2>1, <2>2, ZenonT(30)
            DEF FitSession, Fits, Session, ProgramCounters, IngestSteps, ClassifySteps
  <2>4. session' \in [Workers -> FitSession]
    BY <1>0, <2>1, <2>3
  <2> QED BY <1>0, <1>1, <2>4 DEF LoadRun, Typed, TypeOK, FitSession
<1>2. CASE CountUnclassified(w)
  <2> DEFINE b == (PendingUnclassified # {})
             s == [session[w] EXCEPT !.pc = "count_summaries", !.unclassified = b]
  <2>1. session[w].pc # "idle" /\ session' = [session EXCEPT ![w] = s]
    BY <1>2 DEF CountUnclassified
  <2>2. b \in BOOLEAN
    BY Zenon DEF PendingUnclassified, PendingSummaries, ClusterPending, PromptErrors
  <2>3. s \in FitSession
    <3> HIDE DEF b
    <3> QED BY <1>0, <2>1, <2>2, CountFits, Zenon
  <2>4. session' \in [Workers -> FitSession]
    BY <1>0, <2>1, <2>3
  <2> QED BY <1>0, <1>2, <2>4 DEF CountUnclassified, Typed, TypeOK, FitSession
<1>3. CASE CountSummaries(w)
  <2> DEFINE b == (PendingSummaries # {})
             s == [session[w] EXCEPT !.pc = "count_cluster", !.summaries = b]
  <2>1. session[w].pc # "idle" /\ session' = [session EXCEPT ![w] = s]
    BY <1>3 DEF CountSummaries
  <2>2. b \in BOOLEAN
    BY Zenon DEF PendingUnclassified, PendingSummaries, ClusterPending, PromptErrors
  <2>3. s \in FitSession
    <3> HIDE DEF b
    <3> QED BY <1>0, <2>1, <2>2, CountFits, Zenon
  <2>4. session' \in [Workers -> FitSession]
    BY <1>0, <2>1, <2>3
  <2> QED BY <1>0, <1>3, <2>4 DEF CountSummaries, Typed, TypeOK, FitSession
<1>4. CASE CountCluster(w)
  <2> DEFINE b == ClusterPending
             s == [session[w] EXCEPT !.pc = "count_categories", !.cluster = b]
  <2>1. session[w].pc # "idle" /\ session' = [session EXCEPT ![w] = s]
    BY <1>4 DEF CountCluster
  <2>2. b \in BOOLEAN
    BY Zenon DEF PendingUnclassified, PendingSummaries, ClusterPending, PromptErrors
  <2>3. s \in FitSession
    <3> HIDE DEF b
    <3> QED BY <1>0, <2>1, <2>2, CountFits, Zenon
  <2>4. session' \in [Workers -> FitSession]
    BY <1>0, <2>1, <2>3
  <2> QED BY <1>0, <1>4, <2>4 DEF CountCluster, Typed, TypeOK, FitSession
<1>5. CASE CountCategories(w)
  <2> DEFINE s == [session[w] EXCEPT !.pc = "count_errors", !.categories = MissingDigests]
  <2>1. session[w].pc # "idle" /\ session' = [session EXCEPT ![w] = s]
    BY <1>5 DEF CountCategories
  <2>2. s \in FitSession
    BY <1>0, <2>1, QueryType
       DEF FitSession, Fits, Session, ProgramCounters, IngestSteps, ClassifySteps
  <2>3. session' \in [Workers -> FitSession]
    BY <1>0, <2>1, <2>2
  <2> QED BY <1>0, <1>5, <2>3 DEF CountCategories, Typed, TypeOK, FitSession
<1>6. CASE CountErrors(w)
  <2> DEFINE b == PromptErrors
             s == [session[w] EXCEPT !.pc = "dispatch_cluster", !.errors = b]
  <2>1. session[w].pc # "idle" /\ session' = [session EXCEPT ![w] = s]
    BY <1>6 DEF CountErrors
  <2>2. b \in BOOLEAN
    BY Zenon DEF PendingUnclassified, PendingSummaries, ClusterPending, PromptErrors
  <2>3. s \in FitSession
    <3> HIDE DEF b
    <3> QED BY <1>0, <2>1, <2>2, CountFits, Zenon
  <2>4. session' \in [Workers -> FitSession]
    BY <1>0, <2>1, <2>3
  <2> QED BY <1>0, <1>6, <2>4 DEF CountErrors, Typed, TypeOK, FitSession
<1>7. CASE DispatchCluster(w)
  <2> DEFINE s == [session[w] EXCEPT !.pc = "dispatch_digests", !.claims = @ \cup {ClusterClaim}]
  <2>1. session[w].pc = "dispatch_cluster"
    BY <1>7 DEF DispatchCluster
  <2>2. s \in FitSession
    BY <1>0, <2>1 DEF FitSession, Fits, Session, Claim, ProgramCounters, IngestSteps, ClassifySteps
  <2>3. session' \in [Workers -> FitSession] /\ queue' \in [Message -> Nat]
    <3>1. CASE Goto(w, "dispatch_digests") /\ UNCHANGED queue
      BY <1>0, <2>1, <3>1, GotoFits DEF ProgramCounters, IngestSteps, ClassifySteps
    <3>2. CASE session' = [session EXCEPT ![w] = s] /\ \E S : Send(S)
      BY <1>0, <2>2, <3>2, SendType DEF Send
    <3> QED BY <1>7, <3>1, <3>2 DEF DispatchCluster
  <2> QED BY <1>0, <1>7, <2>3 DEF DispatchCluster, Typed, TypeOK, FitSession
<1>8. CASE DispatchDigests(w)
  <2> DEFINE s == [session[w] EXCEPT
        !.pc = "commit",
        !.claims = @ \cup {DigestClaim(c) : c \in DigestsToDispatch(w)}]
  <2>1. session[w].pc = "dispatch_digests" /\ session' = [session EXCEPT ![w] = s]
    BY <1>8 DEF DispatchDigests
  <2>2. {DigestClaim(c) : c \in DigestsToDispatch(w)} \subseteq Claim
    BY <1>0, QueryType DEF Claim
  <2>3. s \in FitSession
    BY <1>0, <2>1, <2>2
       DEF FitSession, Fits, Session, ProgramCounters, IngestSteps, ClassifySteps
  <2>4. session' \in [Workers -> FitSession] /\ queue' \in [Message -> Nat]
    BY <1>0, <1>8, <2>1, <2>3, SendType DEF DispatchDigests, Send
  <2> QED BY <1>0, <1>8, <2>4 DEF DispatchDigests, Typed, TypeOK, FitSession
<1>9. CASE Commit(w)
  <2>1. session' \in [Workers -> FitSession]
    BY <1>0, <1>9, IdleFits DEF Commit
  <2>2. claimed' \in SUBSET Claim
    BY <1>0, <1>9 DEF Commit, TypeOK, Session
  <2>3. run' \in {"absent", "queued", "running", "complete", "failed"}
    BY <1>0, <1>9 DEF Commit, FinalStatus, TypeOK
  <2> QED BY <1>0, <1>9, <2>1, <2>2, <2>3 DEF Commit, Typed, TypeOK, FitSession
<1> QED
  BY <1>1, <1>2, <1>3, <1>4, <1>5, <1>6, <1>7, <1>8, <1>9 DEF Finalize

(* The starter and a duplicate delivery keep the types.                     *)
LEMMA OtherType ==
  ASSUME Typed, Start \/ StarterCrash \/ \E m \in Message : Duplicate(m)
  PROVE  Typed'
<1> USE DEF pipeline
<1>0. TypeOK /\ session \in [Workers -> FitSession] /\ queue \in [Message -> Nat]
  BY DEF Typed, TypeOK
<1>1. session' = session /\ label' = label /\ digest' = digest /\ claimed' = claimed
  BY DEF Start, FanoutCommit, FanoutSend, ManualSend, ManualCommit, StarterCrash, Duplicate
<1>2. queue' \in [Message -> Nat]
  BY <1>0, SendType
     DEF Start, FanoutCommit, FanoutSend, ManualSend, ManualCommit, StarterCrash, Duplicate,
         Send
<1>3. CASE Start
  BY <1>0, <1>1, <1>2, <1>3
     DEF Start, FanoutCommit, FanoutSend, ManualSend, ManualCommit, CreateRun, Typed, TypeOK
<1>4. CASE StarterCrash
  BY <1>0, <1>1, <1>2, <1>4 DEF StarterCrash, Typed, TypeOK
<1>5. CASE \E m \in Message : Duplicate(m)
  BY <1>0, <1>1, <1>2, <1>5 DEF Duplicate, Typed, TypeOK
<1> QED BY <1>3, <1>4, <1>5

(* A delivery and a crash keep the types.                                   *)
LEMMA DeliveryType ==
  ASSUME Typed, NEW w \in Workers, Crash(w) \/ \E m \in Message : Receive(w, m)
  PROVE  Typed'
<1> USE DEF pipeline
<1>0. /\ TypeOK /\ session \in [Workers -> FitSession]
      /\ session[w] \in FitSession /\ session[w] \in Session
      /\ session[w].pc # "idle" => session[w].msg \in Message
      /\ queue \in [Message -> Nat]
  BY DEF Typed, TypeOK, FitSession, Fits
<1>1. ASSUME NEW m \in Message, Receive(w, m)
      PROVE  Typed'
  <2> DEFINE pc == IF run = "queued" THEN "mark" ELSE "handle"
             s == [session[w] EXCEPT !.pc = pc, !.msg = m, !.seen = run]
  <2>1. s \in FitSession
    <3>1. pc \in {"mark", "handle"}
      OBVIOUS
    <3> HIDE DEF pc
    <3> QED BY <1>0, <3>1
            DEF FitSession, Fits, Session, TypeOK, ProgramCounters, IngestSteps, ClassifySteps
  <2>2. session' \in [Workers -> FitSession]
    BY <1>0, <1>1, <2>1 DEF Receive
  <2>3. queue' = [n \in Message |-> IF n = m THEN queue[n] - 1 ELSE queue[n]] /\ queue[m] > 0
    BY <1>0, <1>1 DEF Receive
  <2>4. queue' \in [Message -> Nat]
    BY <1>0, <2>3
  <2> QED BY <1>0, <1>1, <2>2, <2>4 DEF Receive, Typed, TypeOK, FitSession
<1>2. CASE Crash(w)
  <2>1. PICK T : GiveBack(w, Sent(T))
    BY <1>2 DEF Crash
  <2>2. session' \in [Workers -> FitSession] /\ queue' \in [Message -> Nat]
    BY <1>0, <2>1, SendType, GiveBackType
  <2> QED BY <1>0, <1>2, <2>2 DEF Crash, Typed, TypeOK, FitSession
<1> QED BY <1>1, <1>2

(* The run begins typed.                                                    *)
LEMMA InitType == Init => Typed
<1> SUFFICES ASSUME Init PROVE Typed
  OBVIOUS
<1>1. label \in [Emails -> Labels \cup {"none"}] /\ newsletters \in SUBSET Emails
      /\ summarized \in SUBSET Emails
  BY DEF Init, InitPipeline, Verdict
<1>2. session \in [Workers -> FitSession]
  BY IdleFits DEF Init
<1> QED BY <1>1, <1>2 DEF Init, Typed, TypeOK, FitSession, NoDigest

(* Every step keeps the types.                                              *)
LEMMA NextType == Typed /\ [Next]_vars => Typed'
<1> SUFFICES ASSUME Typed, [Next]_vars PROVE Typed'
  OBVIOUS
<1>1. CASE UNCHANGED vars
  BY <1>1 DEF vars, pipeline, Typed, TypeOK
<1>2. CASE Start \/ StarterCrash
  BY <1>2, OtherType
<1>3. ASSUME NEW w \in Workers, Handle(w) \/ Finalize(w) \/ Crash(w) PROVE Typed'
  BY <1>3, HandleType, FinalizeType, DeliveryType
<1>4. ASSUME NEW m \in Message, Duplicate(m) PROVE Typed'
  BY <1>4, OtherType
<1>5. ASSUME NEW m \in Message, NEW w \in Workers, Receive(w, m) PROVE Typed'
  BY <1>5, DeliveryType
<1>6. ASSUME NEW e \in Emails, MarkRead(e) PROVE Typed'
  BY <1>6 DEF MarkRead, pipeline, Typed, TypeOK
<1>7. CASE Rest
  BY <1>1, <1>7 DEF Rest
<1> QED BY <1>1, <1>2, <1>3, <1>4, <1>5, <1>6, <1>7 DEF Next

(* Every variable keeps its type, and every worker's step belongs to the    *)
(* kind of the message it holds.                                            *)
THEOREM TypedAlways == Spec => []Typed
BY InitType, NextType, PTL DEF Spec

(* Type correctness of the pipeline.                                        *)
THEOREM TypeCorrect == Spec => []TypeOK
<1>1. Typed => TypeOK
  BY DEF Typed
<1> QED BY <1>1, TypedAlways, PTL

-----------------------------------------------------------------------------
(* Claims are exclusive                                                     *)

(* A worker that goes on, or gives its message back, gains no claim.        *)
GainsNoClaim ==
  \A v \in Workers : session'[v].claims = session[v].claims \/ session'[v].claims = {}

(* Going on to the next step gains no claim.                                *)
LEMMA GotoKeepsClaims ==
  ASSUME session \in [Workers -> FitSession], NEW w \in Workers, NEW pc, Goto(w, pc)
  PROVE  GainsNoClaim
BY DEF Goto, GainsNoClaim, FitSession, Session

(* Ending the record, or crashing, gains no claim.                          *)
LEMMA IdleHasNoClaim ==
  ASSUME session \in [Workers -> FitSession], NEW w \in Workers,
         session' = [session EXCEPT ![w] = Idle]
  PROVE  GainsNoClaim
BY DEF Idle, GainsNoClaim

(* Without a new claim the claims stay exclusive.                           *)
LEMMA NoNewClaim ==
  ASSUME ClaimsAreExclusive, GainsNoClaim, claimed' = claimed
  PROVE  ClaimsAreExclusive'
BY DEF ClaimsAreExclusive, GainsNoClaim

(* A worker takes claims that nobody has and nobody holds.                  *)
LEMMA NewClaims ==
  ASSUME ClaimsAreExclusive, session \in [Workers -> FitSession], NEW w \in Workers,
         NEW C, C \cap claimed = {},
         \A v \in Workers \ {w} : C \cap session[v].claims = {},
         session'[w].claims = session[w].claims \cup C,
         \A v \in Workers \ {w} : session'[v] = session[v],
         claimed' = claimed
  PROVE  ClaimsAreExclusive'
BY DEF ClaimsAreExclusive

(* Only four steps change what is claimed.                                  *)
LEMMA OthersGainNoClaim ==
  ASSUME Typed, NEW w \in Workers, Handle(w) \/ Finalize(w) \/ Crash(w),
         ~ClaimHygiene(w), ~DispatchCluster(w), ~DispatchDigests(w), ~Commit(w)
  PROVE  claimed' = claimed /\ GainsNoClaim
<1>0. session \in [Workers -> FitSession]
  BY DEF Typed
<1>1. CASE MarkRunRunning(w) \/ EnqueueUnclassified(w) \/ EnqueueUnsummarized(w)
           \/ HandleClassify(w) \/ EnqueueSummary(w) \/ HandleSummarizeEmail(w)
           \/ WriteDigest(w) \/ HandleTechNewsCluster(w) \/ HandleUnsubscribe(w)
  <2>1. claimed' = claimed /\ \E pc : Goto(w, pc)
    BY <1>1 DEF MarkRunRunning, EnqueueUnclassified, EnqueueUnsummarized, HandleClassify,
                EnqueueSummary, HandleSummarizeEmail, WriteDigest, HandleTechNewsCluster,
                HandleUnsubscribe
  <2> QED BY <1>0, <2>1, GotoKeepsClaims
<1>2. CASE HandleIngest(w)
  <2>1. claimed' = claimed /\ (GiveBack(w, queue) \/ \E pc : Goto(w, pc))
    BY <1>2 DEF HandleIngest
  <2> QED BY <1>0, <2>1, GotoKeepsClaims, IdleHasNoClaim DEF GiveBack
<1>3. CASE ReadCategory(w)
  <2>1. claimed' = claimed
    BY <1>3 DEF ReadCategory
  <2>2. \/ GiveBack(w, queue) \/ Goto(w, "load_run")
        \/ session' = [session EXCEPT ![w].pc = "write_digest",
                                      ![w].items = CategoryItems(session[w].msg.category)]
    BY <1>3 DEF ReadCategory
  <2>3. GainsNoClaim
    BY <1>0, <2>2, GotoKeepsClaims, IdleHasNoClaim
       DEF GiveBack, GainsNoClaim, FitSession, Session
  <2> QED BY <2>1, <2>3
<1>4. CASE LoadRun(w) \/ CountUnclassified(w) \/ CountSummaries(w) \/ CountCluster(w)
           \/ CountCategories(w) \/ CountErrors(w)
  BY <1>0, <1>4
     DEF LoadRun, CountUnclassified, CountSummaries, CountCluster, CountCategories,
         CountErrors, GainsNoClaim, FitSession, Session
<1>5. CASE Crash(w)
  BY <1>0, <1>5, IdleHasNoClaim DEF Crash, GiveBack
<1> QED BY <1>1, <1>2, <1>3, <1>4, <1>5 DEF Handle, Finalize

(* Every step of the pipeline keeps the claims exclusive.                   *)
LEMMA NextClaims == Typed /\ ClaimsAreExclusive /\ [Next]_vars => ClaimsAreExclusive'
<1> SUFFICES ASSUME Typed, ClaimsAreExclusive, [Next]_vars PROVE ClaimsAreExclusive'
  OBVIOUS
<1> USE DEF pipeline
<1>0. session \in [Workers -> FitSession]
  BY DEF Typed
<1>1. CASE UNCHANGED vars
  BY <1>1 DEF vars, ClaimsAreExclusive
<1>2. CASE \/ Start \/ StarterCrash
           \/ \E m \in Message : Duplicate(m)
           \/ \E e \in Emails : MarkRead(e)
  <2>1. session' = session /\ claimed' = claimed
    BY <1>2 DEF Start, FanoutCommit, FanoutSend, ManualSend, ManualCommit, StarterCrash,
                Duplicate, MarkRead
  <2> QED BY <2>1 DEF ClaimsAreExclusive
<1>3. ASSUME NEW w \in Workers, Handle(w) \/ Finalize(w) \/ Crash(w)
      PROVE  ClaimsAreExclusive'
  <2>1. CASE ClaimHygiene(w)
    <3> DEFINE a == AccountOf[session[w].msg.email]
    <3>1. CASE Goto(w, "load_run")
      BY <1>0, <2>1, <3>1, GotoKeepsClaims, NoNewClaim DEF ClaimHygiene
    <3>2. CASE /\ HygieneClaim(a) \notin claimed
               /\ NobodyHolds(w, HygieneClaim(a))
               /\ session' = [session EXCEPT ![w].pc = "load_run",
                                             ![w].claims = @ \cup {HygieneClaim(a)}]
      <4>1. \A v \in Workers \ {w} : session'[v] = session[v]
        BY <1>0, <3>2
      <4>2. session'[w].claims = session[w].claims \cup {HygieneClaim(a)}
        BY <1>0, <3>2 DEF FitSession, Session
      <4>3. claimed' = claimed
        BY <2>1 DEF ClaimHygiene
      <4> DEFINE C == {HygieneClaim(a)}
      <4>4. C \cap claimed = {} /\ \A v \in Workers \ {w} : C \cap session[v].claims = {}
        BY <3>2 DEF NobodyHolds
      <4>5. session'[w].claims = session[w].claims \cup C
        BY <4>2
      <4> HIDE DEF C
      <4> QED BY <1>0, <4>1, <4>3, <4>4, <4>5, NewClaims
    <3> QED BY <2>1, <3>1, <3>2 DEF ClaimHygiene
  <2>2. CASE DispatchCluster(w)
    <3>1. CASE Goto(w, "dispatch_digests")
      BY <1>0, <2>2, <3>1, GotoKeepsClaims, NoNewClaim DEF DispatchCluster
    <3>2. CASE /\ ClusterClaim \notin claimed
               /\ RowIsFree(w)
               /\ session' = [session EXCEPT ![w].pc = "dispatch_digests",
                                             ![w].claims = @ \cup {ClusterClaim}]
      <4>1. \A v \in Workers \ {w} : session'[v] = session[v]
        BY <1>0, <3>2
      <4>2. session'[w].claims = session[w].claims \cup {ClusterClaim}
        BY <1>0, <3>2 DEF FitSession, Session
      <4>3. claimed' = claimed
        BY <2>2 DEF DispatchCluster
      <4> DEFINE C == {ClusterClaim}
      <4>4. C \cap claimed = {} /\ \A v \in Workers \ {w} : C \cap session[v].claims = {}
        BY <3>2 DEF RowIsFree, LocksRow
      <4>5. session'[w].claims = session[w].claims \cup C
        BY <4>2
      <4> HIDE DEF C
      <4> QED BY <1>0, <4>1, <4>3, <4>4, <4>5, NewClaims
    <3> QED BY <2>2, <3>1, <3>2 DEF DispatchCluster
  <2>3. CASE DispatchDigests(w)
    <3> DEFINE C == {DigestClaim(c) : c \in DigestsToDispatch(w)}
    <3>1. session'[w].claims = session[w].claims \cup C
      BY <1>0, <2>3 DEF DispatchDigests, FitSession, Session
    <3>2. \A v \in Workers \ {w} : session'[v] = session[v]
      BY <1>0, <2>3 DEF DispatchDigests
    <3>3. C \cap claimed = {} /\ claimed' = claimed
      BY <2>3 DEF DispatchDigests, DigestsToDispatch
    <3>4. \A v \in Workers \ {w} : C \cap session[v].claims = {}
      BY <2>3 DEF DispatchDigests, NobodyHolds
    <3> HIDE DEF C
    <3> QED BY <1>0, <3>1, <3>2, <3>3, <3>4, NewClaims
  <2>4. CASE Commit(w)
    <3>1. \A v \in Workers \ {w} : session'[v] = session[v]
      BY <1>0, <2>4 DEF Commit
    <3>2. session'[w].claims = {} /\ claimed' = claimed \cup session[w].claims
      BY <1>0, <2>4 DEF Commit, Idle
    <3> QED BY <3>1, <3>2 DEF ClaimsAreExclusive
  <2>5. CASE ~(ClaimHygiene(w) \/ DispatchCluster(w) \/ DispatchDigests(w) \/ Commit(w))
    <3>1. claimed' = claimed /\ GainsNoClaim
      BY <1>3, <2>5, OthersGainNoClaim
    <3> QED BY <3>1, NoNewClaim
  <2> QED BY <2>1, <2>2, <2>3, <2>4, <2>5
<1>4. ASSUME NEW w \in Workers, NEW m \in Message, Receive(w, m) PROVE ClaimsAreExclusive'
  <2>1. claimed' = claimed /\ GainsNoClaim
    BY <1>0, <1>4 DEF Receive, GainsNoClaim, FitSession, Session
  <2> QED BY <2>1, NoNewClaim
<1> QED BY <1>1, <1>2, <1>3, <1>4 DEF Next, Rest

(* Of all workers only one ever sends a claimed dispatch: no two of them    *)
(* hold the same claim, and a committed claim is never taken again.         *)
THEOREM ClaimsExclusive == Spec => []ClaimsAreExclusive
<1>1. Init => ClaimsAreExclusive
  BY DEF Init, Idle, ClaimsAreExclusive
<1> QED BY <1>1, TypedAlways, NextClaims, PTL DEF Spec

-----------------------------------------------------------------------------
(* No classification is lost                                                *)

(* The enqueue queries reach all that is pending: their LIMIT is never hit. *)
NoTruncation == \A S \in SUBSET Emails : Cardinality(S) <= EnqueueLimit

(* A query whose LIMIT is not hit returns all of its rows.                  *)
LEMMA PageIsAll ==
  ASSUME NoTruncation, NEW S \in SUBSET Emails, NEW T \in Page(S)
  PROVE  T = S
BY DEF NoTruncation, Page

(* A message that waits goes on waiting.                                    *)
QueueKept == \A m \in Message : queue[m] > 0 => queue'[m] > 0

(* A send puts each message of S on its queue and takes none away.          *)
LEMMA SendKeeps ==
  ASSUME queue \in [Message -> Nat], NEW S, Send(S)
  PROVE  QueueKept /\ \A m \in Message \cap S : queue'[m] > 0
BY SendType DEF QueueKept, Send

(* A redelivery puts the worker's message on its queue and takes none away. *)
LEMMA GiveBackKeeps ==
  ASSUME session \in [Workers -> FitSession], queue \in [Message -> Nat],
         NEW w \in Workers, NEW S, GiveBack(w, Sent(S)) \/ GiveBack(w, queue)
  PROVE  QueueKept /\ (session[w].msg \in Message => queue'[session[w].msg] > 0)
BY SendType, GiveBackType DEF QueueKept

(* A step of one worker leaves the other workers' sessions alone and takes  *)
(* nothing from the queues or from the run's membership.                    *)
OnlyMoves(w) ==
  /\ QueueKept
  /\ member \subseteq member'
  /\ \A v \in Workers \ {w} : session'[v] = session[v]

(* Every handler, finalizer and crash step is such a step.                  *)
LEMMA LocalStep ==
  ASSUME Typed, NEW w \in Workers, Handle(w) \/ Finalize(w) \/ Crash(w)
  PROVE  OnlyMoves(w)
<1>0. session \in [Workers -> FitSession] /\ queue \in [Message -> Nat]
  BY DEF Typed, TypeOK
<1>1. \A v \in Workers \ {w} : session'[v] = session[v]
  <2>1. \E s : session' = [session EXCEPT ![w] = s]
    <3>1. CASE Handle(w)
      BY <3>1
         DEF Handle, MarkRunRunning, HandleIngest, EnqueueUnclassified, EnqueueUnsummarized,
             HandleClassify, EnqueueSummary, ClaimHygiene, HandleSummarizeEmail, ReadCategory,
             WriteDigest, HandleTechNewsCluster, HandleUnsubscribe, Goto, GiveBack
    <3>2. CASE Finalize(w)
      BY <3>2
         DEF Finalize, LoadRun, CountUnclassified, CountSummaries, CountCluster,
             CountCategories, CountErrors, DispatchCluster, DispatchDigests, Commit, Goto
    <3>3. CASE Crash(w)
      BY <3>3 DEF Crash, GiveBack
    <3> QED BY <3>1, <3>2, <3>3
  <2> QED BY <1>0, <2>1
<1>2. QueueKept
  <2>1. CASE UNCHANGED queue
    BY <2>1 DEF QueueKept
  <2>2. CASE \E S : Send(S)
    BY <1>0, <2>2, SendKeeps
  <2>3. CASE GiveBack(w, queue) \/ \E S : GiveBack(w, Sent(S))
    BY <1>0, <2>3, GiveBackKeeps
  <2>4. CASE Handle(w)
    BY <2>1, <2>2, <2>3, <2>4
       DEF Handle, MarkRunRunning, HandleIngest, EnqueueUnclassified, EnqueueUnsummarized,
           HandleClassify, EnqueueSummary, ClaimHygiene, HandleSummarizeEmail, ReadCategory,
           WriteDigest, HandleTechNewsCluster, HandleUnsubscribe
  <2>5. CASE Finalize(w)
    BY <2>1, <2>2, <2>5
       DEF Finalize, LoadRun, CountUnclassified, CountSummaries, CountCluster,
           CountCategories, CountErrors, DispatchCluster, DispatchDigests, Commit
  <2>6. CASE Crash(w)
    BY <2>3, <2>6 DEF Crash
  <2> QED BY <2>4, <2>5, <2>6
<1>3. member \subseteq member'
  <2>1. CASE Handle(w)
    BY <2>1
       DEF Handle, MarkRunRunning, HandleIngest, EnqueueUnclassified, EnqueueUnsummarized,
           HandleClassify, EnqueueSummary, ClaimHygiene, HandleSummarizeEmail, ReadCategory,
           WriteDigest, HandleTechNewsCluster, HandleUnsubscribe
  <2>2. CASE Finalize(w)
    BY <2>2
       DEF Finalize, LoadRun, CountUnclassified, CountSummaries, CountCluster,
           CountCategories, CountErrors, DispatchCluster, DispatchDigests, Commit
  <2> QED BY <2>1, <2>2 DEF Crash
<1> QED BY <1>1, <1>2, <1>3 DEF OnlyMoves

(* What a worker's session, or a queue, still does for an unclassified e.   *)
Classifies(s, e) ==
  \/ s.msg = Classify(e) /\ s.pc \in Begun
  \/ /\ e \in member
     /\ s.msg = Ingest(AccountOf[e]) /\ s.pc \in Begun \cup {"enqueue_unclassified"}
ClassifyQueued(e) == Waits(Classify(e)) \/ (e \in member /\ Waits(Ingest(AccountOf[e])))
ClassifyCarried(e) == ClassifyQueued(e) \/ \E w \in Workers : Classifies(session[w], e)

(* The reclassify endpoint's messages precede the membership they serve.    *)
Promised == IF Trigger = "reclassify" /\ starter = "half" THEN Emails ELSE member
ClassificationInv == \A e \in Promised : label[e] = "none" => ClassifyCarried(e)

(* The inductive invariant implies the property the runs check.             *)
LEMMA ClassificationInvImplies ==
  Typed /\ ClassificationInv => ClassificationIsCarried
BY DEF Typed, TypeOK, ClassificationInv, ClassificationIsCarried, Promised, ClassifyCarried,
       ClassifyQueued, Classifies, Held

(* A message that will classify e stays on its queue.                       *)
LEMMA QueuedStays ==
  ASSUME NEW e \in Emails, QueueKept, member \subseteq member', ClassifyQueued(e)
  PROVE  ClassifyQueued(e)'
BY MessageType, AccountType DEF QueueKept, ClassifyQueued, Waits

(* A step of w keeps e carried when w goes on with it or puts it back.      *)
LEMMA CarriedStays ==
  ASSUME NEW e \in Emails, NEW w \in Workers, ClassifyCarried(e), OnlyMoves(w),
         Classifies(session[w], e) => Classifies(session[w], e)' \/ ClassifyQueued(e)'
  PROVE  ClassifyCarried(e)'
BY QueuedStays DEF ClassifyCarried, OnlyMoves, Classifies

(* A crash or a redelivery puts the worker's message back.                  *)
LEMMA GivenBack ==
  ASSUME Typed, NEW e \in Emails, NEW w \in Workers, Classifies(session[w], e),
         OnlyMoves(w), NEW S, GiveBack(w, queue) \/ GiveBack(w, Sent(S))
  PROVE  ClassifyQueued(e)'
<1>1. /\ session[w].msg \in Message
      /\ session[w].msg = Classify(e) \/ (e \in member' /\ session[w].msg = Ingest(AccountOf[e]))
  BY MessageType, AccountType DEF Classifies, OnlyMoves
<1>2. queue'[session[w].msg] > 0
  BY <1>1, GiveBackKeeps DEF Typed, TypeOK
<1> QED BY <1>1, <1>2 DEF ClassifyQueued, Waits

(* Every step of a worker keeps what is unclassified carried.               *)
LEMMA WorkerClassification ==
  ASSUME NoTruncation, Typed, NEW w \in Workers, Handle(w) \/ Finalize(w) \/ Crash(w),
         NEW e \in Emails, label[e] = "none", ClassifyCarried(e)
  PROVE  label'[e] = "none" => ClassifyCarried(e)'
<1>0. /\ OnlyMoves(w) /\ session \in [Workers -> FitSession] /\ session[w] \in Session
      /\ queue \in [Message -> Nat]
      /\ session[w].pc # "idle" => session[w].msg \in Message
  BY LocalStep DEF Typed, TypeOK, FitSession, Fits
<1> SUFFICES ASSUME Classifies(session[w], e), label'[e] = "none"
             PROVE  Classifies(session[w], e)' \/ ClassifyQueued(e)'
  BY <1>0, CarriedStays
<1>1. /\ member \subseteq member'
      /\ session[w].msg = Classify(e) =>
           session[w].msg.kind = "classify" /\ session[w].msg.email = e
      /\ session[w].msg = Ingest(AccountOf[e]) =>
           session[w].msg.kind = "ingest" /\ session[w].msg.account = AccountOf[e]
  BY <1>0 DEF Classify, Ingest, OnlyMoves
<1>2. CASE Crash(w) \/ GiveBack(w, queue)
  BY <1>0, <1>2, GivenBack DEF Crash
<1>3. CASE MarkRunRunning(w)
  BY <1>0, <1>1, <1>3 DEF MarkRunRunning, Goto, Classifies, Begun, FitSession, Session
<1>4. CASE HandleIngest(w)
  <2>1. session[w].msg = Ingest(AccountOf[e]) /\ e \in member'
    BY <1>1, <1>4 DEF HandleIngest, At, Classifies
  <2>2. CASE Goto(w, "enqueue_unclassified")
    BY <1>0, <2>1, <2>2 DEF Goto, Classifies, FitSession, Session
  <2> QED BY <1>2, <1>4, <2>2 DEF HandleIngest
<1>5. CASE EnqueueUnclassified(w)
  <2>1. /\ e \in member /\ session[w].pc = "enqueue_unclassified"
        /\ session[w].msg = Ingest(AccountOf[e])
    BY <1>5 DEF EnqueueUnclassified, Classifies, Begun
  <2>2. UnclassifiedTargets(w) \in SUBSET Emails /\ e \in UnclassifiedTargets(w)
    BY <1>1, <2>1 DEF UnclassifiedTargets, OfAccount, Typed, TypeOK
  <2>3. Send({Classify(f) : f \in UnclassifiedTargets(w)})
    BY <1>5, <2>2, PageIsAll DEF EnqueueUnclassified
  <2>4. queue'[Classify(e)] > 0
    BY <1>0, <2>2, <2>3, SendKeeps, MessageType
  <2> QED BY <2>4 DEF ClassifyQueued, Waits
<1>6. CASE HandleClassify(w)
  <2>1. session[w].msg.email = e
    BY <1>1, <1>6 DEF HandleClassify, At, Classifies
  <2>2. Verdicts[e] \subseteq Verdict /\ NeedsReview \in Verdict
    BY MailAssumption DEF NeedsReview, Verdict, Labels
  <2>3. label'[e] \in Labels
    BY <1>6, <2>1, <2>2 DEF HandleClassify, WriteVerdict, Verdict, Typed, TypeOK
  <2> QED BY <2>3, TaxonomyAssumption
<1>7. CASE ReadCategory(w) \/ HandleSummarizeEmail(w) \/ HandleTechNewsCluster(w)
           \/ HandleUnsubscribe(w)
  BY <1>1, <1>7 DEF ReadCategory, HandleSummarizeEmail, HandleTechNewsCluster,
                    HandleUnsubscribe, At, Classifies, Begun
<1>8. CASE EnqueueUnsummarized(w) \/ EnqueueSummary(w) \/ ClaimHygiene(w) \/ WriteDigest(w)
           \/ Finalize(w)
  BY <1>8 DEF EnqueueUnsummarized, EnqueueSummary, ClaimHygiene, WriteDigest, Finalize,
              LoadRun, CountUnclassified, CountSummaries, CountCluster, CountCategories,
              CountErrors, DispatchCluster, DispatchDigests, Commit, Classifies, Begun
<1> QED BY <1>2, <1>3, <1>4, <1>5, <1>6, <1>7, <1>8 DEF Handle

(* A verdict is replaced, never removed.                                    *)
LEMMA VerdictStays ==
  ASSUME Typed, NEW w \in Workers, Handle(w) \/ Finalize(w) \/ Crash(w),
         NEW e \in Emails, label[e] # "none"
  PROVE  label'[e] # "none"
<1>1. CASE HandleClassify(w)
  <2>1. session[w].msg.email \in Emails
    BY <1>1, MessageFields DEF HandleClassify, At, Typed, TypeOK, FitSession, Fits
  <2>2. NeedsReview \in Verdict /\ Verdicts[session[w].msg.email] \subseteq Verdict
    BY <2>1, MailAssumption DEF NeedsReview, Verdict, Labels
  <2>3. PICK v \in Verdict : WriteVerdict(session[w].msg.email, v)
    BY <1>1, <2>2 DEF HandleClassify
  <2>4. label'[e] \in {label[e], v.label} /\ v.label \in Labels
    BY <2>3 DEF WriteVerdict, Verdict, Typed, TypeOK
  <2> QED BY <2>4, TaxonomyAssumption
<1>2. CASE UNCHANGED label
  BY <1>2
<1> QED
  BY <1>1, <1>2
     DEF Handle, MarkRunRunning, HandleIngest, EnqueueUnclassified, EnqueueUnsummarized,
         EnqueueSummary, ClaimHygiene, HandleSummarizeEmail, ReadCategory, WriteDigest,
         HandleTechNewsCluster, HandleUnsubscribe, Finalize, LoadRun, CountUnclassified,
         CountSummaries, CountCluster, CountCategories, CountErrors, DispatchCluster,
         DispatchDigests, Commit, Crash, pipeline

(* Mail that joins the run is carried by the scan that found it.            *)
LEMMA NewMemberIsCarried ==
  ASSUME Typed, NEW w \in Workers, Handle(w) \/ Finalize(w) \/ Crash(w),
         NEW e \in Emails, e \in member', e \notin member
  PROVE  ClassifyCarried(e)'
<1>1. HandleIngest(w)
  BY DEF Handle, MarkRunRunning, EnqueueUnclassified, EnqueueUnsummarized, HandleClassify,
         EnqueueSummary, ClaimHygiene, HandleSummarizeEmail, ReadCategory, WriteDigest,
         HandleTechNewsCluster, HandleUnsubscribe, Finalize, LoadRun, CountUnclassified,
         CountSummaries, CountCluster, CountCategories, CountErrors, DispatchCluster,
         DispatchDigests, Commit, Crash
<1>2. PICK scan \in ScanResults[session[w].msg.account] :
        e \in scan /\ Goto(w, "enqueue_unclassified")
  BY <1>1 DEF HandleIngest
<1>3. /\ session \in [Workers -> FitSession] /\ session[w] \in Session
      /\ session[w].msg \in Message /\ session[w].msg.kind = "ingest"
  BY <1>1 DEF HandleIngest, At, Typed, FitSession, Fits
<1>4. session[w].msg = Ingest(AccountOf[e])
  BY <1>2, <1>3, MessageFields, MailAssumption
<1>5. session'[w].msg = Ingest(AccountOf[e]) /\ session'[w].pc = "enqueue_unclassified"
  BY <1>2, <1>3, <1>4 DEF Goto, FitSession, Session
<1> QED BY <1>5 DEF ClassifyCarried, Classifies

(* A delivery moves a message from its queue to a worker.                   *)
LEMMA ReceivedIsCarried ==
  ASSUME Typed, NEW w \in Workers, NEW m \in Message, Receive(w, m),
         NEW e \in Emails, ClassifyCarried(e)
  PROVE  ClassifyCarried(e)'
<1>1. /\ session \in [Workers -> FitSession] /\ queue \in [Message -> Nat] /\ member' = member
      /\ session[w] = Idle /\ session[w] \in Session
  BY DEF Receive, Typed, TypeOK, FitSession
<1>2. session'[w].msg = m /\ session'[w].pc \in Begun
  BY <1>1 DEF Receive, Begun, FitSession, Session
<1>3. \A v \in Workers \ {w} : session'[v] = session[v]
  BY <1>1 DEF Receive
<1>4. \A n \in Message \ {m} : queue'[n] = queue[n]
  BY <1>1 DEF Receive
<1>5. Classify(e) \in Message /\ Ingest(AccountOf[e]) \in Message
  BY MessageType, AccountType
<1>6. CASE ClassifyQueued(e)
  BY <1>1, <1>2, <1>4, <1>5, <1>6 DEF ClassifyQueued, ClassifyCarried, Classifies, Waits
<1>7. CASE \E v \in Workers : Classifies(session[v], e)
  <2>1. ~Classifies(session[w], e)
    BY <1>1 DEF Classifies, Idle, Begun
  <2> QED BY <1>1, <1>3, <1>7, <2>1 DEF ClassifyCarried, Classifies
<1> QED BY <1>6, <1>7 DEF ClassifyCarried

(* The starter's own steps.                                                 *)
LEMMA StarterClassification ==
  ASSUME Typed, ClassificationInv, Start \/ StarterCrash
  PROVE  ClassificationInv'
<1>1. /\ session' = session /\ label' = label /\ QueueKept /\ member \subseteq member'
      /\ queue \in [Message -> Nat] /\ member \in SUBSET Emails
  BY SendKeeps
     DEF Start, FanoutCommit, FanoutSend, ManualSend, ManualCommit, StarterCrash, CreateRun,
         QueueKept, pipeline, Typed, TypeOK
<1>2. \A e \in Emails : ClassifyCarried(e) => ClassifyCarried(e)'
  BY <1>1, QueuedStays DEF ClassifyCarried, Classifies
<1>3. CASE ManualSend /\ Trigger = "reclassify"
  <2>1. \A e \in Emails : queue'[Classify(e)] > 0
    BY <1>1, <1>3, SendKeeps, MessageType DEF ManualSend, StartMessages
  <2>2. \A e \in Emails : ClassifyCarried(e)'
    BY <2>1 DEF ClassifyCarried, ClassifyQueued, Waits
  <2>3. Promised' \subseteq Emails
    BY <1>1, <1>3 DEF ManualSend, Promised
  <2> QED BY <2>2, <2>3 DEF ClassificationInv
<1>4. CASE ~(ManualSend /\ Trigger = "reclassify")
  <2>1. Promised' \subseteq Promised /\ Promised \subseteq Emails
    BY <1>1, <1>4
       DEF Start, FanoutCommit, FanoutSend, ManualSend, ManualCommit, StarterCrash, CreateRun,
           Promised
  <2> QED BY <1>1, <1>2, <2>1 DEF ClassificationInv
<1> QED BY <1>3, <1>4

(* Every step of the pipeline.                                              *)
LEMMA NextClassification ==
  ASSUME NoTruncation
  PROVE  Typed /\ ClassificationInv /\ [Next]_vars => ClassificationInv'
<1> SUFFICES ASSUME Typed, ClassificationInv, [Next]_vars PROVE ClassificationInv'
  OBVIOUS
<1>0. Promised \subseteq Emails
  BY DEF Promised, Typed, TypeOK
<1>1. CASE UNCHANGED vars
  BY <1>1 DEF vars, pipeline, ClassificationInv, Promised, ClassifyCarried, ClassifyQueued,
              Classifies, Waits
<1>2. CASE Start \/ StarterCrash
  BY <1>2, StarterClassification
<1>3. ASSUME NEW w \in Workers, Handle(w) \/ Finalize(w) \/ Crash(w)
      PROVE  ClassificationInv'
  <2>1. starter' = starter
    BY <1>3
       DEF Handle, MarkRunRunning, HandleIngest, EnqueueUnclassified, EnqueueUnsummarized,
           HandleClassify, EnqueueSummary, ClaimHygiene, HandleSummarizeEmail, ReadCategory,
           WriteDigest, HandleTechNewsCluster, HandleUnsubscribe, Finalize, LoadRun,
           CountUnclassified, CountSummaries, CountCluster, CountCategories, CountErrors,
           DispatchCluster, DispatchDigests, Commit, Crash
  <2>2. Promised' \subseteq Emails
    BY <1>3, NextType DEF Promised, Typed, TypeOK, Next
  <2> SUFFICES ASSUME NEW e \in Emails, e \in Promised', label'[e] = "none"
               PROVE  ClassifyCarried(e)'
    BY <2>2 DEF ClassificationInv
  <2>3. label[e] = "none"
    BY <1>3, VerdictStays
  <2>4. CASE e \in Promised
    BY <1>3, <2>3, <2>4, WorkerClassification DEF ClassificationInv
  <2>5. CASE e \notin Promised
    BY <1>3, <2>1, <2>5, NewMemberIsCarried DEF Promised
  <2> QED BY <2>4, <2>5
<1>4. ASSUME NEW w \in Workers, NEW m \in Message, Receive(w, m)
      PROVE  ClassificationInv'
  <2>1. Promised' = Promised /\ label' = label
    BY <1>4 DEF Receive, pipeline, Promised
  <2> QED BY <1>0, <1>4, <2>1, ReceivedIsCarried DEF ClassificationInv
<1>5. ASSUME NEW m \in Message, Duplicate(m)
      PROVE  ClassificationInv'
  <2>1. Promised' = Promised /\ label' = label /\ session' = session /\ member' = member
    BY <1>5 DEF Duplicate, pipeline, Promised
  <2>2. QueueKept
    BY <1>5, SendKeeps DEF Duplicate, Typed, TypeOK
  <2> QED BY <1>0, <2>1, <2>2, QueuedStays DEF ClassificationInv, ClassifyCarried, Classifies
<1>6. ASSUME NEW e \in Emails, MarkRead(e)
      PROVE  ClassificationInv'
  BY <1>6 DEF MarkRead, pipeline, ClassificationInv, Promised, ClassifyCarried, ClassifyQueued,
              Classifies, Waits
<1> QED BY <1>1, <1>2, <1>3, <1>4, <1>5, <1>6 DEF Next, Rest

(* As long as no enqueue query is cut off by its LIMIT, every unclassified  *)
(* email of a run has a message that will classify it, whatever crashes,    *)
(* duplicates and interleavings there are.                                  *)
THEOREM ClassificationCarried ==
  ASSUME NoTruncation
  PROVE  Spec => []ClassificationIsCarried
<1>1. Init => ClassificationInv
  BY DEF Init, ClassificationInv, Promised
<1>2. Typed /\ ClassificationInv /\ [Next]_vars => ClassificationInv'
  BY NextClassification
<1> QED BY <1>1, <1>2, TypedAlways, ClassificationInvImplies, PTL DEF Spec

-----------------------------------------------------------------------------
(* No summary is lost: runs that a scan starts                              *)

Summarizes(s, e) ==
  \/ s.msg = SummarizeEmail(e) /\ s.pc \in Begun
  \/ s.msg = Classify(e) /\ s.pc \in Begun \cup {"enqueue_summary"}
  \/ /\ s.msg = Ingest(AccountOf[e])
     /\ s.pc \in Begun \cup {"enqueue_unclassified", "enqueue_unsummarized"}
SummaryQueued(e) ==
  Waits(SummarizeEmail(e)) \/ Waits(Classify(e)) \/ Waits(Ingest(AccountOf[e]))
SummaryCarried(e) == SummaryQueued(e) \/ \E w \in Workers : Summarizes(session[w], e)

(* A scan stamps the membership before it asks for classifications: what is *)
(* classified, or on its way to be, belongs to the run.                     *)
Named(e) ==
  \/ label[e] # "none" \/ e \in newsletters
  \/ Waits(Classify(e)) \/ \E w \in Workers : session[w].msg = Classify(e)
MembersFirst == \A e \in Emails : Named(e) => e \in member

SummaryInv == MembersFirst /\ \A e \in PendingSummaries : SummaryCarried(e)

(* The inductive invariant implies the property the runs check.             *)
LEMMA SummaryInvImplies == Typed /\ SummaryInv => SummaryIsCarried
BY DEF SummaryInv, SummaryIsCarried, SummaryCarried, SummaryQueued, Summarizes, Held

(* Only an email of the run is sent to the classifier.                      *)
LEMMA WorkerNames ==
  ASSUME Typed, MembersFirst, NEW w \in Workers, Handle(w) \/ Finalize(w) \/ Crash(w)
  PROVE  MembersFirst'
<1>0. /\ OnlyMoves(w) /\ session \in [Workers -> FitSession] /\ session[w] \in Session
      /\ queue \in [Message -> Nat] /\ label \in [Emails -> Labels \cup {"none"}]
      /\ session[w].pc # "idle" => session[w].msg \in Message
  BY LocalStep DEF Typed, TypeOK, FitSession, Fits
<1> SUFFICES ASSUME NEW e \in Emails, e \notin member, e \notin member'
             PROVE  ~Named(e)'
  BY <1>0 DEF MembersFirst, OnlyMoves
<1>1. ~Named(e)
  BY DEF MembersFirst
<1>2. session[w].msg # Classify(e)
  BY <1>1 DEF Named
<1>3. session'[w].msg # Classify(e)
  <2>1. session'[w].msg \in {session[w].msg, NoMessage}
    <3>1. CASE (\E pc : Goto(w, pc)) \/ session' = [session EXCEPT ![w] = Idle]
      BY <1>0, <3>1 DEF Goto, Idle, FitSession, Session
    <3>2. CASE Handle(w)
      <4>1. \/ \E pc : Goto(w, pc)
            \/ session' = [session EXCEPT ![w] = Idle]
            \/ \E C : session' = [session EXCEPT ![w].pc = "load_run", ![w].claims = C]
            \/ \E I : session' = [session EXCEPT ![w].pc = "write_digest", ![w].items = I]
        BY <3>2
           DEF Handle, MarkRunRunning, HandleIngest, EnqueueUnclassified, EnqueueUnsummarized,
               HandleClassify, EnqueueSummary, ClaimHygiene, HandleSummarizeEmail,
               ReadCategory, WriteDigest, HandleTechNewsCluster, HandleUnsubscribe, GiveBack
      <4> QED BY <1>0, <3>1, <4>1 DEF FitSession, Session
    <3>3. CASE Finalize(w)
      BY <1>0, <3>1, <3>3
         DEF Finalize, LoadRun, CountUnclassified, CountSummaries, CountCluster,
             CountCategories, CountErrors, DispatchCluster, DispatchDigests, Commit,
             FitSession, Session
    <3>4. CASE Crash(w)
      BY <3>1, <3>4 DEF Crash, GiveBack
    <3> QED BY <3>2, <3>3, <3>4
  <2>2. NoMessage # Classify(e)
    BY MessageType, NoMessageAssumption
  <2> QED BY <1>2, <2>1, <2>2
<1>4. \A v \in Workers : session'[v].msg # Classify(e)
  BY <1>0, <1>1, <1>3 DEF OnlyMoves, Named
<1>5. label'[e] = "none" /\ e \notin newsletters'
  <2>1. CASE HandleClassify(w)
    <3>1. session[w].msg.email # e
      BY <1>0, <1>2, <2>1, MessageFields DEF HandleClassify, At
    <3>2. PICK v : WriteVerdict(session[w].msg.email, v)
      BY <2>1 DEF HandleClassify
    <3> QED BY <1>0, <1>1, <3>1, <3>2 DEF WriteVerdict, Named
  <2>2. CASE UNCHANGED <<label, newsletters>>
    BY <1>1, <2>2 DEF Named
  <2> QED
    BY <2>1, <2>2
       DEF Handle, MarkRunRunning, HandleIngest, EnqueueUnclassified, EnqueueUnsummarized,
           EnqueueSummary, ClaimHygiene, HandleSummarizeEmail, ReadCategory, WriteDigest,
           HandleTechNewsCluster, HandleUnsubscribe, Finalize, LoadRun, CountUnclassified,
           CountSummaries, CountCluster, CountCategories, CountErrors, DispatchCluster,
           DispatchDigests, Commit, Crash, pipeline
<1>6. queue'[Classify(e)] = 0
  <2>0. queue[Classify(e)] = 0 /\ Classify(e) \in Message
    BY <1>0, <1>1, MessageType DEF Named, Waits
  <2>1. ASSUME NEW S, Classify(e) \notin S, Send(S) \/ UNCHANGED queue \/ GiveBack(w, queue)
                                              \/ GiveBack(w, Sent(S))
        PROVE  queue'[Classify(e)] = 0
    BY <1>0, <1>2, <2>0, <2>1, SendType DEF Send, Sent, GiveBack
  <2>2. Classify(e) \notin {Classify(f) : f \in UnclassifiedTargets(w)}
    BY DEF Classify, UnclassifiedTargets, OfAccount
  <2>3. /\ \A S : Classify(e) \notin {SummarizeEmail(f) : f \in S}
        /\ \A S : Classify(e) \notin {CategoryDigest(c) : c \in S}
        /\ \A a : Classify(e) \notin {Hygiene(a)}
        /\ \A S : Classify(e) \notin {TechNewsCluster(S)}
    BY DEF Classify, SummarizeEmail, CategoryDigest, Hygiene, TechNewsCluster
  <2>4. CASE EnqueueUnclassified(w)
    <3>1. PICK T \in Page(UnclassifiedTargets(w)) : Send({Classify(f) : f \in T})
      BY <2>4 DEF EnqueueUnclassified
    <3>2. Classify(e) \notin {Classify(f) : f \in T}
      BY <3>1 DEF Page, Classify, UnclassifiedTargets, OfAccount
    <3> QED BY <2>1, <3>1, <3>2
  <2>5. CASE Crash(w)
    <3>1. Classify(e) \notin Sending(w)
      BY <2>2, <2>3 DEF Sending
    <3>2. PICK T \in SUBSET Sending(w) : GiveBack(w, Sent(T))
      BY <2>5 DEF Crash
    <3> QED BY <2>1, <3>1, <3>2
  <2>6. CASE Handle(w) /\ ~EnqueueUnclassified(w)
    BY <2>1, <2>3, <2>6, Classify(e) \notin {}
       DEF Handle, MarkRunRunning, HandleIngest, EnqueueUnsummarized, HandleClassify,
           EnqueueSummary, ClaimHygiene, HandleSummarizeEmail, ReadCategory, WriteDigest,
           HandleTechNewsCluster, HandleUnsubscribe
  <2>7. CASE Finalize(w)
    BY <2>1, <2>3, <2>7, Classify(e) \notin {}
       DEF Finalize, LoadRun, CountUnclassified, CountSummaries, CountCluster,
           CountCategories, CountErrors, DispatchCluster, DispatchDigests, Commit
  <2> QED BY <2>4, <2>5, <2>6, <2>7
<1> QED BY <1>4, <1>5, <1>6 DEF Named, Waits

(* A message that will summarize e stays on its queue.                      *)
LEMMA SummaryQueuedStays ==
  ASSUME NEW e \in Emails, QueueKept, SummaryQueued(e)
  PROVE  SummaryQueued(e)'
BY MessageType, AccountType DEF QueueKept, SummaryQueued, Waits

(* The work that is pending after a worker's step was pending before it, or *)
(* this step classified the email.                                          *)
LEMMA WherePendingComesFrom ==
  ASSUME Typed, MembersFirst, NEW w \in Workers, Handle(w) \/ Finalize(w) \/ Crash(w),
         NEW e \in Emails, e \in PendingSummaries'
  PROVE  \/ e \in PendingSummaries
         \/ HandleClassify(w) /\ session[w].msg = Classify(e)
<1>1. CASE HandleClassify(w)
  <2>1. /\ session[w].msg \in Message /\ session[w].msg.kind = "classify"
        /\ label \in [Emails -> Labels \cup {"none"}]
    BY <1>1 DEF HandleClassify, At, Typed, TypeOK, FitSession, Fits
  <2>2. session[w].msg.email \in Emails /\ session[w].msg = Classify(session[w].msg.email)
    BY <2>1, MessageFields
  <2>3. CASE session[w].msg.email # e
    <3>1. PICK v : WriteVerdict(session[w].msg.email, v)
      BY <1>1 DEF HandleClassify
    <3>2. label'[e] = label[e] /\ (e \in newsletters' <=> e \in newsletters)
      BY <2>1, <2>3, <3>1 DEF WriteVerdict
    <3>3. /\ member' = member /\ unread' = unread
          /\ summarized' = summarized /\ failed \subseteq failed'
      BY <1>1 DEF HandleClassify
    <3> QED BY <3>2, <3>3 DEF PendingSummaries, AwaitingSummary, NeedsSummary
  <2> QED BY <1>1, <2>2, <2>3
<1>2. CASE HandleIngest(w)
  <2>1. pipeline' = pipeline /\ unread' = unread
    BY <1>2 DEF HandleIngest, pipeline
  <2>2. label[e] # "none" \/ e \in newsletters
    BY <2>1, TaxonomyAssumption
       DEF PendingSummaries, AwaitingSummary, NeedsSummary, pipeline, Labels
  <2>3. e \in member
    BY <2>2 DEF MembersFirst, Named
  <2> QED BY <2>1, <2>3 DEF PendingSummaries, AwaitingSummary, NeedsSummary, pipeline
<1>3. CASE /\ UNCHANGED <<member, unread, label, newsletters>>
           /\ summarized \subseteq summarized' /\ failed \subseteq failed'
  BY <1>3 DEF PendingSummaries, AwaitingSummary, NeedsSummary
<1>4. CASE Handle(w)
  BY <1>1, <1>2, <1>3, <1>4
     DEF Handle, MarkRunRunning, EnqueueUnclassified, EnqueueUnsummarized, EnqueueSummary,
         ClaimHygiene, HandleSummarizeEmail, ReadCategory, WriteDigest,
         HandleTechNewsCluster, HandleUnsubscribe, pipeline
<1>5. CASE Finalize(w) \/ Crash(w)
  BY <1>3, <1>5
     DEF Finalize, LoadRun, CountUnclassified, CountSummaries, CountCluster, CountCategories,
         CountErrors, DispatchCluster, DispatchDigests, Commit, Crash, pipeline
<1> QED BY <1>4, <1>5

(* A worker's step leaves the work that is still pending carried.           *)
LEMMA WorkerSummary ==
  ASSUME NoTruncation, Typed, SummaryInv, NEW w \in Workers,
         Handle(w) \/ Finalize(w) \/ Crash(w), NEW e \in Emails, e \in PendingSummaries'
  PROVE  SummaryCarried(e)'
<1>0. /\ OnlyMoves(w) /\ session \in [Workers -> FitSession] /\ session[w] \in Session
      /\ queue \in [Message -> Nat] /\ MembersFirst /\ member \in SUBSET Emails
  BY LocalStep DEF Typed, TypeOK, FitSession, SummaryInv
<1>1. /\ session[w].msg = SummarizeEmail(e) =>
           session[w].msg.kind = "summarize_email" /\ session[w].msg.email = e
      /\ session[w].msg = Classify(e) =>
           session[w].msg.kind = "classify" /\ session[w].msg.email = e
      /\ session[w].msg = Ingest(AccountOf[e]) =>
           session[w].msg.kind = "ingest" /\ session[w].msg.account = AccountOf[e]
  BY DEF SummarizeEmail, Classify, Ingest
<1>2. CASE HandleClassify(w) /\ session[w].msg = Classify(e)
  <2>1. session'[w].msg = Classify(e) /\ session'[w].pc = "enqueue_summary"
    BY <1>0, <1>2 DEF HandleClassify, Goto, FitSession, Session
  <2> QED BY <2>1 DEF SummaryCarried, Summarizes
<1>3. CASE e \in PendingSummaries /\ ~Summarizes(session[w], e)
  BY <1>0, <1>3, SummaryQueuedStays DEF SummaryInv, SummaryCarried, Summarizes, OnlyMoves
<1>4. CASE /\ e \in PendingSummaries /\ Summarizes(session[w], e)
           /\ ~(HandleClassify(w) /\ session[w].msg = Classify(e))
  <2>1. CASE Crash(w) \/ GiveBack(w, queue)
    <3>1. /\ session[w].msg \in Message
          /\ session[w].msg \in {SummarizeEmail(e), Classify(e), Ingest(AccountOf[e])}
      BY <1>4, MessageType, AccountType DEF Summarizes
    <3>2. queue'[session[w].msg] > 0
      BY <1>0, <2>1, <3>1, GiveBackKeeps DEF Crash
    <3> QED BY <3>1, <3>2 DEF SummaryCarried, SummaryQueued, Waits
  <2>2. CASE MarkRunRunning(w) \/ EnqueueUnclassified(w)
             \/ (HandleIngest(w) /\ Goto(w, "enqueue_unclassified"))
    <3>1. Summarizes(session[w], e)'
      BY <1>0, <1>1, <1>4, <2>2
         DEF MarkRunRunning, EnqueueUnclassified, HandleIngest, At, Goto, Summarizes, Begun,
             FitSession, Session
    <3> QED BY <3>1 DEF SummaryCarried
  <2>3. CASE EnqueueUnsummarized(w)
    <3>1. session[w].msg.account = AccountOf[e]
      BY <1>1, <1>4, <2>3 DEF EnqueueUnsummarized, Summarizes, Begun
    <3>2. SummaryTargets(w) \in SUBSET Emails /\ e \in SummaryTargets(w)
      BY <1>0, <1>4, <3>1 DEF SummaryTargets, OfAccount, PendingSummaries, AwaitingSummary
    <3>3. Send({SummarizeEmail(f) : f \in SummaryTargets(w)})
      BY <2>3, <3>2, PageIsAll DEF EnqueueUnsummarized
    <3>4. queue'[SummarizeEmail(e)] > 0
      BY <1>0, <3>2, <3>3, SendKeeps, MessageType
    <3> QED BY <3>4 DEF SummaryCarried, SummaryQueued, Waits
  <2>4. CASE EnqueueSummary(w)
    <3>1. session[w].msg.email = e
      BY <1>1, <1>4, <2>4 DEF EnqueueSummary, Summarizes, Begun
    <3>2. e \in AwaitingSummary \cap {session[w].msg.email}
      BY <1>4, <3>1 DEF PendingSummaries
    <3>3. queue'[SummarizeEmail(e)] > 0
      BY <1>0, <2>4, <3>2, SendKeeps, MessageType DEF EnqueueSummary
    <3> QED BY <3>3 DEF SummaryCarried, SummaryQueued, Waits
  <2>5. CASE HandleSummarizeEmail(w)
    <3>1. session[w].msg.email = e
      BY <1>1, <1>4, <2>5 DEF HandleSummarizeEmail, At, Summarizes
    <3>2. e \in summarized' \cup failed'
      BY <2>5, <3>1 DEF HandleSummarizeEmail
    <3> QED BY <3>2 DEF PendingSummaries, AwaitingSummary
  <2>6. CASE HandleClassify(w)
    BY <1>1, <1>4, <2>6 DEF HandleClassify, At, Summarizes
  <2>7. CASE ReadCategory(w) \/ HandleTechNewsCluster(w) \/ HandleUnsubscribe(w)
    BY <1>1, <1>4, <2>7 DEF ReadCategory, HandleTechNewsCluster, HandleUnsubscribe, At,
                            Summarizes, Begun
  <2>8. CASE ClaimHygiene(w) \/ WriteDigest(w) \/ Finalize(w)
    BY <1>4, <2>8
       DEF ClaimHygiene, WriteDigest, Finalize, LoadRun, CountUnclassified, CountSummaries,
           CountCluster, CountCategories, CountErrors, DispatchCluster, DispatchDigests,
           Commit, Summarizes, Begun
  <2>9. CASE HandleIngest(w)
    BY <2>1, <2>2, <2>9 DEF HandleIngest
  <2> QED BY <2>1, <2>2, <2>3, <2>4, <2>5, <2>6, <2>7, <2>8, <2>9 DEF Handle
<1> QED BY <1>0, <1>2, <1>3, <1>4, WherePendingComesFrom

(* Only mail of the run is ever classified, or asked to be: a scan joins    *)
(* the run before its messages are sent.                                    *)
LEMMA NextMembers ==
  ASSUME Trigger # "reclassify"
  PROVE  Typed /\ MembersFirst /\ [Next]_vars => MembersFirst'
<1> SUFFICES ASSUME Typed, MembersFirst, [Next]_vars PROVE MembersFirst'
  OBVIOUS
<1>0. queue \in [Message -> Nat] /\ \A e \in Emails : Classify(e) \in Message
  BY MessageType DEF Typed, TypeOK
<1>1. CASE UNCHANGED vars \/ \E e \in Emails : MarkRead(e)
  BY <1>1 DEF vars, MarkRead, pipeline, MembersFirst, Named, Waits
<1>2. CASE Start \/ StarterCrash
  <2>1. /\ session' = session /\ label' = label /\ newsletters' = newsletters
        /\ member' = member
    BY <1>2 DEF Start, FanoutCommit, FanoutSend, ManualSend, ManualCommit, StarterCrash,
                CreateRun, pipeline
  <2>2. \E S \in SUBSET StartMessages : Send(S) \/ UNCHANGED queue
    BY <1>2 DEF Start, FanoutCommit, FanoutSend, ManualSend, ManualCommit, StarterCrash
  <2>3. ASSUME NEW e \in Emails PROVE queue'[Classify(e)] > 0 => queue[Classify(e)] > 0
    <3>1. Classify(e) \notin StartMessages
      BY DEF StartMessages, Classify, Ingest
    <3> QED BY <1>0, <2>2, <3>1 DEF Send, Sent
  <2> QED BY <2>1, <2>3 DEF MembersFirst, Named, Waits
<1>3. ASSUME NEW w \in Workers, Handle(w) \/ Finalize(w) \/ Crash(w) PROVE MembersFirst'
  BY <1>3, WorkerNames
<1>4. ASSUME NEW w \in Workers, NEW m \in Message, Receive(w, m) PROVE MembersFirst'
  <2>1. /\ session \in [Workers -> FitSession] /\ session[w] = Idle /\ session[w] \in Session
        /\ member' = member /\ label' = label /\ newsletters' = newsletters
    BY <1>4 DEF Receive, Typed, FitSession, pipeline
  <2>2. /\ queue[m] > 0 /\ queue'[m] = queue[m] - 1
        /\ \A n \in Message \ {m} : queue'[n] = queue[n]
    BY <1>0, <1>4 DEF Receive
  <2>3. session'[w].msg = m /\ \A v \in Workers \ {w} : session'[v] = session[v]
    BY <1>4, <2>1 DEF Receive, FitSession, Session
  <2> SUFFICES ASSUME NEW e \in Emails, Named(e)' PROVE Named(e)
    BY <2>1 DEF MembersFirst
  <2>4. CASE Waits(Classify(e))'
    BY <1>0, <2>2, <2>4 DEF Named, Waits
  <2>5. CASE \E v \in Workers : session'[v].msg = Classify(e)
    BY <2>2, <2>3, <2>5 DEF Named, Waits
  <2> QED BY <2>1, <2>4, <2>5 DEF Named
<1>5. ASSUME NEW m \in Message, Duplicate(m) PROVE MembersFirst'
  <2>1. /\ session' = session /\ label' = label /\ newsletters' = newsletters
        /\ member' = member
    BY <1>5 DEF Duplicate, pipeline
  <2>2. \A e \in Emails : Named(e)' => Named(e)
    BY <1>0, <1>5, <2>1 DEF Duplicate, Send, Sent, Named, Waits
  <2> QED BY <2>1, <2>2 DEF MembersFirst
<1> QED BY <1>1, <1>2, <1>3, <1>4, <1>5 DEF Next, Rest

(* Before the run nothing is named.                                         *)
LEMMA StartsMembers ==
  ASSUME Trigger # "reclassify", Init
  PROVE  MembersFirst
<1>1. \A e \in Emails : label[e] = "none" /\ e \notin newsletters /\ queue[Classify(e)] = 0
  BY MessageType DEF Init, InitPipeline
<1>2. \A w \in Workers : \A e \in Emails : session[w].msg # Classify(e)
  BY MessageType, NoMessageAssumption DEF Init, Idle
<1> QED BY <1>1, <1>2 DEF MembersFirst, Named, Waits

(* A delivery, once more, moves a message from its queue to a worker.       *)
LEMMA ReceivedSummary ==
  ASSUME Typed, SummaryInv, NEW w \in Workers, NEW m \in Message, Receive(w, m)
  PROVE  \A e \in PendingSummaries' : SummaryCarried(e)'
<1>1. /\ session \in [Workers -> FitSession] /\ queue \in [Message -> Nat]
      /\ session[w] = Idle /\ session[w] \in Session
      /\ PendingSummaries' = PendingSummaries /\ PendingSummaries \subseteq Emails
  BY DEF Receive, Typed, TypeOK, FitSession, pipeline, PendingSummaries, AwaitingSummary,
         NeedsSummary
<1>2. session'[w].msg = m /\ session'[w].pc \in Begun
  BY <1>1 DEF Receive, Begun, FitSession, Session
<1>3. \A v \in Workers \ {w} : session'[v] = session[v]
  BY <1>1 DEF Receive
<1>4. queue[m] > 0 /\ queue'[m] = queue[m] - 1 /\ \A n \in Message \ {m} : queue'[n] = queue[n]
  BY <1>1 DEF Receive
<1>6. ASSUME NEW e \in PendingSummaries
      PROVE  SummaryCarried(e)'
  <2>1. SummarizeEmail(e) \in Message /\ Classify(e) \in Message /\ Ingest(AccountOf[e]) \in Message
    BY <1>1, MessageType, AccountType
  <2>2. CASE SummaryQueued(e)
    BY <1>2, <1>4, <2>1, <2>2 DEF SummaryQueued, SummaryCarried, Summarizes, Waits
  <2>3. CASE \E v \in Workers : Summarizes(session[v], e)
    <3>1. ~Summarizes(session[w], e)
      BY <1>1 DEF Summarizes, Idle, Begun
    <3> QED BY <1>3, <2>3, <3>1 DEF SummaryCarried, Summarizes
  <2> QED BY <2>2, <2>3 DEF SummaryInv, SummaryCarried
<1> QED BY <1>1, <1>6

(* A starter that scans, or a duplicate, takes nothing away.                *)
LEMMA OthersSummary ==
  ASSUME Typed, SummaryInv, Trigger # "reclassify",
         Start \/ StarterCrash \/ \E m \in Message : Duplicate(m)
  PROVE  \A e \in PendingSummaries' : SummaryCarried(e)'
<1>1. /\ session' = session /\ label' = label /\ newsletters' = newsletters
      /\ member' = member /\ PendingSummaries' = PendingSummaries
      /\ PendingSummaries \subseteq Emails /\ queue \in [Message -> Nat]
  BY DEF Start, FanoutCommit, FanoutSend, ManualSend, ManualCommit, StarterCrash, Duplicate,
         CreateRun, pipeline, PendingSummaries, AwaitingSummary, NeedsSummary, Typed, TypeOK
<1>2. UNCHANGED queue \/ \E S : Send(S)
  BY Zenon DEF Start, FanoutCommit, FanoutSend, ManualSend, ManualCommit, StarterCrash, Duplicate
<1>3. QueueKept
  BY <1>1, <1>2, SendKeeps DEF QueueKept
<1>4. \A e \in PendingSummaries : SummaryCarried(e)'
  BY <1>1, <1>3, SummaryQueuedStays DEF SummaryInv, SummaryCarried, Summarizes
<1> QED BY <1>1, <1>4

(* Every step of a pipeline that a scan starts.                             *)
LEMMA NextSummary ==
  ASSUME NoTruncation, Trigger # "reclassify"
  PROVE  Typed /\ SummaryInv /\ [Next]_vars => SummaryInv'
<1> SUFFICES ASSUME Typed, SummaryInv, [Next]_vars PROVE SummaryInv'
  OBVIOUS
<1>0. MembersFirst'
  BY NextMembers DEF SummaryInv
<1>1. CASE UNCHANGED vars
  BY <1>1 DEF vars, pipeline, SummaryInv, MembersFirst, Named, PendingSummaries,
              AwaitingSummary, NeedsSummary, SummaryCarried, SummaryQueued, Summarizes, Waits
<1>2. CASE Start \/ StarterCrash \/ \E m \in Message : Duplicate(m)
  BY <1>0, <1>2, OthersSummary DEF SummaryInv
<1>3. ASSUME NEW w \in Workers, Handle(w) \/ Finalize(w) \/ Crash(w) PROVE SummaryInv'
  <2>1. PendingSummaries' \subseteq Emails
    BY <1>3, NextType DEF PendingSummaries, AwaitingSummary, Typed, TypeOK, Next
  <2> QED BY <1>0, <1>3, <2>1, WorkerSummary DEF SummaryInv
<1>4. ASSUME NEW w \in Workers, NEW m \in Message, Receive(w, m) PROVE SummaryInv'
  BY <1>0, <1>4, ReceivedSummary DEF SummaryInv
<1>5. ASSUME NEW e \in Emails, MarkRead(e) PROVE SummaryInv'
  <2>1. /\ session' = session /\ queue' = queue /\ label' = label /\ newsletters' = newsletters
        /\ member' = member /\ PendingSummaries' \subseteq PendingSummaries
    BY <1>5 DEF MarkRead, pipeline, PendingSummaries, AwaitingSummary, NeedsSummary
  <2> QED BY <2>1 DEF SummaryInv, MembersFirst, Named, SummaryCarried, SummaryQueued,
                      Summarizes, Waits
<1> QED BY <1>1, <1>2, <1>3, <1>4, <1>5 DEF Next, Rest

(* In a run that a scan starts, every summary still owed has a message that *)
(* will write it or record why it could not.                                *)
THEOREM SummaryCarriedAlways ==
  ASSUME NoTruncation, Trigger # "reclassify"
  PROVE  Spec => []SummaryIsCarried
<1>1. ASSUME Init PROVE SummaryInv
  <2>1. PendingSummaries = {}
    BY <1>1 DEF Init, PendingSummaries, AwaitingSummary
  <2>2. label = [e \in Emails |-> "none"] /\ newsletters = {}
    BY <1>1 DEF Init, InitPipeline
  <2>3. \A e \in Emails : ~Waits(Classify(e)) /\ \A w \in Workers : session[w].msg # Classify(e)
    BY <1>1, MessageType, NoMessageAssumption DEF Init, Waits, Idle
  <2> QED BY <2>1, <2>2, <2>3 DEF SummaryInv, MembersFirst, Named
<1>2. Typed /\ SummaryInv /\ [Next]_vars => SummaryInv'
  BY NextSummary
<1> QED BY <1>1, <1>2, TypedAlways, SummaryInvImplies, PTL DEF Spec

-----------------------------------------------------------------------------
(* No claimed digest is lost: verdicts that stay, and no reader             *)

(* Whenever an email is judged it gets the same label: the rules and the    *)
(* model agree with themselves, and no exhausted provider chain overrules   *)
(* them.                                                                    *)
StableVerdicts ==
  /\ ~ProvidersMayFail
  /\ \A e \in Emails : \A u, v \in Verdicts[e] : u.label = v.label

(* A label is what the rules or the model answer for the email.             *)
Judged == \A e \in Emails : label[e] # "none" => \E v \in Verdicts[e] : label[e] = v.label

(* What still writes the digest of c, or has written it.                    *)
WritesDigest(s, c) == s.msg = CategoryDigest(c) /\ s.pc \in Begun \cup {"write_digest"}
DigestCarried(c) ==
  \/ digest[c] # NoDigest
  \/ Waits(CategoryDigest(c))
  \/ \E w \in Workers : WritesDigest(session[w], c)

(* The digest of c is claimed, committed or not.                            *)
Dispatched(c) ==
  DigestClaim(c) \in claimed \/ \E w \in Workers : DigestClaim(c) \in session[w].claims

(* A claimed category has items from the dispatch on, which is why its      *)
(* record can neither be acknowledged without a row nor write an empty one. *)
WritesItems == \A w \in Workers : session[w].pc = "write_digest" => session[w].items # {}
DispatchedInv ==
  \A c \in Categories : Dispatched(c) => CategoryItems(c) # {} /\ DigestCarried(c)
DigestInv == Judged /\ unread = Emails /\ WritesItems /\ DispatchedInv

(* A digest is claimed only at its dispatch.                                *)
LEMMA WhereClaimComesFrom ==
  ASSUME Typed, NEW w \in Workers, Handle(w) \/ Finalize(w) \/ Crash(w),
         NEW c \in Categories, Dispatched(c)'
  PROVE  Dispatched(c) \/ (DispatchDigests(w) /\ c \in DigestsToDispatch(w))
<1>0. /\ session \in [Workers -> FitSession]
      /\ \A v \in Workers : session[v] \in Session
      /\ \A v \in Workers \ {w} : session'[v] = session[v]
  BY LocalStep DEF Typed, FitSession, OnlyMoves
<1>1. DigestClaim(c) # ClusterClaim /\ \A a : DigestClaim(c) # HygieneClaim(a)
  BY DEF DigestClaim, ClusterClaim, HygieneClaim
<1>2. CASE ClaimHygiene(w)
  <2>1. claimed' = claimed
    BY <1>2 DEF ClaimHygiene
  <2>2. \E a : session'[w].claims \in {session[w].claims, session[w].claims \cup {HygieneClaim(a)}}
    BY <1>0, <1>2 DEF ClaimHygiene, Goto, Session
  <2> QED BY <1>0, <1>1, <2>1, <2>2 DEF Dispatched
<1>3. CASE DispatchCluster(w)
  <2>1. claimed' = claimed
    BY <1>3 DEF DispatchCluster
  <2>2. session'[w].claims \in {session[w].claims, session[w].claims \cup {ClusterClaim}}
    BY <1>0, <1>3 DEF DispatchCluster, Goto, Session
  <2> QED BY <1>0, <1>1, <2>1, <2>2 DEF Dispatched
<1>4. CASE DispatchDigests(w)
  <2>1. claimed' = claimed
    BY <1>4 DEF DispatchDigests
  <2>2. session'[w].claims = session[w].claims \cup {DigestClaim(d) : d \in DigestsToDispatch(w)}
    BY <1>0, <1>4 DEF DispatchDigests, Session
  <2>3. \A d : DigestClaim(d) = DigestClaim(c) => d = c
    BY DEF DigestClaim
  <2> QED BY <1>0, <1>4, <2>1, <2>2, <2>3 DEF Dispatched
<1>5. CASE Commit(w)
  <2>1. claimed' = claimed \cup session[w].claims /\ session'[w].claims = {}
    BY <1>0, <1>5 DEF Commit, Idle
  <2> QED BY <1>0, <2>1 DEF Dispatched
<1>6. CASE ~(ClaimHygiene(w) \/ DispatchCluster(w) \/ DispatchDigests(w) \/ Commit(w))
  <2>1. claimed' = claimed /\ GainsNoClaim
    BY <1>6, OthersGainNoClaim
  <2> QED BY <2>1 DEF GainsNoClaim, Dispatched
<1> QED BY <1>2, <1>3, <1>4, <1>5, <1>6

(* Summaries are never taken back by a worker.                              *)
LEMMA SummariesStay ==
  ASSUME NEW w \in Workers, Handle(w) \/ Finalize(w) \/ Crash(w)
  PROVE  summarized \subseteq summarized' /\ unread' = unread
<1>1. CASE Handle(w)
  BY <1>1
     DEF Handle, MarkRunRunning, HandleIngest, EnqueueUnclassified, EnqueueUnsummarized,
         HandleClassify, EnqueueSummary, ClaimHygiene, HandleSummarizeEmail, ReadCategory,
         WriteDigest, HandleTechNewsCluster, HandleUnsubscribe, pipeline
<1>2. CASE Finalize(w) \/ Crash(w)
  BY <1>2
     DEF Finalize, LoadRun, CountUnclassified, CountSummaries, CountCluster, CountCategories,
         CountErrors, DispatchCluster, DispatchDigests, Commit, Crash, pipeline
<1> QED BY <1>1, <1>2

(* Only the classifier changes a verdict.                                   *)
LEMMA OthersKeepLabels ==
  ASSUME NEW w \in Workers, Handle(w) \/ Finalize(w) \/ Crash(w), ~HandleClassify(w)
  PROVE  label' = label /\ newsletters' = newsletters
<1>1. CASE Handle(w)
  BY <1>1
     DEF Handle, MarkRunRunning, HandleIngest, EnqueueUnclassified, EnqueueUnsummarized,
         EnqueueSummary, ClaimHygiene, HandleSummarizeEmail, ReadCategory,
         WriteDigest, HandleTechNewsCluster, HandleUnsubscribe, pipeline
<1>2. CASE Finalize(w) \/ Crash(w)
  BY <1>2
     DEF Finalize, LoadRun, CountUnclassified, CountSummaries, CountCluster, CountCategories,
         CountErrors, DispatchCluster, DispatchDigests, Commit, Crash, pipeline
<1> QED BY <1>1, <1>2

(* A verdict, once there, keeps its label.                                  *)
LabelsKept == \A e \in Emails : label[e] # "none" => label'[e] = label[e]

LEMMA LabelsStay ==
  ASSUME StableVerdicts, Typed, Judged, NEW w \in Workers,
         Handle(w) \/ Finalize(w) \/ Crash(w)
  PROVE  Judged' /\ LabelsKept
<1>1. CASE HandleClassify(w)
  <2> DEFINE f == session[w].msg.email
  <2>1. f \in Emails /\ label \in [Emails -> Labels \cup {"none"}]
    BY <1>1, MessageFields DEF HandleClassify, At, Typed, TypeOK, FitSession, Fits
  <2>2. PICK v \in Verdicts[f] : WriteVerdict(f, v)
    BY <1>1 DEF HandleClassify, StableVerdicts
  <2>3. label' = [label EXCEPT ![f] = v.label]
    BY <2>2 DEF WriteVerdict
  <2> QED BY <2>1, <2>2, <2>3 DEF Judged, StableVerdicts, LabelsKept
<1>2. CASE ~HandleClassify(w)
  BY <1>2, OthersKeepLabels DEF Judged, LabelsKept
<1> QED BY <1>1, <1>2

(* A category only gains items.                                             *)
LEMMA ItemsStay ==
  ASSUME Typed, LabelsKept, NEW w \in Workers, Handle(w) \/ Finalize(w) \/ Crash(w),
         NEW c \in Categories
  PROVE  CategoryItems(c) \subseteq CategoryItems(c)'
<1>1. /\ member \subseteq member' /\ unread' = unread /\ summarized \subseteq summarized'
      /\ member \subseteq Emails
  BY LocalStep, SummariesStay DEF OnlyMoves, Typed, TypeOK
<1>2. c # "none"
  BY TaxonomyAssumption DEF Labels
<1> QED BY <1>1, <1>2 DEF CategoryItems, LabelsKept

(* A digest row is not emptied.                                             *)
LEMMA DigestStays ==
  ASSUME Typed, WritesItems, NEW w \in Workers, Handle(w) \/ Finalize(w) \/ Crash(w),
         NEW c \in Categories, digest[c] # NoDigest
  PROVE  digest'[c] # NoDigest
<1>1. CASE WriteDigest(w)
  <2>1. session[w].items # {} /\ digest \in [Categories -> SUBSET Emails]
    BY <1>1 DEF WriteDigest, WritesItems, Typed, TypeOK
  <2>2. digest' = [digest EXCEPT ![session[w].msg.category] = session[w].items]
    BY <1>1 DEF WriteDigest
  <2> QED BY <2>1, <2>2 DEF NoDigest
<1>2. CASE ~WriteDigest(w)
  <2>1. CASE Handle(w)
    BY <1>2, <2>1
       DEF Handle, MarkRunRunning, HandleIngest, EnqueueUnclassified, EnqueueUnsummarized,
           HandleClassify, EnqueueSummary, ClaimHygiene, HandleSummarizeEmail, ReadCategory,
           HandleTechNewsCluster, HandleUnsubscribe, pipeline
  <2>2. CASE Finalize(w) \/ Crash(w)
    BY <2>2
       DEF Finalize, LoadRun, CountUnclassified, CountSummaries, CountCluster,
           CountCategories, CountErrors, DispatchCluster, DispatchDigests, Commit, Crash,
           pipeline
  <2> QED BY <2>1, <2>2
<1> QED BY <1>1, <1>2

(* What a worker is about to write is not empty.                            *)
LEMMA WritesItemsStep ==
  ASSUME Typed, WritesItems, NEW w \in Workers, Handle(w) \/ Finalize(w) \/ Crash(w)
  PROVE  WritesItems'
<1>0. /\ session \in [Workers -> FitSession] /\ session[w] \in Session
      /\ \A v \in Workers \ {w} : session'[v] = session[v]
  BY LocalStep DEF Typed, FitSession, OnlyMoves
<1> SUFFICES session'[w].pc = "write_digest" => session'[w].items # {}
  BY <1>0 DEF WritesItems
<1>1. CASE ReadCategory(w)
  <2> DEFINE c == session[w].msg.category
             s == [session[w] EXCEPT !.pc = "write_digest", !.items = CategoryItems(c)]
  <2>1. \/ Goto(w, "load_run") \/ GiveBack(w, queue)
        \/ CategoryItems(c) # {} /\ session' = [session EXCEPT ![w] = s]
    BY <1>1 DEF ReadCategory
  <2>2. s.items = CategoryItems(c)
    BY <1>0 DEF Session
  <2> HIDE DEF s
  <2>3. CASE Goto(w, "load_run") \/ GiveBack(w, queue)
    BY <1>0, <2>3 DEF Goto, GiveBack, Session, Idle
  <2>4. CASE CategoryItems(c) # {} /\ session' = [session EXCEPT ![w] = s]
    BY <1>0, <2>2, <2>4
  <2> QED BY <2>1, <2>3, <2>4
<1>2. CASE ~ReadCategory(w)
  <2>1. session'[w].pc # "write_digest"
    <3>1. CASE ClaimHygiene(w)
      BY <1>0, <3>1 DEF ClaimHygiene, Goto, Session
    <3>2. CASE Handle(w) /\ ~ClaimHygiene(w)
      <4>1. GiveBack(w, queue) \/ \E pc : pc # "write_digest" /\ Goto(w, pc)
        BY <1>2, <3>2
           DEF Handle, MarkRunRunning, HandleIngest, EnqueueUnclassified,
               EnqueueUnsummarized, HandleClassify, EnqueueSummary, HandleSummarizeEmail,
               WriteDigest, HandleTechNewsCluster, HandleUnsubscribe
      <4> QED BY <1>0, <4>1 DEF Goto, GiveBack, Session, Idle
    <3>3. CASE Finalize(w)
      BY <1>0, <3>3
         DEF Finalize, LoadRun, CountUnclassified, CountSummaries, CountCluster,
             CountCategories, CountErrors, DispatchCluster, DispatchDigests, Commit, Goto,
             Session, Idle
    <3>4. CASE Crash(w)
      BY <1>0, <3>4 DEF Crash, GiveBack, Idle
    <3> QED BY <3>1, <3>2, <3>3, <3>4
  <2> QED BY <2>1
<1> QED BY <1>1, <1>2

(* A worker's step keeps a digest carried whose category has items.         *)
LEMMA WorkerDigest ==
  ASSUME Typed, WritesItems, NEW w \in Workers, Handle(w) \/ Finalize(w) \/ Crash(w),
         NEW c \in Categories, CategoryItems(c) # {}, DigestCarried(c)
  PROVE  DigestCarried(c)'
<1>0. /\ OnlyMoves(w) /\ session \in [Workers -> FitSession] /\ session[w] \in Session
      /\ queue \in [Message -> Nat]
      /\ CategoryDigest(c) \in Message
  BY LocalStep, MessageType DEF Typed, TypeOK, FitSession
<1>1. CASE digest[c] # NoDigest
  BY <1>1, DigestStays DEF DigestCarried
<1>2. CASE Waits(CategoryDigest(c))
  BY <1>0, <1>2 DEF Waits, OnlyMoves, QueueKept, DigestCarried
<1>3. CASE \E v \in Workers \ {w} : WritesDigest(session[v], c)
  BY <1>0, <1>3 DEF OnlyMoves, WritesDigest, DigestCarried
<1>4. CASE WritesDigest(session[w], c) /\ digest[c] = NoDigest
  <2>1. /\ session[w].msg = CategoryDigest(c) /\ session[w].msg.kind = "category_digest"
        /\ session[w].msg.category = c /\ session[w].pc \in Begun \cup {"write_digest"}
    BY <1>4 DEF WritesDigest, CategoryDigest
  <2>2. CASE Crash(w) \/ GiveBack(w, queue)
    <3>1. queue'[session[w].msg] > 0
      BY <1>0, <2>1, <2>2, GiveBackKeeps DEF Crash
    <3> QED BY <2>1, <3>1 DEF DigestCarried, Waits
  <2>3. CASE MarkRunRunning(w)
    <3>1. session'[w].msg = session[w].msg /\ session'[w].pc = "handle"
      BY <1>0, <2>3 DEF MarkRunRunning, Goto, Session
    <3> QED BY <2>1, <3>1 DEF DigestCarried, WritesDigest, Begun
  <2>4. CASE ReadCategory(w) /\ ~GiveBack(w, queue)
    <3> DEFINE s == [session[w] EXCEPT !.pc = "write_digest", !.items = CategoryItems(c)]
    <3>1. session' = [session EXCEPT ![w] = s]
      BY <1>4, <2>1, <2>4 DEF ReadCategory
    <3>2. s.pc = "write_digest" /\ s.msg = session[w].msg
      BY <1>0 DEF Session
    <3> HIDE DEF s
    <3>3. session'[w] = s
      BY <1>0, <3>1
    <3> QED BY <2>1, <3>2, <3>3 DEF DigestCarried, WritesDigest
  <2>5. CASE WriteDigest(w)
    <3>1. session[w].items # {} /\ digest \in [Categories -> SUBSET Emails]
      BY <2>5 DEF WriteDigest, WritesItems, Typed, TypeOK
    <3>2. digest' = [digest EXCEPT ![c] = session[w].items]
      BY <2>1, <2>5 DEF WriteDigest
    <3> QED BY <3>1, <3>2 DEF DigestCarried, NoDigest
  <2>6. CASE HandleIngest(w) \/ HandleClassify(w) \/ HandleSummarizeEmail(w)
             \/ HandleTechNewsCluster(w) \/ HandleUnsubscribe(w)
    BY <2>1, <2>6 DEF HandleIngest, HandleClassify, HandleSummarizeEmail,
                      HandleTechNewsCluster, HandleUnsubscribe, At
  <2>7. CASE EnqueueUnclassified(w) \/ EnqueueUnsummarized(w) \/ EnqueueSummary(w)
             \/ ClaimHygiene(w) \/ Finalize(w)
    BY <2>1, <2>7
       DEF EnqueueUnclassified, EnqueueUnsummarized, EnqueueSummary, ClaimHygiene, Finalize,
           LoadRun, CountUnclassified, CountSummaries, CountCluster, CountCategories,
           CountErrors, DispatchCluster, DispatchDigests, Commit, Begun
  <2> QED BY <2>2, <2>3, <2>4, <2>5, <2>6, <2>7 DEF Handle
<1> QED BY <1>1, <1>2, <1>3, <1>4 DEF DigestCarried

(* A step of a worker that keeps the labels keeps what is dispatched        *)
(* carried.                                                                 *)
LEMMA WorkerDispatched ==
  ASSUME Typed, LabelsKept, WritesItems, DispatchedInv, NEW w \in Workers,
         Handle(w) \/ Finalize(w) \/ Crash(w)
  PROVE  DispatchedInv'
<1> SUFFICES ASSUME NEW c \in Categories, Dispatched(c)'
             PROVE  CategoryItems(c)' # {} /\ DigestCarried(c)'
  BY DEF DispatchedInv
<1>1. CategoryItems(c) \subseteq CategoryItems(c)'
  BY ItemsStay
<1>2. CASE Dispatched(c)
  BY <1>1, <1>2, WorkerDigest DEF DispatchedInv
<1>3. CASE DispatchDigests(w) /\ c \in DigestsToDispatch(w)
  <2>1. CategoryItems(c) # {}
    BY <1>3 DEF DigestsToDispatch, MissingDigests
  <2>2. queue'[CategoryDigest(c)] > 0
    <3> DEFINE S == {CategoryDigest(d) : d \in DigestsToDispatch(w)}
    <3>1. Send(S) /\ CategoryDigest(c) \in S /\ CategoryDigest(c) \in Message
      BY <1>3, MessageType DEF DispatchDigests
    <3> HIDE DEF S
    <3> QED BY <3>1, SendKeeps DEF Typed, TypeOK
  <2> QED BY <1>1, <2>1, <2>2 DEF DigestCarried, Waits
<1> QED BY <1>2, <1>3, WhereClaimComesFrom

(* So does every step of the pipeline, unless it reads mail.                *)
LEMMA NextDispatched ==
  ASSUME Typed, WritesItems, DispatchedInv, [Next]_vars, LabelsKept,
         \A e \in Emails : ~MarkRead(e)
  PROVE  WritesItems' /\ DispatchedInv'
<1> DEFINE Kept ==
      /\ label' = label /\ summarized' = summarized /\ unread' = unread /\ digest' = digest
      /\ claimed' = claimed /\ member \subseteq member'
<1>1. CASE UNCHANGED vars
  BY <1>1 DEF vars, pipeline, WritesItems, DispatchedInv, Dispatched,
              DigestCarried, CategoryItems, WritesDigest, Waits
<1>2. CASE Start \/ StarterCrash \/ \E m \in Message : Duplicate(m)
  <2>1. Kept /\ session' = session /\ QueueKept
    <3>1. /\ label' = label /\ summarized' = summarized /\ unread' = unread
          /\ digest' = digest /\ claimed' = claimed /\ session' = session
      BY <1>2
         DEF Start, FanoutCommit, FanoutSend, ManualSend, ManualCommit, StarterCrash,
             Duplicate, pipeline
    <3>2. member \subseteq member'
      BY <1>2
         DEF Start, FanoutCommit, FanoutSend, ManualSend, ManualCommit, StarterCrash,
             Duplicate, CreateRun, Typed, TypeOK
    <3>3. UNCHANGED queue \/ \E S : Send(S)
      BY <1>2, Zenon
         DEF Start, FanoutCommit, FanoutSend, ManualSend, ManualCommit, StarterCrash,
             Duplicate
    <3>4. QueueKept
      BY <3>3, SendKeeps DEF QueueKept, Typed, TypeOK
    <3> QED BY <3>1, <3>2, <3>4
  <2>2. WritesItems'
    BY <2>1 DEF WritesItems
  <2>3. ASSUME NEW c \in Categories
        PROVE  /\ Dispatched(c)' = Dispatched(c)
               /\ CategoryItems(c) \subseteq CategoryItems(c)'
               /\ DigestCarried(c) => DigestCarried(c)'
    BY <2>1, MessageType
       DEF Dispatched, CategoryItems, DigestCarried, WritesDigest, Waits, QueueKept
  <2> QED BY <2>2, <2>3 DEF DispatchedInv
<1>3. ASSUME NEW w \in Workers, Handle(w) \/ Finalize(w) \/ Crash(w)
      PROVE  WritesItems' /\ DispatchedInv'
  BY <1>3, WorkerDispatched, WritesItemsStep
<1>4. ASSUME NEW w \in Workers, NEW m \in Message, Receive(w, m)
      PROVE  WritesItems' /\ DispatchedInv'
  <2>1. /\ session \in [Workers -> FitSession] /\ queue \in [Message -> Nat]
        /\ session[w] = Idle /\ session[w] \in Session
        /\ \A v \in Workers \ {w} : session'[v] = session[v]
    BY <1>4 DEF Receive, Typed, TypeOK, FitSession
  <2>2. session'[w].msg = m /\ session'[w].pc \in Begun /\ session'[w].claims = {}
    BY <1>4, <2>1 DEF Receive, Begun, Session, Idle
  <2>3. Kept /\ member' = member
    BY <1>4 DEF Receive, pipeline
  <2>4. WritesItems'
    BY <2>1, <2>2 DEF WritesItems, Begun
  <2>5. ASSUME NEW c \in Categories
        PROVE  /\ Dispatched(c)' => Dispatched(c)
               /\ CategoryItems(c)' = CategoryItems(c)
               /\ DigestCarried(c) => DigestCarried(c)'
    <3>1. Dispatched(c)' => Dispatched(c)
      BY <2>1, <2>2, <2>3 DEF Dispatched
    <3>2. CategoryItems(c)' = CategoryItems(c)
      BY <2>3 DEF CategoryItems
    <3>3. ASSUME Waits(CategoryDigest(c)) PROVE DigestCarried(c)'
      <4>1. CASE m = CategoryDigest(c)
        BY <2>2, <4>1 DEF DigestCarried, WritesDigest
      <4>2. CASE m # CategoryDigest(c)
        BY <1>4, <2>1, <3>3, <4>2, MessageType DEF Receive, DigestCarried, Waits
      <4> QED BY <4>1, <4>2
    <3>4. ~WritesDigest(session[w], c)
      BY <2>1 DEF WritesDigest, Idle, Begun
    <3>5. ASSUME \E v \in Workers : WritesDigest(session[v], c) PROVE DigestCarried(c)'
      BY <2>1, <3>4, <3>5 DEF DigestCarried, WritesDigest
    <3> QED BY <2>3, <3>1, <3>2, <3>3, <3>5 DEF DigestCarried
  <2> QED BY <2>4, <2>5 DEF DispatchedInv
<1> QED BY <1>1, <1>2, <1>3, <1>4 DEF Next, Rest

(* Every step of the pipeline keeps the invariant.                          *)
LEMMA NextDigest ==
  ASSUME StableVerdicts, Readable = {}
  PROVE  Typed /\ DigestInv /\ [Next]_vars => DigestInv'
<1> SUFFICES ASSUME Typed, DigestInv, [Next]_vars PROVE DigestInv'
  OBVIOUS
<1>1. \A e \in Emails : ~MarkRead(e)
  BY DEF MarkRead
<1>2. Judged' /\ LabelsKept /\ unread' = unread
  <2>1. CASE \E w \in Workers : Handle(w) \/ Finalize(w) \/ Crash(w)
    BY <2>1, LabelsStay, SummariesStay DEF DigestInv
  <2>2. CASE ~ \E w \in Workers : Handle(w) \/ Finalize(w) \/ Crash(w)
    <3>1. label' = label /\ unread' = unread
      BY <1>1, <2>2
         DEF Next, Rest, vars, Start, FanoutCommit, FanoutSend, ManualSend, ManualCommit,
             StarterCrash, Duplicate, Receive, pipeline
    <3> QED BY <3>1 DEF DigestInv, Judged, LabelsKept
  <2> QED BY <2>1, <2>2
<1> QED BY <1>1, <1>2, NextDispatched DEF DigestInv

(* As long as an email keeps its label and its owner reads nothing, a       *)
(* category whose digest is claimed has its row, or a message or a worker   *)
(* that will write it: the claim is committed after the send and with       *)
(* items to write, and a record whose category is not ready comes back,     *)
(* through any number of crashes, duplicates and competing finalizers.      *)
THEOREM ClaimedDigestCarried ==
  ASSUME StableVerdicts, Readable = {}
  PROVE  Spec => []ClaimedDigestIsCarried
<1>1. ASSUME Init PROVE DigestInv
  <2>1. Judged
    <3>1. PICK old \in SUBSET Emails : \E prior \in [old -> Verdict] :
            /\ \A e \in old : prior[e] \in Verdicts[e]
            /\ label = [e \in Emails |-> IF e \in old THEN prior[e].label ELSE "none"]
      BY <1>1 DEF Init, InitPipeline
    <3> QED BY <3>1 DEF Judged
  <2>2. WritesItems /\ DispatchedInv
    BY <1>1 DEF Init, Idle, WritesItems, DispatchedInv, Dispatched
  <2> QED BY <1>1, <2>1, <2>2 DEF Init, DigestInv
<1>2. Typed /\ DigestInv /\ [Next]_vars => DigestInv'
  BY NextDigest
<1>3. DigestInv => ClaimedDigestIsCarried
  BY DEF DigestInv, DispatchedInv, Dispatched, DigestCarried, WritesDigest,
         ClaimedDigestIsCarried, InFlight
<1> QED BY <1>1, <1>2, <1>3, TypedAlways, PTL DEF Spec

-----------------------------------------------------------------------------
(* The status of a run that the starter and the queue leave alone           *)

(* One account, a scheduled start, no crash and no duplicate: what section  *)
(* 5 of the README shows to be needed.  The providers may fail.             *)
Undisturbed ==
  /\ Trigger = "scheduled" /\ MaxFaults = 0
  /\ \A a, b \in Accounts : a = b

Unstarted == {"absent", "queued"}

(* The copies of a message whose handler has not begun its own work.        *)
Begins(w, m) == session[w].msg = m /\ session[w].pc \in Begun
Spent(m) == queue[m] = 0 /\ \A w \in Workers : ~Begins(w, m)
Single(m) ==
  \/ Spent(m)
  \/ queue[m] = 1 /\ \A w \in Workers : ~Begins(w, m)
  \/ /\ queue[m] = 0
     /\ \E w \in Workers : Begins(w, m) /\ \A v \in Workers \ {w} : ~Begins(v, m)

Uncounted ==
  {"idle", "mark", "handle", "write_digest", "enqueue_unclassified", "enqueue_unsummarized",
   "enqueue_summary", "claim_hygiene", "load_run", "count_unclassified"}

Unchecked == Uncounted \cup {"count_summaries", "count_cluster", "count_categories"}

(* Until the run is running there is nothing but its scan.                  *)
Untouched ==
  run \in Unstarted =>
    /\ member = {}
    /\ \A m \in Message : m.kind # "ingest" => queue[m] = 0
    /\ \A w \in Workers :
         \/ session[w] = Idle
         \/ /\ session[w].msg.kind = "ingest" /\ session[w].pc \in Begun
            /\ session[w].seen = "queued"

(* The account is scanned once, before anything is classified.              *)
ScanOnce ==
  /\ \/ starter = "new" /\ run = "absent"
     \/ starter = "half" /\ run = "queued"
     \/ starter = "done" /\ run # "absent"
  /\ \A a \in Accounts : Single(Ingest(a))
  /\ starter # "done" \/ run \notin Unstarted => \A a \in Accounts : Spent(Ingest(a))
  /\ \A w \in Workers : session[w].pc = "enqueue_unclassified" =>
       /\ \A e \in Emails : Spent(Classify(e))
       /\ \A v \in Workers : session[v].pc = "enqueue_unclassified" => v = w

(* An email is classified once, so a verdict is not taken back.             *)
VerdictOnce ==
  \A e \in Emails : Single(Classify(e)) /\ (label[e] # "none" => Spent(Classify(e)))

(* Only the scan's record still knows the run as queued, and it reads the   *)
(* row again before it finalizes.                                           *)
StatusSeen ==
  run \notin Unstarted => \A w \in Workers : session[w].seen = "queued" =>
    session[w].msg.kind = "ingest" /\ session[w].pc \in IngestSteps \cup {"load_run"}

(* What a finalizer found settled is settled.                               *)
Views ==
  \A w \in Workers :
    /\ session[w].pc \in Uncounted => session[w].unclassified
    /\ session[w].pc \in Uncounted \cup {"count_summaries"} => session[w].summaries
    /\ ~session[w].unclassified => PendingUnclassified = {}
    /\ ~session[w].unclassified /\ ~session[w].summaries => PendingSummaries = {}

(* An ended run owes nothing.                                               *)
EndedSettled == run \in Terminal => PendingUnclassified = {} /\ PendingSummaries = {}

PromiseInv == Untouched /\ ScanOnce /\ VerdictOnce /\ StatusSeen /\ Views /\ EndedSettled

(* Without faults no process ends early and no message is doubled.          *)
LEMMA NothingFails ==
  ASSUME Undisturbed, Typed
  PROVE  /\ ~StarterCrash
         /\ \A w \in Workers : ~Crash(w)
         /\ \A m \in Message : ~Duplicate(m)
<1>1. ~(faults < MaxFaults)
  BY DEF Undisturbed, Typed, TypeOK
<1> QED BY <1>1 DEF StarterCrash, Crash, Duplicate

(* A worker that goes on begins no message anew.                            *)
LEMMA BeginsOnce ==
  ASSUME Typed, NEW w \in Workers, Handle(w) \/ Finalize(w), NEW m
  PROVE  /\ Begins(w, m)' => Begins(w, m) /\ MarkRunRunning(w)
         /\ \A v \in Workers \ {w} : Begins(v, m)' = Begins(v, m)
<1>0. /\ session \in [Workers -> FitSession] /\ session[w] \in Session
      /\ \A v \in Workers \ {w} : session'[v] = session[v]
  BY LocalStep DEF Typed, FitSession, OnlyMoves
<1>1. CASE MarkRunRunning(w)
  BY <1>0, <1>1 DEF MarkRunRunning, Goto, Begins, Begun, Session
<1>2. CASE ~MarkRunRunning(w)
  <2>1. session'[w].pc \notin Begun
    <3>1. CASE ClaimHygiene(w)
      BY <1>0, <3>1 DEF ClaimHygiene, Goto, Begun, Session
    <3>2. CASE ReadCategory(w)
      <4> DEFINE s == [session[w] EXCEPT !.pc = "write_digest",
                                         !.items = CategoryItems(session[w].msg.category)]
      <4>1. \/ Goto(w, "load_run") \/ GiveBack(w, queue)
            \/ session' = [session EXCEPT ![w] = s]
        BY <3>2 DEF ReadCategory
      <4>2. s.pc = "write_digest"
        BY <1>0 DEF Session
      <4>3. CASE Goto(w, "load_run") \/ GiveBack(w, queue)
        BY <1>0, <4>3 DEF Goto, GiveBack, Session, Idle, Begun
      <4>4. CASE session' = [session EXCEPT ![w] = s]
        <5> HIDE DEF s
        <5> QED BY <1>0, <4>2, <4>4 DEF Begun
      <4> QED BY <4>1, <4>3, <4>4
    <3>3. CASE Handle(w) /\ ~ClaimHygiene(w) /\ ~ReadCategory(w)
      <4>1. GiveBack(w, queue) \/ \E pc : pc \notin Begun /\ Goto(w, pc)
        BY <1>2, <3>3
           DEF Handle, HandleIngest, EnqueueUnclassified, EnqueueUnsummarized,
               HandleClassify, EnqueueSummary, HandleSummarizeEmail, WriteDigest,
               HandleTechNewsCluster, HandleUnsubscribe, Begun
      <4> QED BY <1>0, <4>1 DEF Goto, GiveBack, Session, Idle, Begun
    <3>4. CASE Finalize(w)
      BY <1>0, <3>4
         DEF Finalize, LoadRun, CountUnclassified, CountSummaries, CountCluster,
             CountCategories, CountErrors, DispatchCluster, DispatchDigests, Commit, Goto,
             Session, Idle, Begun
    <3> QED BY <3>1, <3>2, <3>3, <3>4
  <2> QED BY <1>0, <2>1 DEF Begins
<1> QED BY <1>1, <1>2

(* Scans are not sent by workers, nor verdicts asked for but by the scan.   *)
LEMMA OnlyScanSends ==
  ASSUME Typed, ScanOnce, NEW w \in Workers, Handle(w) \/ Finalize(w), NEW m \in Message,
         \/ m.kind = "ingest"
         \/ m.kind = "classify" /\ ~EnqueueUnclassified(w)
  PROVE  queue'[m] = queue[m]
<1>0. session[w] \in FitSession /\ queue \in [Message -> Nat]
  BY DEF Typed, TypeOK
<1>1. ASSUME NEW S, Send(S), m \notin S
      PROVE  queue'[m] = queue[m]
  BY <1>1 DEF Send, Sent
<1>2. /\ \A e : Classify(e).kind = "classify" /\ SummarizeEmail(e).kind = "summarize_email"
      /\ \A a : Hygiene(a).kind = "hygiene"
      /\ \A c : CategoryDigest(c).kind = "category_digest"
      /\ \A S : TechNewsCluster(S).kind = "tech_news_cluster"
  BY DEF Classify, SummarizeEmail, Hygiene, CategoryDigest, TechNewsCluster
<1>3. CASE UNCHANGED queue
  BY <1>3
<1>4. CASE HandleIngest(w)
  <2>1. session[w].msg \in Message /\ session[w].msg.kind = "ingest" /\ session[w].pc = "handle"
    BY <1>0, <1>4 DEF HandleIngest, At, FitSession, Fits
  <2>2. PICK a \in Accounts : session[w].msg = Ingest(a)
    BY <2>1, MessageFields
  <2>3. run # "absent"
    BY <2>1, <2>2 DEF ScanOnce, Spent, Begins, Begun, Unstarted
  <2> QED BY <1>3, <1>4, <2>3 DEF HandleIngest
<1>5. CASE EnqueueUnclassified(w)
  BY <1>1, <1>2, <1>5 DEF EnqueueUnclassified
<1>6. CASE EnqueueUnsummarized(w) \/ EnqueueSummary(w)
  BY <1>1, <1>2, <1>6 DEF EnqueueUnsummarized, EnqueueSummary
<1>7. CASE ClaimHygiene(w)
  BY <1>1, <1>2, <1>3, <1>7 DEF ClaimHygiene
<1>8. CASE ReadCategory(w)
  <2>1. CASE GiveBack(w, queue)
    <3>1. session[w].msg.kind = "category_digest"
      BY <1>8 DEF ReadCategory, At
    <3> QED BY <1>0, <2>1, <3>1 DEF GiveBack
  <2> QED BY <1>3, <1>8, <2>1 DEF ReadCategory
<1>9. CASE DispatchCluster(w)
  BY <1>1, <1>2, <1>3, <1>9 DEF DispatchCluster
<1>10. CASE DispatchDigests(w)
  BY <1>1, <1>2, <1>10 DEF DispatchDigests
<1>11. CASE MarkRunRunning(w) \/ HandleClassify(w) \/ HandleSummarizeEmail(w) \/ WriteDigest(w)
            \/ HandleTechNewsCluster(w) \/ HandleUnsubscribe(w) \/ LoadRun(w)
            \/ CountUnclassified(w) \/ CountSummaries(w) \/ CountCluster(w)
            \/ CountCategories(w) \/ CountErrors(w) \/ Commit(w)
  BY <1>3, <1>11
     DEF MarkRunRunning, HandleClassify, HandleSummarizeEmail, WriteDigest,
         HandleTechNewsCluster, HandleUnsubscribe, LoadRun, CountUnclassified,
         CountSummaries, CountCluster, CountCategories, CountErrors, Commit
<1> QED BY <1>4, <1>5, <1>6, <1>7, <1>8, <1>9, <1>10, <1>11 DEF Handle, Finalize

(* One copy, or none, of a message that nobody sends.                       *)
LEMMA SingleStays ==
  ASSUME NEW m, queue'[m] = queue[m], \A v \in Workers : Begins(v, m)' => Begins(v, m)
  PROVE  (Spent(m) => Spent(m)') /\ (Single(m) => Single(m)')
<1>1. Spent(m) => Spent(m)'
  BY DEF Spent
<1>2. ASSUME queue[m] = 1, \A w \in Workers : ~Begins(w, m)
      PROVE  Single(m)'
  BY <1>2 DEF Single
<1>3. ASSUME NEW w \in Workers, queue[m] = 0, Begins(w, m),
             \A v \in Workers \ {w} : ~Begins(v, m)
      PROVE  Single(m)'
  <2>1. \A v \in Workers \ {w} : ~Begins(v, m)'
    BY <1>3
  <2>2. CASE Begins(w, m)'
    BY <1>3, <2>1, <2>2 DEF Single
  <2>3. CASE ~Begins(w, m)'
    BY <1>3, <2>1, <2>3 DEF Single, Spent
  <2> QED BY <2>2, <2>3
<1> QED BY <1>1, <1>2, <1>3 DEF Single

(* Who begins a message that exists once leaves none behind.                *)
LEMMA LastCopy ==
  ASSUME NEW m, Single(m), NEW w \in Workers, Begins(w, m)
  PROVE  queue[m] = 0 /\ \A v \in Workers \ {w} : ~Begins(v, m)
BY DEF Single, Spent

(* The record of the scan is at work only while nothing else is.            *)
LEMMA ScanIsFirst ==
  ASSUME Undisturbed, Typed, Untouched, ScanOnce, NEW w \in Workers, HandleIngest(w)
  PROVE  /\ run = "queued" /\ starter = "done" /\ session[w].seen = "queued"
         /\ \A v \in Workers \ {w} : session[v] = Idle
         /\ \A a \in Accounts : Begins(w, Ingest(a)) /\ queue[Ingest(a)] = 0
<1>1. /\ session[w].msg \in Message /\ session[w].msg.kind = "ingest"
      /\ session[w].pc = "handle"
  BY DEF HandleIngest, At, Typed, FitSession, Fits
<1>2. \A a \in Accounts : session[w].msg = Ingest(a)
  BY <1>1, MessageFields DEF Undisturbed
<1>3. \A a \in Accounts : Begins(w, Ingest(a))
  BY <1>1, <1>2 DEF Begins, Begun
<1>4. \A a \in Accounts : queue[Ingest(a)] = 0 /\ \A v \in Workers \ {w} : ~Begins(v, Ingest(a))
  BY <1>3, LastCopy DEF ScanOnce
<1>5. starter = "done" /\ run = "queued"
  BY <1>3, MailAssumption DEF ScanOnce, Spent, Unstarted
<1>6. \A v \in Workers : session[v] # Idle => \A a \in Accounts : Begins(v, Ingest(a))
  <2> SUFFICES ASSUME NEW v \in Workers, session[v] # Idle
               PROVE  \A a \in Accounts : Begins(v, Ingest(a))
    OBVIOUS
  <2>1. session[v].msg.kind = "ingest" /\ session[v].pc \in Begun
    BY <1>5 DEF Untouched, Unstarted
  <2>2. session[v].msg \in Message
    BY <2>1 DEF Typed, FitSession, Fits, Begun
  <2> QED BY <2>1, <2>2, MessageFields DEF Begins, Undisturbed
<1>7. session[w].seen = "queued"
  BY <1>1, <1>5 DEF Untouched, Unstarted, Idle
<1> QED BY <1>3, <1>4, <1>5, <1>6, <1>7, MailAssumption

(* Nothing but a scan's record is at work before the run is running.        *)
LEMMA WorkStarted ==
  ASSUME Untouched, NEW w \in Workers, Handle(w) \/ Finalize(w),
         ~MarkRunRunning(w), ~HandleIngest(w)
  PROVE  run \notin Unstarted
<1> SUFFICES ASSUME run \in Unstarted PROVE FALSE
  OBVIOUS
<1>1. /\ session[w].pc \in Begun \cup {"idle"}
      /\ session[w].pc # "idle" => session[w].msg.kind = "ingest"
  BY DEF Untouched, Idle
<1>2. CASE HandleClassify(w) \/ HandleSummarizeEmail(w) \/ ReadCategory(w)
           \/ HandleTechNewsCluster(w) \/ HandleUnsubscribe(w)
  BY <1>1, <1>2 DEF HandleClassify, HandleSummarizeEmail, ReadCategory, HandleTechNewsCluster,
                    HandleUnsubscribe, At
<1>3. CASE EnqueueUnclassified(w) \/ EnqueueUnsummarized(w) \/ EnqueueSummary(w)
           \/ ClaimHygiene(w) \/ WriteDigest(w) \/ Finalize(w)
  BY <1>1, <1>3
     DEF EnqueueUnclassified, EnqueueUnsummarized, EnqueueSummary, ClaimHygiene, WriteDigest,
         Finalize, LoadRun, CountUnclassified, CountSummaries, CountCluster, CountCategories,
         CountErrors, DispatchCluster, DispatchDigests, Commit, Begun
<1> QED BY <1>2, <1>3 DEF Handle

(* The status goes from queued to running at the scan and ends at a commit  *)
(* that found nothing pending; nothing else moves it.                       *)
LEMMA RunMoves ==
  ASSUME Undisturbed, Typed, Untouched, ScanOnce, StatusSeen, NEW w \in Workers,
         Handle(w) \/ Finalize(w)
  PROVE  \/ run' = run /\ ~HandleIngest(w)
         \/ /\ HandleIngest(w) /\ Goto(w, "enqueue_unclassified")
            /\ run = "queued" /\ run' = "running"
         \/ /\ Commit(w) /\ run \notin Unstarted
            /\ Drained(w) /\ run' = IF session[w].errors THEN "failed" ELSE "complete"
<1>1. CASE HandleIngest(w)
  BY <1>1, ScanIsFirst DEF HandleIngest, CommitRunning
<1>2. CASE HandleClassify(w) \/ HandleSummarizeEmail(w) \/ ReadCategory(w) \/ WriteDigest(w)
           \/ HandleTechNewsCluster(w)
  <2>1. session[w].pc \in {"handle", "write_digest"} /\ ~MarkRunRunning(w) /\ ~HandleIngest(w)
    BY <1>2 DEF HandleClassify, HandleSummarizeEmail, ReadCategory, WriteDigest,
                HandleTechNewsCluster, HandleIngest, MarkRunRunning, At
  <2>2. session[w].seen # "queued"
    BY <2>1, WorkStarted DEF StatusSeen, IngestSteps
  <2>3. CommitRunning(w) \/ run' = run
    BY <1>2 DEF HandleClassify, HandleSummarizeEmail, ReadCategory, WriteDigest,
                HandleTechNewsCluster
  <2> QED BY <2>1, <2>2, <2>3 DEF CommitRunning
<1>3. CASE Commit(w)
  <2>1. session[w].pc = "commit" /\ ~MarkRunRunning(w) /\ ~HandleIngest(w)
    BY <1>3 DEF Commit, MarkRunRunning, HandleIngest, At
  <2>2. run \notin Unstarted
    BY <2>1, WorkStarted
  <2>3. session[w].seen # "queued"
    BY <2>1, <2>2 DEF StatusSeen, IngestSteps
  <2>4. run' = FinalStatus(w)
    BY <1>3 DEF Commit
  <2>5. CASE Drained(w)
    BY <1>3, <2>2, <2>4, <2>5 DEF FinalStatus
  <2>6. CASE ~Drained(w)
    BY <2>1, <2>3, <2>4, <2>6 DEF FinalStatus
  <2> QED BY <2>5, <2>6
<1>4. CASE MarkRunRunning(w) \/ EnqueueUnclassified(w) \/ EnqueueUnsummarized(w)
           \/ EnqueueSummary(w) \/ ClaimHygiene(w) \/ HandleUnsubscribe(w) \/ LoadRun(w)
           \/ CountUnclassified(w) \/ CountSummaries(w) \/ CountCluster(w)
           \/ CountCategories(w) \/ CountErrors(w) \/ DispatchCluster(w) \/ DispatchDigests(w)
  <2>1. run' = run
    BY <1>4
       DEF MarkRunRunning, EnqueueUnclassified, EnqueueUnsummarized, EnqueueSummary,
           ClaimHygiene, HandleUnsubscribe, LoadRun, CountUnclassified, CountSummaries,
           CountCluster, CountCategories, CountErrors, DispatchCluster, DispatchDigests
  <2> QED BY <1>1, <2>1
<1> QED BY <1>1, <1>2, <1>3, <1>4 DEF Handle, Finalize

(* No mail joins a run that is running.                                     *)
LEMMA NoNewMail ==
  ASSUME NEW w \in Workers, Handle(w) \/ Finalize(w), ~HandleIngest(w)
  PROVE  member' = member
<1>1. CASE Handle(w)
  BY <1>1
     DEF Handle, MarkRunRunning, EnqueueUnclassified, EnqueueUnsummarized, HandleClassify,
         EnqueueSummary, ClaimHygiene, HandleSummarizeEmail, ReadCategory, WriteDigest,
         HandleTechNewsCluster, HandleUnsubscribe
<1>2. CASE Finalize(w)
  BY <1>2
     DEF Finalize, LoadRun, CountUnclassified, CountSummaries, CountCluster, CountCategories,
         CountErrors, DispatchCluster, DispatchDigests, Commit
<1> QED BY <1>1, <1>2

(* Error rows and the cluster's row are never taken back; providers that    *)
(* do not fail leave no error row.                                          *)
LEMMA ErrorsRemain ==
  ASSUME NEW w \in Workers, Handle(w) \/ Finalize(w)
  PROVE  /\ failed \subseteq failed'
         /\ clusterFailed => clusterFailed'
         /\ clustered => clustered'
         /\ ~ProvidersMayFail => failed' = failed /\ (~clusterFailed => ~clusterFailed')
<1>1. CASE HandleTechNewsCluster(w)
  <2>1. failed' = failed
    BY <1>1 DEF HandleTechNewsCluster
  <2> DEFINE groups == IF clustered THEN {} ELSE ClusterGroups(session[w].msg.emails)
  <2>2. PICK broken \in SUBSET (IF ProvidersMayFail THEN groups ELSE {}) :
          /\ clustered' = (clustered \/ groups \ broken # {})
          /\ clusterFailed' = (clusterFailed \/ broken # {})
    BY <1>1, Zenon DEF HandleTechNewsCluster
  <2>3. ASSUME ~ProvidersMayFail PROVE ~(broken # {})
    BY <2>2, <2>3
  <2> HIDE DEF groups
  <2>4. ASSUME ~ProvidersMayFail, ~clusterFailed PROVE ~clusterFailed'
    BY <2>2, <2>3, <2>4, Zenon
  <2>5. clusterFailed => clusterFailed'
    BY <2>2, Zenon
  <2>6. clustered => clustered'
    BY <2>2, Zenon
  <2> QED BY <2>1, <2>4, <2>5, <2>6
<1>2. CASE HandleClassify(w) \/ HandleSummarizeEmail(w)
  <2>1. failed \subseteq failed' /\ (~ProvidersMayFail => failed' = failed)
    BY <1>2 DEF HandleClassify, HandleSummarizeEmail
  <2>2. clusterFailed' = clusterFailed
    BY <1>2, Zenon DEF HandleClassify, HandleSummarizeEmail
  <2>3. clustered' = clustered
    BY <1>2, Zenon DEF HandleClassify, HandleSummarizeEmail
  <2> QED BY <2>1, <2>2, <2>3
<1>3. CASE Finalize(w)
  BY <1>3
     DEF Finalize, LoadRun, CountUnclassified, CountSummaries, CountCluster, CountCategories,
         CountErrors, DispatchCluster, DispatchDigests, Commit, pipeline
<1>4. CASE MarkRunRunning(w) \/ HandleIngest(w) \/ EnqueueUnclassified(w)
           \/ EnqueueUnsummarized(w) \/ EnqueueSummary(w) \/ ClaimHygiene(w)
           \/ ReadCategory(w) \/ WriteDigest(w) \/ HandleUnsubscribe(w)
  <2>1. UNCHANGED <<failed, clusterFailed, clustered>>
    BY <1>4
       DEF MarkRunRunning, HandleIngest, EnqueueUnclassified, EnqueueUnsummarized,
           EnqueueSummary, ClaimHygiene, ReadCategory, WriteDigest, HandleUnsubscribe,
           pipeline
  <2> QED BY <2>1
<1> QED BY <1>1, <1>2, <1>3, <1>4 DEF Handle

(* An email that has its verdict has no classify message left: its verdict  *)
(* stays.                                                                   *)
LEMMA VerdictsStay ==
  ASSUME Typed, VerdictOnce, NEW w \in Workers, Handle(w) \/ Finalize(w),
         NEW e \in Emails, label[e] # "none"
  PROVE  label'[e] = label[e] /\ (e \in newsletters' <=> e \in newsletters)
<1>1. CASE HandleClassify(w)
  <2> DEFINE f == session[w].msg.email
  <2>1. session[w].msg \in Message /\ session[w].msg.kind = "classify" /\ session[w].pc = "handle"
    BY <1>1 DEF HandleClassify, At, Typed, FitSession, Fits
  <2>2. f \in Emails /\ Begins(w, Classify(f))
    BY <2>1, MessageFields DEF Begins, Begun
  <2>3. f # e
    BY <2>2 DEF VerdictOnce, Spent
  <2>4. \E v : WriteVerdict(f, v)
    BY <1>1 DEF HandleClassify
  <2> QED BY <2>3, <2>4 DEF WriteVerdict, Typed, TypeOK
<1>2. CASE ~HandleClassify(w)
  BY <1>2, OthersKeepLabels
<1> QED BY <1>1, <1>2

(* What is settled stays settled: no verdict of an unread email changes any *)
(* more.                                                                    *)
LEMMA SettledStays ==
  ASSUME Typed, VerdictOnce, NEW w \in Workers, Handle(w) \/ Finalize(w),
         ~HandleIngest(w), PendingUnclassified = {}
  PROVE  /\ PendingUnclassified' = {}
         /\ \A e \in member \cap unread :
              label'[e] = label[e] /\ (e \in newsletters' <=> e \in newsletters)
         /\ PendingSummaries = {} => PendingSummaries' = {}
<1>1. /\ member' = member /\ unread' = unread /\ summarized \subseteq summarized'
      /\ failed \subseteq failed' /\ member \subseteq Emails
  BY NoNewMail, SummariesStay, ErrorsRemain DEF Typed, TypeOK
<1>2. \A e \in member \cap unread : label[e] # "none"
  BY DEF PendingUnclassified
<1>3. \A e \in member \cap unread :
        label'[e] = label[e] /\ (e \in newsletters' <=> e \in newsletters)
  BY <1>1, <1>2, VerdictsStay
<1>4. PendingUnclassified' = {}
  BY <1>1, <1>2, <1>3 DEF PendingUnclassified
<1>5. PendingSummaries' \subseteq PendingSummaries
  BY <1>1, <1>3 DEF PendingSummaries, AwaitingSummary, NeedsSummary
<1> QED BY <1>3, <1>4, <1>5

(* A worker's step from a running run.                                      *)
LEMMA StaysStarted ==
  ASSUME Undisturbed, Typed, Untouched, ScanOnce, StatusSeen, NEW w \in Workers,
         Handle(w) \/ Finalize(w), run \notin Unstarted
  PROVE  ~HandleIngest(w) /\ run' \notin Unstarted
<1>1. CASE run' = run /\ ~HandleIngest(w)
  BY <1>1
<1>2. CASE Commit(w) /\ run' = IF session[w].errors THEN "failed" ELSE "complete"
  <2>1. run' \in {"failed", "complete"}
    BY <1>2
  <2>2. ~HandleIngest(w)
    BY <1>2 DEF Commit, HandleIngest, At
  <2> QED BY <2>1, <2>2 DEF Unstarted
<1>3. run # "queued"
  BY DEF Unstarted
<1> QED BY <1>1, <1>2, <1>3, RunMoves

(* Every step of a worker, by the parts of the invariant.                   *)
LEMMA WorkerUntouched ==
  ASSUME Undisturbed, Typed, Untouched, ScanOnce, StatusSeen, NEW w \in Workers,
         Handle(w) \/ Finalize(w)
  PROVE  Untouched'
<1>0. session \in [Workers -> FitSession] /\ session[w] \in Session
  BY DEF Typed, FitSession
<1>1. CASE MarkRunRunning(w) /\ run \in Unstarted
  <2>1. run' = run /\ member' = member /\ queue' = queue /\ Goto(w, "handle")
    BY <1>1 DEF MarkRunRunning
  <2>2. \A v \in Workers \ {w} : session'[v] = session[v]
    BY <1>0, <2>1 DEF Goto
  <2>3. /\ session'[w].pc = "handle" /\ session'[w].msg = session[w].msg
        /\ session'[w].seen = session[w].seen
    BY <1>0, <2>1 DEF Goto, Session
  <2>4. session[w] # Idle
    BY <1>1 DEF MarkRunRunning, Idle
  <2> QED BY <1>1, <2>1, <2>2, <2>3, <2>4 DEF Untouched, Begun
<1>2. CASE HandleIngest(w)
  BY <1>2, RunMoves DEF Untouched, Unstarted
<1>3. CASE run \notin Unstarted
  BY <1>3, StaysStarted DEF Untouched
<1> QED BY <1>1, <1>2, <1>3, WorkStarted

LEMMA WorkerScanOnce ==
  ASSUME Undisturbed, Typed, Untouched, ScanOnce, StatusSeen, NEW w \in Workers,
         Handle(w) \/ Finalize(w)
  PROVE  ScanOnce'
<1>0. /\ session \in [Workers -> FitSession] /\ session[w] \in Session
      /\ \A v \in Workers \ {w} : session'[v] = session[v]
  BY LocalStep DEF Typed, FitSession, OnlyMoves
<1>1. starter' = starter
  <2>1. CASE Handle(w)
    BY <2>1
       DEF Handle, MarkRunRunning, HandleIngest, EnqueueUnclassified, EnqueueUnsummarized,
           HandleClassify, EnqueueSummary, ClaimHygiene, HandleSummarizeEmail, ReadCategory,
           WriteDigest, HandleTechNewsCluster, HandleUnsubscribe
  <2>2. CASE Finalize(w)
    BY <2>2
       DEF Finalize, LoadRun, CountUnclassified, CountSummaries, CountCluster,
           CountCategories, CountErrors, DispatchCluster, DispatchDigests, Commit
  <2> QED BY <2>1, <2>2
<1>2. \/ starter' = "new" /\ run' = "absent"
      \/ starter' = "half" /\ run' = "queued"
      \/ starter' = "done" /\ run' # "absent"
  BY <1>1, RunMoves, ScanIsFirst DEF ScanOnce, Unstarted
<1>3. \A a \in Accounts : /\ Single(Ingest(a)) => Single(Ingest(a))'
                          /\ Spent(Ingest(a)) => Spent(Ingest(a))'
  <2> SUFFICES ASSUME NEW a \in Accounts
               PROVE  /\ Single(Ingest(a)) => Single(Ingest(a))'
                      /\ Spent(Ingest(a)) => Spent(Ingest(a))'
    OBVIOUS
  <2>1. Ingest(a) \in Message /\ Ingest(a).kind = "ingest"
    BY MessageType DEF Ingest
  <2>2. queue'[Ingest(a)] = queue[Ingest(a)]
    BY <2>1, OnlyScanSends
  <2>3. \A v \in Workers : Begins(v, Ingest(a))' => Begins(v, Ingest(a))
    BY BeginsOnce
  <2> QED BY <2>2, <2>3, SingleStays
<1>4. starter' # "done" \/ run' \notin Unstarted => \A a \in Accounts : Spent(Ingest(a))'
  <2>1. CASE HandleIngest(w)
    <3> SUFFICES ASSUME NEW a \in Accounts PROVE Spent(Ingest(a))'
      OBVIOUS
    <3>1. Begins(w, Ingest(a)) /\ Single(Ingest(a))
      BY <2>1, ScanIsFirst DEF ScanOnce
    <3>2. queue[Ingest(a)] = 0 /\ \A v \in Workers \ {w} : ~Begins(v, Ingest(a))
      BY <3>1, LastCopy
    <3>3. ~MarkRunRunning(w)
      BY <2>1 DEF HandleIngest, MarkRunRunning, At
    <3>4. \A v \in Workers : ~Begins(v, Ingest(a))'
      BY <3>2, <3>3, BeginsOnce
    <3>5. queue'[Ingest(a)] = queue[Ingest(a)]
      BY OnlyScanSends, MessageType DEF Ingest
    <3> QED BY <3>2, <3>4, <3>5 DEF Spent
  <2>2. CASE ~HandleIngest(w)
    <3>1. starter' # "done" \/ run' \notin Unstarted => starter # "done" \/ run \notin Unstarted
      BY <1>1, <2>2, RunMoves
    <3> QED BY <1>3, <3>1 DEF ScanOnce
  <2> QED BY <2>1, <2>2
<1>5. ASSUME NEW u \in Workers, session'[u].pc = "enqueue_unclassified"
      PROVE  /\ \A e \in Emails : Spent(Classify(e))'
             /\ \A v \in Workers : session'[v].pc = "enqueue_unclassified" => v = u
  <2>1. CASE HandleIngest(w)
    <3>1. /\ \A v \in Workers \ {w} : session[v] = Idle
          /\ run = "queued" /\ session[w].msg.kind = "ingest"
      BY <2>1, ScanIsFirst DEF HandleIngest, At
    <3>2. u = w /\ \A v \in Workers : session'[v].pc = "enqueue_unclassified" => v = u
      BY <1>0, <1>5, <3>1 DEF Idle
    <3> SUFFICES ASSUME NEW e \in Emails PROVE Spent(Classify(e))'
      BY <3>2
    <3>3. Classify(e) \in Message /\ Classify(e).kind = "classify"
      BY MessageType DEF Classify
    <3>4. queue'[Classify(e)] = 0
      <4>1. queue[Classify(e)] = 0
        BY <3>1, <3>3 DEF Untouched, Unstarted
      <4>2. ~EnqueueUnclassified(w)
        BY <2>1 DEF HandleIngest, EnqueueUnclassified, At
      <4> QED BY <3>3, <4>1, <4>2, OnlyScanSends
    <3>5. \A v \in Workers : ~Begins(v, Classify(e))
      BY <3>1, <3>3 DEF Begins, Idle, Begun
    <3>6. \A v \in Workers : ~Begins(v, Classify(e))'
      BY <3>5, BeginsOnce
    <3> QED BY <3>4, <3>6 DEF Spent
  <2>2. CASE ~HandleIngest(w)
    <3>0. session'[w].pc # "enqueue_unclassified"
      <4>1. CASE ClaimHygiene(w)
        BY <1>0, <4>1 DEF ClaimHygiene, Goto, Session
      <4>2. CASE ReadCategory(w)
        <5> DEFINE s == [session[w] EXCEPT !.pc = "write_digest",
                                           !.items = CategoryItems(session[w].msg.category)]
        <5>1. \/ Goto(w, "load_run") \/ GiveBack(w, queue)
              \/ session' = [session EXCEPT ![w] = s]
          BY <4>2 DEF ReadCategory
        <5>2. s.pc = "write_digest"
          BY <1>0 DEF Session
        <5>3. CASE Goto(w, "load_run") \/ GiveBack(w, queue)
          BY <1>0, <5>3 DEF Goto, GiveBack, Session, Idle
        <5>4. CASE session' = [session EXCEPT ![w] = s]
          <6> HIDE DEF s
          <6> QED BY <1>0, <5>2, <5>4
        <5> QED BY <5>1, <5>3, <5>4
      <4>3. CASE Handle(w) /\ ~ClaimHygiene(w) /\ ~ReadCategory(w)
        <5>1. \E pc : pc # "enqueue_unclassified" /\ Goto(w, pc)
          BY <2>2, <4>3
             DEF Handle, MarkRunRunning, EnqueueUnclassified, EnqueueUnsummarized,
                 HandleClassify, EnqueueSummary, HandleSummarizeEmail, WriteDigest,
                 HandleTechNewsCluster, HandleUnsubscribe
        <5> QED BY <1>0, <5>1 DEF Goto, Session
      <4>4. CASE Finalize(w)
        BY <1>0, <4>4
           DEF Finalize, LoadRun, CountUnclassified, CountSummaries, CountCluster,
               CountCategories, CountErrors, DispatchCluster, DispatchDigests, Commit, Goto,
               Session, Idle
      <4> QED BY <4>1, <4>2, <4>3, <4>4
    <3>1. u # w
      BY <1>5, <3>0
    <3>2. session[u].pc = "enqueue_unclassified"
      BY <1>0, <1>5, <3>1
    <3>3. ~EnqueueUnclassified(w)
      BY <3>1, <3>2 DEF ScanOnce, EnqueueUnclassified
    <3>4. ASSUME NEW e \in Emails PROVE Spent(Classify(e))'
      <4>1. Classify(e) \in Message /\ Classify(e).kind = "classify"
        BY MessageType DEF Classify
      <4>2. queue'[Classify(e)] = queue[Classify(e)]
        BY <3>3, <4>1, OnlyScanSends
      <4>3. Spent(Classify(e))
        BY <3>2 DEF ScanOnce
      <4>4. \A v \in Workers : Begins(v, Classify(e))' => Begins(v, Classify(e))
        BY BeginsOnce
      <4> QED BY <4>2, <4>3, <4>4, SingleStays
    <3>5. \A v \in Workers : session'[v].pc = "enqueue_unclassified" => v = u
      <4>1. \A v \in Workers \ {w} : session'[v].pc = "enqueue_unclassified" => v = u
        BY <1>0, <3>2 DEF ScanOnce
      <4> QED BY <3>0, <4>1
    <3> QED BY <3>4, <3>5
  <2> QED BY <2>1, <2>2
<1> QED BY <1>2, <1>3, <1>4, <1>5 DEF ScanOnce

(* A worker sends one copy of each verdict request, and answers it.         *)
LEMMA WorkerVerdictOnce ==
  ASSUME Undisturbed, Typed, ScanOnce, VerdictOnce, NEW w \in Workers,
         Handle(w) \/ Finalize(w)
  PROVE  VerdictOnce'
<1> SUFFICES ASSUME NEW e \in Emails
             PROVE  Single(Classify(e))' /\ (label'[e] # "none" => Spent(Classify(e))')
  BY DEF VerdictOnce
<1> DEFINE m == Classify(e)
<1>0. /\ m \in Message /\ m.kind = "classify" /\ m.email = e
      /\ Single(m) /\ (label[e] # "none" => Spent(m))
      /\ queue \in [Message -> Nat] /\ session[w] \in FitSession
      /\ label \in [Emails -> Labels \cup {"none"}]
  BY MessageType DEF Classify, VerdictOnce, Typed, TypeOK
<1>1. \A v \in Workers : Begins(v, m)' => Begins(v, m)
  BY BeginsOnce
<1>2. CASE EnqueueUnclassified(w)
  <2>1. Spent(m)
    BY <1>2 DEF EnqueueUnclassified, ScanOnce
  <2>2. PICK T \in Page(UnclassifiedTargets(w)) : Send({Classify(f) : f \in T})
    BY <1>2 DEF EnqueueUnclassified
  <2>3. queue'[m] = IF m \in {Classify(f) : f \in T} THEN 1 ELSE 0
    BY <1>0, <2>1, <2>2 DEF Send, Sent, Spent
  <2>4. T \subseteq UnclassifiedTargets(w)
    BY <2>2 DEF Page
  <2>5. label[e] # "none" => m \notin {Classify(f) : f \in T}
    BY <2>4 DEF Classify, UnclassifiedTargets, OfAccount
  <2>6. label' = label
    BY <1>2, OthersKeepLabels DEF EnqueueUnclassified, HandleClassify, At
  <2>7. \A v \in Workers : ~Begins(v, m)'
    BY <1>1, <2>1 DEF Spent
  <2> QED BY <2>3, <2>5, <2>6, <2>7 DEF Single, Spent
<1>3. CASE ~EnqueueUnclassified(w)
  <2>1. queue'[m] = queue[m]
    BY <1>0, <1>3, OnlyScanSends
  <2>2. Single(m)' /\ (Spent(m) => Spent(m)')
    BY <1>0, <1>1, <2>1, SingleStays
  <2>3. CASE HandleClassify(w) /\ session[w].msg.email = e
    <3>1. session[w].msg = m /\ session[w].pc = "handle"
      BY <1>0, <2>3, MessageFields DEF HandleClassify, At, FitSession, Fits
    <3>2. Begins(w, m)
      BY <3>1 DEF Begins, Begun
    <3>3. queue[m] = 0 /\ \A v \in Workers \ {w} : ~Begins(v, m)
      BY <1>0, <3>2, LastCopy
    <3>4. ~MarkRunRunning(w)
      BY <3>1 DEF MarkRunRunning
    <3>5. ~Begins(w, m)'
      BY <3>4, BeginsOnce
    <3> QED BY <1>1, <2>1, <2>2, <3>3, <3>5 DEF Spent
  <2>4. CASE ~(HandleClassify(w) /\ session[w].msg.email = e)
    <3>1. label'[e] = label[e]
      <4>1. CASE HandleClassify(w)
        <5>1. \E v : WriteVerdict(session[w].msg.email, v)
          BY <4>1, Zenon DEF HandleClassify
        <5> QED BY <1>0, <2>4, <4>1, <5>1 DEF WriteVerdict
      <4> QED BY <4>1, OthersKeepLabels
    <3> QED BY <1>0, <2>2, <3>1
  <2> QED BY <2>3, <2>4
<1> QED BY <1>2, <1>3

(* What a handler leaves in its worker's session.                           *)
LEMMA HandleMoves ==
  ASSUME Typed, NEW w \in Workers, Handle(w)
  PROVE  \/ session'[w] = Idle
         \/ /\ session[w].pc \in Uncounted /\ session'[w].pc \in Uncounted
            /\ session'[w].msg = session[w].msg /\ session'[w].seen = session[w].seen
            /\ session'[w].unclassified = session[w].unclassified
            /\ session'[w].summaries = session[w].summaries
            /\ session'[w].errors = session[w].errors
<1>0. session \in [Workers -> FitSession] /\ session[w] \in Session
  BY DEF Typed, FitSession
<1>1. session[w].pc \in Uncounted
  BY DEF Handle, MarkRunRunning, HandleIngest, EnqueueUnclassified, EnqueueUnsummarized,
         HandleClassify, EnqueueSummary, ClaimHygiene, HandleSummarizeEmail, ReadCategory,
         WriteDigest, HandleTechNewsCluster, HandleUnsubscribe, At, Uncounted
<1>2. ASSUME NEW pc \in Uncounted, Goto(w, pc)
      PROVE  /\ session'[w].pc \in Uncounted
             /\ session'[w].msg = session[w].msg /\ session'[w].seen = session[w].seen
             /\ session'[w].unclassified = session[w].unclassified
             /\ session'[w].summaries = session[w].summaries
             /\ session'[w].errors = session[w].errors
  <2> DEFINE s == [session[w] EXCEPT !.pc = pc]
  <2>1. session'[w] = s
    BY <1>0, <1>2 DEF Goto
  <2>2. /\ s.pc = pc /\ s.msg = session[w].msg /\ s.seen = session[w].seen
        /\ s.unclassified = session[w].unclassified /\ s.summaries = session[w].summaries
        /\ s.errors = session[w].errors
    BY <1>0 DEF Session
  <2> HIDE DEF s
  <2> QED BY <1>2, <2>1, <2>2
<1>3. CASE ClaimHygiene(w)
  <2> DEFINE c == HygieneClaim(AccountOf[session[w].msg.email])
             s == [session[w] EXCEPT !.pc = "load_run", !.claims = @ \cup {c}]
  <2>1. session' = [session EXCEPT ![w] = s] \/ Goto(w, "load_run")
    BY <1>3 DEF ClaimHygiene
  <2>2. /\ s.pc = "load_run" /\ s.msg = session[w].msg /\ s.seen = session[w].seen
        /\ s.unclassified = session[w].unclassified /\ s.summaries = session[w].summaries
        /\ s.errors = session[w].errors
    BY <1>0 DEF Session
  <2> HIDE DEF s
  <2>3. ASSUME session' = [session EXCEPT ![w] = s]
        PROVE  session'[w] = s
    BY <1>0, <2>3
  <2>4. "load_run" \in Uncounted
    BY DEF Uncounted
  <2> QED BY <1>1, <1>2, <2>1, <2>2, <2>3, <2>4
<1>4. CASE ReadCategory(w)
  <2> DEFINE s == [session[w] EXCEPT !.pc = "write_digest",
                                     !.items = CategoryItems(session[w].msg.category)]
  <2>1. \/ session' = [session EXCEPT ![w] = s]
        \/ Goto(w, "load_run") \/ GiveBack(w, queue)
    BY <1>4 DEF ReadCategory
  <2>2. /\ s.pc = "write_digest" /\ s.msg = session[w].msg /\ s.seen = session[w].seen
        /\ s.unclassified = session[w].unclassified /\ s.summaries = session[w].summaries
        /\ s.errors = session[w].errors
    BY <1>0 DEF Session
  <2> HIDE DEF s
  <2>3. ASSUME session' = [session EXCEPT ![w] = s]
        PROVE  session'[w] = s
    BY <1>0, <2>3
  <2>4. "load_run" \in Uncounted /\ "write_digest" \in Uncounted
    BY DEF Uncounted
  <2>5. ASSUME GiveBack(w, queue) PROVE session'[w] = Idle
    BY <1>0, <2>5 DEF GiveBack
  <2> QED BY <1>1, <1>2, <2>1, <2>2, <2>3, <2>4, <2>5
<1>5. CASE ~ClaimHygiene(w) /\ ~ReadCategory(w)
  <2>1. GiveBack(w, queue) \/ \E pc \in Uncounted : Goto(w, pc)
    BY <1>5
       DEF Handle, MarkRunRunning, HandleIngest, EnqueueUnclassified, EnqueueUnsummarized,
           HandleClassify, EnqueueSummary, HandleSummarizeEmail, WriteDigest,
           HandleTechNewsCluster, HandleUnsubscribe, Uncounted
  <2>2. ASSUME GiveBack(w, queue) PROVE session'[w] = Idle
    BY <1>0, <2>2 DEF GiveBack
  <2> QED BY <1>1, <1>2, <2>1, <2>2
<1> QED BY <1>3, <1>4, <1>5

(* What the finalizer's steps leave there.                                  *)
LEMMA FinalizeMoves ==
  ASSUME Typed, NEW w \in Workers, Finalize(w)
  PROVE  \/ session'[w] = Idle
         \/ /\ session'[w].msg = session[w].msg
            /\ \/ session'[w].seen = session[w].seen /\ session[w].pc # "load_run"
               \/ /\ session[w].pc = "load_run"
                  /\ \/ session'[w].seen = Started(session[w].seen)
                     \/ session[w].msg.kind = "hygiene"
                     \/ session'[w].seen = run
            /\ \/ /\ session[w].pc = "count_unclassified" /\ session'[w].pc = "count_summaries"
                  /\ session'[w].unclassified = (PendingUnclassified # {})
                  /\ session'[w].summaries = session[w].summaries
               \/ /\ session[w].pc = "count_summaries" /\ session'[w].pc = "count_cluster"
                  /\ session'[w].summaries = (PendingSummaries # {})
                  /\ session'[w].unclassified = session[w].unclassified
               \/ /\ \/ session'[w].pc \notin Uncounted \cup {"count_summaries"}
                     \/ session[w].pc \in Uncounted
                  /\ session'[w].unclassified = session[w].unclassified
                  /\ session'[w].summaries = session[w].summaries
            /\ session'[w].errors = session[w].errors \/ session'[w].errors = PromptErrors
<1>0. session \in [Workers -> FitSession] /\ session[w] \in Session
  BY DEF Typed, FitSession
<1>1. CASE LoadRun(w)
  BY <1>0, <1>1 DEF LoadRun, Session, Uncounted
<1>2. CASE CountUnclassified(w)
  BY <1>0, <1>2 DEF CountUnclassified, Session
<1>3. CASE CountSummaries(w)
  BY <1>0, <1>3 DEF CountSummaries, Session
<1>4. CASE CountCluster(w) \/ CountCategories(w)
  BY <1>0, <1>4 DEF CountCluster, CountCategories, Session, Uncounted
<1>5. CASE CountErrors(w)
  BY <1>0, <1>5 DEF CountErrors, Session, Uncounted
<1>6. CASE DispatchCluster(w)
  BY <1>0, <1>6 DEF DispatchCluster, Goto, Session, Uncounted
<1>7. CASE DispatchDigests(w)
  BY <1>0, <1>7 DEF DispatchDigests, Session, Uncounted
<1>8. CASE Commit(w)
  BY <1>0, <1>8 DEF Commit
<1> QED BY <1>1, <1>2, <1>3, <1>4, <1>5, <1>6, <1>7, <1>8 DEF Finalize

(* The scan's record reads the row again before it counts.                  *)
LEMMA WorkerStatusSeen ==
  ASSUME Undisturbed, Typed, Untouched, ScanOnce, StatusSeen, NEW w \in Workers,
         Handle(w) \/ Finalize(w)
  PROVE  StatusSeen'
<1>0. /\ session \in [Workers -> FitSession] /\ session[w] \in FitSession
      /\ \A v \in Workers \ {w} : session'[v] = session[v]
      /\ Idle.seen = "absent"
  BY LocalStep DEF Typed, FitSession, OnlyMoves, Idle
<1>1. CASE HandleIngest(w)
  <2>1. /\ \A v \in Workers \ {w} : session[v] = Idle
        /\ Goto(w, "enqueue_unclassified") /\ session[w].msg.kind = "ingest"
    BY <1>1, ScanIsFirst, RunMoves DEF HandleIngest, At
  <2>2. /\ session'[w].pc = "enqueue_unclassified"
        /\ session'[w].msg = session[w].msg
    BY <1>0, <2>1 DEF Goto, FitSession, Session
  <2> QED BY <1>0, <2>1, <2>2 DEF StatusSeen, IngestSteps
<1>2. CASE ~HandleIngest(w)
  <2> SUFFICES ASSUME run' \notin Unstarted PROVE StatusSeen'
    BY DEF StatusSeen
  <2>1. run \notin Unstarted
    BY <1>2, RunMoves
  <2>2. \A v \in Workers : session[v].seen = "queued" =>
          session[v].msg.kind = "ingest" /\ session[v].pc \in IngestSteps \cup {"load_run"}
    BY <2>1 DEF StatusSeen
  <2> SUFFICES ASSUME session'[w].seen = "queued"
               PROVE  /\ session'[w].msg.kind = "ingest"
                      /\ session'[w].pc \in IngestSteps \cup {"load_run"}
    BY <1>0, <2>2 DEF StatusSeen
  <2>3. CASE Handle(w)
    <3>1. session'[w].seen = session[w].seen /\ session'[w].msg = session[w].msg
      BY <1>0, <2>3, HandleMoves
    <3>2. session[w].pc \in IngestSteps /\ session[w].msg.kind = "ingest"
      BY <2>2, <2>3, <3>1
         DEF Handle, MarkRunRunning, HandleIngest, EnqueueUnclassified, EnqueueUnsummarized,
             HandleClassify, EnqueueSummary, ClaimHygiene, HandleSummarizeEmail,
             ReadCategory, WriteDigest, HandleTechNewsCluster, HandleUnsubscribe, At,
             IngestSteps
    <3>3. EnqueueUnclassified(w) \/ EnqueueUnsummarized(w)
      BY <2>3, <3>2
         DEF Handle, MarkRunRunning, HandleIngest, HandleClassify, EnqueueSummary,
             ClaimHygiene, HandleSummarizeEmail, ReadCategory, WriteDigest,
             HandleTechNewsCluster, HandleUnsubscribe, At, IngestSteps
    <3>4. session'[w].pc \in IngestSteps \cup {"load_run"}
      BY <1>0, <3>3
         DEF EnqueueUnclassified, EnqueueUnsummarized, Goto, FitSession, Session, IngestSteps
    <3> QED BY <3>1, <3>2, <3>4
  <2>4. CASE Finalize(w)
    <3>1. session'[w] # Idle
      BY <1>0
    <3>2. CASE session'[w].seen = session[w].seen /\ session[w].pc # "load_run"
      <4>1. session[w].pc \notin IngestSteps \cup {"load_run"}
        BY <2>4, <3>2
           DEF Finalize, LoadRun, CountUnclassified, CountSummaries, CountCluster,
               CountCategories, CountErrors, DispatchCluster, DispatchDigests, Commit,
               IngestSteps
      <4> QED BY <2>2, <3>2, <4>1
    <3>3. CASE session'[w].seen = Started(session[w].seen) \/ session'[w].seen = run
      BY <2>1, <3>3 DEF Started, Unstarted
    <3>4. CASE session[w].msg.kind = "hygiene" /\ session[w].pc = "load_run"
      <4>1. LoadRun(w)
        BY <2>4, <3>4
           DEF Finalize, CountUnclassified, CountSummaries, CountCluster,
               CountCategories, CountErrors, DispatchCluster, DispatchDigests, Commit
      <4>2. session'[w].seen = run
        BY <1>0, <2>2, <3>4, <4>1 DEF LoadRun, FitSession, Session
      <4> QED BY <2>1, <4>2 DEF Unstarted
    <3> QED BY <2>4, <3>1, <3>2, <3>3, <3>4, FinalizeMoves
  <2> QED BY <2>3, <2>4
<1> QED BY <1>1, <1>2

(* A finalizer reports only what it found, and what it found stays true.    *)
LEMMA WorkerViews ==
  ASSUME Undisturbed, Typed, Untouched, ScanOnce, VerdictOnce, Views, NEW w \in Workers,
         Handle(w) \/ Finalize(w)
  PROVE  Views'
<1>0. /\ session \in [Workers -> FitSession] /\ session[w] \in FitSession
      /\ \A v \in Workers \ {w} : session'[v] = session[v]
      /\ Idle.unclassified = TRUE /\ Idle.summaries = TRUE
      /\ \A v \in Workers : /\ session[v].unclassified \in BOOLEAN
                            /\ session[v].summaries \in BOOLEAN
  BY LocalStep DEF Typed, FitSession, Session, OnlyMoves, Idle
<1>1. ASSUME ~HandleIngest(w)
      PROVE  /\ PendingUnclassified = {} => PendingUnclassified' = {}
             /\ PendingUnclassified = {} /\ PendingSummaries = {} => PendingSummaries' = {}
  BY <1>1, SettledStays
<1>2. ASSUME HandleIngest(w)
      PROVE  \A v \in Workers : session[v].unclassified
  <2>1. \A v \in Workers \ {w} : session[v] = Idle
    BY <1>2, ScanIsFirst
  <2>2. session[w].unclassified
    BY <1>2 DEF HandleIngest, At, Views, Uncounted
  <2> QED BY <1>0, <2>1, <2>2
<1>3. ASSUME NEW v \in Workers \ {w}
      PROVE  /\ session'[v].pc \in Uncounted => session'[v].unclassified
             /\ session'[v].pc \in Uncounted \cup {"count_summaries"} => session'[v].summaries
             /\ ~session'[v].unclassified => PendingUnclassified' = {}
             /\ ~session'[v].unclassified /\ ~session'[v].summaries => PendingSummaries' = {}
  <2>1. session'[v] = session[v]
    BY <1>0
  <2>2. /\ session[v].pc \in Uncounted => session[v].unclassified
        /\ session[v].pc \in Uncounted \cup {"count_summaries"} => session[v].summaries
        /\ ~session[v].unclassified => PendingUnclassified = {}
        /\ ~session[v].unclassified /\ ~session[v].summaries => PendingSummaries = {}
    BY DEF Views
  <2>3. ~session[v].unclassified => ~HandleIngest(w)
    BY <1>2
  <2> QED BY <1>1, <2>1, <2>2, <2>3, Zenon
<1>4. /\ session[w].pc \in Uncounted => session[w].unclassified
      /\ session[w].pc \in Uncounted \cup {"count_summaries"} => session[w].summaries
      /\ ~session[w].unclassified => PendingUnclassified = {}
      /\ ~session[w].unclassified /\ ~session[w].summaries => PendingSummaries = {}
  BY DEF Views
<1>5. /\ session'[w].pc \in Uncounted => session'[w].unclassified
      /\ session'[w].pc \in Uncounted \cup {"count_summaries"} => session'[w].summaries
      /\ ~session'[w].unclassified => PendingUnclassified' = {}
      /\ ~session'[w].unclassified /\ ~session'[w].summaries => PendingSummaries' = {}
  <2>1. CASE session'[w] = Idle
    BY <1>0, <2>1
  <2>2. CASE /\ session[w].pc \in Uncounted
             /\ session'[w].unclassified = session[w].unclassified
             /\ session'[w].summaries = session[w].summaries
    BY <1>4, <2>2
  <2>3. CASE Finalize(w)
    <3>1. ~HandleIngest(w) /\ "count_summaries" \notin Uncounted /\ "count_cluster" \notin Uncounted
      BY <2>3
         DEF Finalize, LoadRun, CountUnclassified, CountSummaries, CountCluster,
             CountCategories, CountErrors, DispatchCluster, DispatchDigests, Commit,
             HandleIngest, At, Uncounted
    <3>2. CASE /\ session[w].pc = "count_unclassified" /\ session'[w].pc = "count_summaries"
               /\ session'[w].unclassified = (PendingUnclassified # {})
               /\ session'[w].summaries = session[w].summaries
      <4>1. session[w].pc \in Uncounted
        BY <3>2 DEF Uncounted
      <4> QED BY <1>1, <1>4, <3>1, <3>2, <4>1
    <3>3. CASE /\ session[w].pc = "count_summaries" /\ session'[w].pc = "count_cluster"
               /\ session'[w].summaries = (PendingSummaries # {})
               /\ session'[w].unclassified = session[w].unclassified
      BY <1>1, <1>4, <3>1, <3>3
    <3>4. CASE /\ session'[w].pc \notin Uncounted \cup {"count_summaries"}
               /\ session'[w].unclassified = session[w].unclassified
               /\ session'[w].summaries = session[w].summaries
      BY <1>1, <1>4, <3>1, <3>4
    <3> QED BY <2>1, <2>2, <2>3, <3>2, <3>3, <3>4, FinalizeMoves
  <2> QED BY <2>1, <2>2, <2>3, HandleMoves
<1> QED BY <1>3, <1>5 DEF Views

(* A run ends only when nothing is pending.                                 *)
LEMMA WorkerEnded ==
  ASSUME Undisturbed, Typed, PromiseInv, NEW w \in Workers, Handle(w) \/ Finalize(w)
  PROVE  EndedSettled'
<1> SUFFICES ASSUME run' \in Terminal PROVE PendingUnclassified' = {} /\ PendingSummaries' = {}
  BY DEF EndedSettled
<1>1. ~HandleIngest(w) /\ (run \in Terminal \/ (Commit(w) /\ Drained(w)))
  BY RunMoves, ScanIsFirst DEF PromiseInv, Terminal, Commit, HandleIngest, At
<1>2. PendingUnclassified = {} /\ PendingSummaries = {}
  BY <1>1 DEF PromiseInv, EndedSettled, Views, Drained
<1> QED BY <1>1, <1>2, SettledStays DEF PromiseInv

(* The run row appears before its scan is sent, and both only once.         *)
LEMMA StarterPromise ==
  ASSUME Undisturbed, Typed, PromiseInv, Start
  PROVE  /\ PromiseInv'
         /\ \/ run' = run
            \/ run = "absent" /\ run' = "queued"
         /\ PendingUnclassified' = PendingUnclassified /\ PendingSummaries' = PendingSummaries
<1>0. /\ queue \in [Message -> Nat] /\ Trigger = "scheduled"
      /\ StartMessages = {Ingest(a) : a \in Accounts}
      /\ \A a \in Accounts : Ingest(a) \in Message /\ Ingest(a).kind = "ingest"
      /\ \A e \in Emails : Classify(e) \in Message /\ Classify(e).kind = "classify"
  BY MessageType DEF Undisturbed, Typed, TypeOK, StartMessages, Ingest, Classify
<1>1. /\ session' = session /\ member' = member /\ unread' = unread
      /\ label' = label /\ newsletters' = newsletters /\ summarized' = summarized
      /\ failed' = failed /\ clusterFailed' = clusterFailed
  BY <1>0 DEF Start, FanoutCommit, FanoutSend, ManualSend, ManualCommit, CreateRun, pipeline
<1>2. PendingUnclassified' = PendingUnclassified /\ PendingSummaries' = PendingSummaries
  BY <1>1 DEF PendingUnclassified, PendingSummaries, AwaitingSummary, NeedsSummary
<1>3. \A m : \A w \in Workers : Begins(w, m)' = Begins(w, m)
  BY <1>1 DEF Begins
<1>4. CASE FanoutCommit
  <2>1. /\ run = "absent" /\ run' = "queued" /\ starter = "new" /\ starter' = "half"
        /\ queue' = queue
    BY <1>4 DEF FanoutCommit, CreateRun, PromiseInv, ScanOnce
  <2>2. \A m : Spent(m)' = Spent(m) /\ Single(m)' = Single(m)
    BY <1>3, <2>1 DEF Spent, Single
  <2>3. Untouched' /\ StatusSeen'
    BY <1>1, <2>1 DEF PromiseInv, Untouched, StatusSeen, Unstarted
  <2>4. ScanOnce'
    BY <1>1, <2>1, <2>2 DEF PromiseInv, ScanOnce, Unstarted
  <2>5. VerdictOnce'
    BY <1>1, <2>2 DEF PromiseInv, VerdictOnce
  <2>6. Views' /\ EndedSettled'
    BY <1>1, <1>2, <2>1 DEF PromiseInv, Views, EndedSettled, Terminal
  <2> QED BY <1>2, <2>1, <2>3, <2>4, <2>5, <2>6 DEF PromiseInv
<1>5. CASE FanoutSend
  <2>1. /\ run = "queued" /\ run' = "queued" /\ starter = "half" /\ starter' = "done"
        /\ Send(StartMessages)
    BY <1>5 DEF FanoutSend, PromiseInv, ScanOnce
  <2>2. \A m \in Message : m.kind # "ingest" => queue'[m] = queue[m]
    BY <1>0, <2>1 DEF Send, Sent
  <2>3. \A a \in Accounts : Single(Ingest(a))'
    <3> SUFFICES ASSUME NEW a \in Accounts PROVE Single(Ingest(a))'
      OBVIOUS
    <3>1. Spent(Ingest(a))
      BY <2>1 DEF PromiseInv, ScanOnce
    <3>2. queue'[Ingest(a)] = 1
      BY <1>0, <2>1, <3>1 DEF Send, Sent, Spent
    <3> QED BY <1>3, <3>1, <3>2 DEF Single, Spent
  <2>4. \A w \in Workers : session[w].pc # "enqueue_unclassified"
    BY <2>1 DEF PromiseInv, Untouched, Unstarted, Idle, Begun
  <2>5. Untouched' /\ StatusSeen'
    BY <1>1, <2>1, <2>2 DEF PromiseInv, Untouched, StatusSeen, Unstarted
  <2>6. ScanOnce'
    BY <1>1, <2>1, <2>3, <2>4 DEF ScanOnce, Unstarted
  <2>7. VerdictOnce'
    <3>1. \A e \in Emails : /\ Single(Classify(e)) => Single(Classify(e))'
                            /\ Spent(Classify(e)) => Spent(Classify(e))'
      BY <1>0, <1>3, <2>2 DEF Single, Spent
    <3> QED BY <1>1, <3>1 DEF PromiseInv, VerdictOnce
  <2>8. Views' /\ EndedSettled'
    BY <1>1, <1>2, <2>1 DEF PromiseInv, Views, EndedSettled, Terminal
  <2> QED BY <1>2, <2>1, <2>5, <2>6, <2>7, <2>8 DEF PromiseInv
<1> QED BY <1>0, <1>4, <1>5 DEF Start, ManualSend, ManualCommit

(* A worker that receives knows nothing yet.                                *)
LEMMA ReceivedSession ==
  ASSUME Typed, NEW w \in Workers, NEW m \in Message, Receive(w, m)
  PROVE  /\ \A v \in Workers \ {w} : session'[v] = session[v]
         /\ session'[w].msg = m /\ session'[w].pc \in Begun /\ session'[w].seen = run
         /\ session'[w].unclassified = TRUE /\ session'[w].summaries = TRUE
         /\ session'[w].categories = Categories /\ session'[w].errors = FALSE
<1>1. session \in [Workers -> FitSession] /\ session[w] = Idle /\ session[w] \in Session
  BY DEF Receive, Typed, FitSession
<1> QED BY <1>1 DEF Receive, Begun, Session, Idle

(* A worker that receives takes the copy it begins.                         *)
LEMMA ReceivedOnce ==
  ASSUME Typed, NEW w \in Workers, NEW m \in Message, Receive(w, m), NEW n \in Message
  PROVE  (Spent(n) => Spent(n)') /\ (Single(n) => Single(n)')
<1>0. /\ session \in [Workers -> FitSession] /\ queue \in [Message -> Nat]
      /\ session[w] = Idle /\ session[w] \in Session
      /\ \A v \in Workers \ {w} : session'[v] = session[v]
      /\ queue' = [queue EXCEPT ![m] = @ - 1] /\ queue[m] > 0
  BY DEF Receive, Typed, TypeOK, FitSession
<1>1. session'[w].msg = m /\ session'[w].pc \in Begun
  BY ReceivedSession
<1>2. ~Begins(w, n)
  BY <1>0 DEF Begins, Idle, Begun
<1>3. CASE m # n
  <2>1. queue'[n] = queue[n] /\ \A v \in Workers : Begins(v, n)' = Begins(v, n)
    BY <1>0, <1>1, <1>2, <1>3 DEF Begins
  <2> QED BY <2>1 DEF Spent, Single
<1>4. CASE m = n
  <2>1. ~Spent(n)
    BY <1>0, <1>4 DEF Spent
  <2>2. ASSUME Single(n) PROVE Single(n)'
    <3>1. queue[n] = 1 /\ \A v \in Workers : ~Begins(v, n)
      BY <1>0, <1>4, <2>1, <2>2 DEF Single
    <3>2. queue'[n] = 0 /\ Begins(w, n)' /\ \A v \in Workers \ {w} : ~Begins(v, n)'
      BY <1>0, <1>1, <1>4, <3>1 DEF Begins
    <3> QED BY <3>2 DEF Single
  <2> QED BY <2>1, <2>2
<1> QED BY <1>3, <1>4

(* A delivery keeps the invariant.                                          *)
LEMMA ReceivedPromise ==
  ASSUME Undisturbed, Typed, PromiseInv, NEW w \in Workers, NEW m \in Message, Receive(w, m)
  PROVE  /\ PromiseInv' /\ run' = run
         /\ PendingUnclassified' = PendingUnclassified /\ PendingSummaries' = PendingSummaries
<1>0. /\ session \in [Workers -> FitSession] /\ queue \in [Message -> Nat]
      /\ session[w] = Idle /\ session[w] \in Session
      /\ \A v \in Workers \ {w} : session'[v] = session[v]
      /\ queue' = [queue EXCEPT ![m] = @ - 1] /\ queue[m] > 0
  BY DEF Receive, Typed, TypeOK, FitSession
<1>1. /\ session'[w].msg = m /\ session'[w].pc \in Begun /\ session'[w].seen = run
      /\ session'[w].unclassified = TRUE /\ session'[w].summaries = TRUE
      /\ session'[w].errors = FALSE
  BY ReceivedSession
<1>2. /\ starter' = starter /\ run' = run /\ member' = member /\ unread' = unread
      /\ label' = label /\ newsletters' = newsletters /\ summarized' = summarized
      /\ failed' = failed /\ clusterFailed' = clusterFailed
  BY DEF Receive, pipeline
<1>3. PendingUnclassified' = PendingUnclassified /\ PendingSummaries' = PendingSummaries
  BY <1>2 DEF PendingUnclassified, PendingSummaries, AwaitingSummary, NeedsSummary
<1>4. /\ \A n \in Message : (Spent(n) => Spent(n)') /\ (Single(n) => Single(n)')
      /\ \A a \in Accounts : Ingest(a) \in Message
      /\ \A e \in Emails : Classify(e) \in Message
  BY ReceivedOnce, MessageType
<1>5. Untouched'
  <2> SUFFICES ASSUME run \in Unstarted PROVE Untouched'
    BY <1>2 DEF Untouched
  <2>1. m.kind = "ingest" /\ \A n \in Message : n.kind # "ingest" => queue[n] = 0
    BY <1>0 DEF PromiseInv, Untouched
  <2>2. run = "queued"
    <3>1. PICK a \in Accounts : m = Ingest(a)
      BY <2>1, MessageFields
    <3>2. starter = "done"
      BY <1>0, <3>1 DEF PromiseInv, ScanOnce, Spent
    <3> QED BY <3>2 DEF PromiseInv, ScanOnce, Unstarted
  <2>3. \A n \in Message : n.kind # "ingest" => queue'[n] = 0
    BY <1>0, <2>1
  <2> QED BY <1>0, <1>1, <1>2, <2>1, <2>2, <2>3 DEF PromiseInv, Untouched
<1>6. ScanOnce'
  <2>1. session'[w].pc # "enqueue_unclassified"
    BY <1>1 DEF Begun
  <2>2. \A v \in Workers : session'[v].pc = "enqueue_unclassified" =>
          v # w /\ session[v].pc = "enqueue_unclassified"
    BY <1>0, <2>1
  <2> QED BY <1>2, <1>4, <2>2 DEF PromiseInv, ScanOnce
<1>7. VerdictOnce'
  BY <1>2, <1>4 DEF PromiseInv, VerdictOnce
<1>8. StatusSeen'
  BY <1>0, <1>1, <1>2 DEF PromiseInv, StatusSeen, Unstarted
<1>9. Views'
  BY <1>0, <1>1, <1>3 DEF PromiseInv, Views
<1>10. EndedSettled'
  BY <1>0, <1>1, <1>2, <1>3 DEF PromiseInv, EndedSettled
<1> QED BY <1>2, <1>3, <1>5, <1>6, <1>7, <1>8, <1>9, <1>10 DEF PromiseInv

(* Mail that is read owes nothing any more.                                 *)
LEMMA ReadPromise ==
  ASSUME Typed, PromiseInv, NEW e \in Emails, MarkRead(e)
  PROVE  /\ PromiseInv' /\ run' = run
         /\ PendingUnclassified' \subseteq PendingUnclassified
         /\ PendingSummaries' \subseteq PendingSummaries
<1>1. /\ starter' = starter /\ run' = run /\ member' = member /\ unread' = unread \ {e}
      /\ label' = label /\ newsletters' = newsletters /\ summarized' = summarized
      /\ failed' = failed /\ clusterFailed' = clusterFailed
      /\ queue' = queue /\ session' = session
  BY DEF MarkRead, pipeline
<1>2. /\ PendingUnclassified' \subseteq PendingUnclassified
      /\ PendingSummaries' \subseteq PendingSummaries
  BY <1>1 DEF PendingUnclassified, PendingSummaries, AwaitingSummary, NeedsSummary
<1>3. \A m : Spent(m)' = Spent(m) /\ Single(m)' = Single(m)
  BY <1>1 DEF Spent, Single, Begins
<1>4. Untouched' /\ StatusSeen'
  BY <1>1 DEF PromiseInv, Untouched, StatusSeen
<1>5. ScanOnce' /\ VerdictOnce'
  BY <1>1, <1>3 DEF PromiseInv, ScanOnce, VerdictOnce
<1>6. Views' /\ EndedSettled'
  BY <1>1, <1>2 DEF PromiseInv, Views, EndedSettled
<1> QED BY <1>1, <1>2, <1>4, <1>5, <1>6 DEF PromiseInv

(* What a worker does to the status and to what the run owes.               *)
LEMMA WorkerPromise ==
  ASSUME Undisturbed, Typed, PromiseInv, NEW w \in Workers, Handle(w) \/ Finalize(w)
  PROVE  /\ PromiseInv'
         /\ \/ run' = run /\ run \in {"queued", "running"}
            \/ run = "queued" /\ run' = "running"
            \/ /\ (run = "absent" /\ run' = run) \/ (run \in Terminal /\ run' \in Terminal)
               /\ PendingUnclassified = {} /\ PendingUnclassified' = {}
               /\ PendingSummaries = {} /\ PendingSummaries' = {}
            \/ /\ run = "running" /\ run' \in Terminal
               /\ PendingUnclassified = {} /\ PendingUnclassified' = {}
               /\ PendingSummaries = {} /\ PendingSummaries' = {}
<1>1. PromiseInv'
  BY WorkerUntouched, WorkerScanOnce, WorkerVerdictOnce, WorkerStatusSeen, WorkerViews,
     WorkerEnded DEF PromiseInv
<1>2. run \in {"absent", "queued", "running"} \cup Terminal
  BY DEF Typed, TypeOK, Terminal
<1>3. CASE run' = run
  <2>1. ASSUME run = "absent"
        PROVE  /\ PendingUnclassified = {} /\ PendingUnclassified' = {}
               /\ PendingSummaries = {} /\ PendingSummaries' = {}
    <3>1. member = {} /\ member' = {}
      BY <1>1, <1>3, <2>1 DEF PromiseInv, Untouched, Unstarted
    <3> QED BY <3>1 DEF PendingUnclassified, PendingSummaries, AwaitingSummary
  <2>2. ASSUME run \in Terminal
        PROVE  /\ PendingUnclassified = {} /\ PendingUnclassified' = {}
               /\ PendingSummaries = {} /\ PendingSummaries' = {}
    BY <1>1, <1>3, <2>2 DEF PromiseInv, EndedSettled
  <2> QED BY <1>1, <1>2, <1>3, <2>1, <2>2
<1>4. CASE HandleIngest(w)
  BY <1>1, <1>4, RunMoves DEF PromiseInv, Commit, HandleIngest, At
<1>5. CASE Commit(w) /\ Drained(w) /\ run' # run
  <2>1. run \notin Unstarted /\ run' \in Terminal
    BY <1>5, RunMoves DEF PromiseInv, Commit, HandleIngest, At, Terminal
  <2>2. PendingUnclassified = {} /\ PendingSummaries = {}
    BY <1>5 DEF PromiseInv, Views, Drained
  <2>3. PendingUnclassified' = {} /\ PendingSummaries' = {}
    BY <1>1, <2>1 DEF PromiseInv, EndedSettled
  <2> QED BY <1>1, <1>2, <2>1, <2>2, <2>3 DEF Unstarted
<1> QED BY <1>3, <1>4, <1>5, RunMoves DEF PromiseInv

(* Every step keeps the invariant.                                          *)
LEMMA NextPromise ==
  ASSUME Undisturbed, Typed, PromiseInv, [Next]_vars
  PROVE  PromiseInv'
<1>1. CASE UNCHANGED vars
  BY <1>1 DEF vars, pipeline, PromiseInv, Untouched, ScanOnce, VerdictOnce, StatusSeen,
              Views, EndedSettled, Spent, Single, Begins, PendingUnclassified,
              PendingSummaries, AwaitingSummary, NeedsSummary
<1> QED BY <1>1, StarterPromise, WorkerPromise, ReceivedPromise, ReadPromise, NothingFails
        DEF Next, Rest

(* Before the run there is nothing.                                        *)
LEMMA StartsPromised ==
  ASSUME Init
  PROVE  PromiseInv
<1>1. /\ \A m \in Message : queue[m] = 0
      /\ \A w \in Workers : session[w] = Idle
      /\ Idle.pc = "idle" /\ Idle.seen = "absent"
      /\ Idle.unclassified = TRUE /\ Idle.summaries = TRUE
      /\ run = "absent" /\ starter = "new" /\ member = {}
  BY DEF Init, Idle
<1>2. \A m \in Message : Spent(m)
  BY <1>1 DEF Spent, Begins, Begun
<1>3. Untouched /\ StatusSeen
  BY <1>1 DEF Untouched, StatusSeen, Unstarted
<1>4. ScanOnce /\ VerdictOnce
  BY <1>1, <1>2, MessageType DEF ScanOnce, VerdictOnce, Single, Unstarted
<1>5. Views /\ EndedSettled
  BY <1>1 DEF Views, EndedSettled, Terminal
<1> QED BY <1>3, <1>4, <1>5 DEF PromiseInv

LEMMA PromiseInvAlways ==
  ASSUME Undisturbed
  PROVE  Spec => []PromiseInv
<1>1. Init => PromiseInv
  BY StartsPromised
<1>2. Typed /\ PromiseInv /\ [Next]_vars => PromiseInv'
  BY NextPromise
<1> QED BY <1>1, <1>2, TypedAlways, PTL DEF Spec

-----------------------------------------------------------------------------
(* A run whose start went through is never left alone                       *)

(* What the dispatch query finds is one topic: every email that may be      *)
(* judged a newsletter routes to the same cluster.  Without it a job may    *)
(* write nothing (small_newsletter_groups.cfg).                             *)
MayBeNewsletter(e) == \E v \in Verdicts[e] : v.newsletter
OneCluster ==
  \A e, f \in Emails : MayBeNewsletter(e) /\ MayBeNewsletter(f) => ClusterKey[e] = ClusterKey[f]

(* A worker has read that the run ended only when it has, and a worker that *)
(* holds a message has found the run's row.                                 *)
SeenEnded ==
  \A w \in Workers :
    /\ session[w].seen \in Terminal => run \in Terminal
    /\ session[w].pc # "idle" => session[w].seen # "absent"

(* A claimed cluster job has left its rows, or waits, or has not begun; and *)
(* it has a group to write about.                                           *)
Groupable(S) == Cardinality(S) >= MinClusterNewsletters /\ \A e \in S : MayBeNewsletter(e)
ClusterSent == ClusterClaim \in claimed \/ \E w \in Workers : ClusterClaim \in session[w].claims
ClusterQueued ==
  \E S \in SUBSET Emails :
    Waits(TechNewsCluster(S)) \/ \E w \in Workers : Begins(w, TechNewsCluster(S))
ClusterCarried == clustered \/ clusterFailed \/ ClusterQueued
ClusterInv ==
  /\ \A e \in newsletters : MayBeNewsletter(e)
  /\ \A S \in SUBSET Emails : InFlight(TechNewsCluster(S)) => Groupable(S)
  /\ ClusterSent => ClusterCarried

(* Nothing is delivered, and no worker goes on, without a row.              *)
LEMMA RowIsThere ==
  ASSUME PromiseInv, NEW m \in Message, queue[m] > 0
  PROVE  run # "absent"
<1> SUFFICES ASSUME run = "absent" PROVE FALSE
  OBVIOUS
<1>1. m.kind = "ingest"
  BY DEF PromiseInv, Untouched, Unstarted
<1>2. PICK a \in Accounts : m = Ingest(a)
  BY <1>1, MessageFields
<1> QED BY <1>2 DEF PromiseInv, ScanOnce, Spent

LEMMA NextSeenEnded ==
  ASSUME Undisturbed, Typed, PromiseInv, SeenEnded, [Next]_vars
  PROVE  SeenEnded'
<1>0. session \in [Workers -> FitSession] /\ Idle.pc = "idle" /\ Idle.seen = "absent"
  BY DEF Typed, Idle
<1>1. CASE UNCHANGED vars \/ \E e \in Emails : MarkRead(e)
  BY <1>1 DEF vars, MarkRead, SeenEnded
<1>2. CASE Start
  <2>1. session' = session
    BY <1>2 DEF Start, FanoutCommit, FanoutSend, ManualSend, ManualCommit
  <2>2. run \in Terminal => run' \in Terminal
    BY <1>2, StarterPromise DEF Terminal
  <2> QED BY <2>1, <2>2 DEF SeenEnded
<1>3. ASSUME NEW w \in Workers, Handle(w) \/ Finalize(w) PROVE SeenEnded'
  <2>1. run \in Terminal => run' \in Terminal
    BY <1>3, WorkerPromise DEF Terminal
  <2>2. \A v \in Workers \ {w} : session'[v] = session[v]
    BY <1>3, LocalStep DEF OnlyMoves
  <2>3. session[w].pc # "idle"
    BY <1>3
       DEF Handle, MarkRunRunning, HandleIngest, EnqueueUnclassified, EnqueueUnsummarized,
           HandleClassify, EnqueueSummary, ClaimHygiene, HandleSummarizeEmail, ReadCategory,
           WriteDigest, HandleTechNewsCluster, HandleUnsubscribe, At, Finalize, LoadRun,
           CountUnclassified, CountSummaries, CountCluster, CountCategories, CountErrors,
           DispatchCluster, DispatchDigests, Commit
  <2>4. \/ session'[w] = Idle
        \/ session'[w].seen = session[w].seen
        \/ LoadRun(w)
    <3>1. CASE Finalize(w) /\ session[w].pc = "load_run"
      BY <3>1 DEF Finalize, LoadRun, CountUnclassified, CountSummaries, CountCluster,
                  CountCategories, CountErrors, DispatchCluster, DispatchDigests, Commit
    <3> QED BY <1>3, <3>1, HandleMoves, FinalizeMoves
  <2>5. ASSUME LoadRun(w)
        PROVE  session'[w].seen \in {session[w].seen, "running", "queued", run} /\ run # "absent"
    <3>1. run \notin Unstarted
      BY <2>5, WorkStarted DEF PromiseInv, Finalize, LoadRun, MarkRunRunning, HandleIngest, At
    <3>2. session'[w].seen \in {Started(session[w].seen), "queued", run}
      BY <1>0, <2>5 DEF LoadRun, FitSession, Session
    <3> QED BY <3>1, <3>2 DEF Started, Unstarted
  <2>6. /\ session'[w].seen \in Terminal => run' \in Terminal
        /\ session'[w].pc # "idle" => session'[w].seen # "absent"
    BY <1>0, <2>1, <2>3, <2>4, <2>5 DEF SeenEnded, Terminal
  <2> QED BY <2>1, <2>2, <2>6 DEF SeenEnded
<1>4. ASSUME NEW w \in Workers, NEW m \in Message, Receive(w, m) PROVE SeenEnded'
  <2>1. run' = run /\ run # "absent"
    BY <1>4, RowIsThere DEF Receive
  <2> QED BY <1>4, <2>1, ReceivedSession, ZenonT(30) DEF SeenEnded
<1> QED BY <1>1, <1>2, <1>3, <1>4, NothingFails DEF Next, Rest

(* What a worker puts on its way: a summary for mail that asks for one, the *)
(* cluster job of a finalizer that found a cluster pending.                 *)
LEMMA NewMessages ==
  ASSUME Typed, NEW w \in Workers, Handle(w) \/ Finalize(w), NEW m \in Message,
         InFlight(m)', ~InFlight(m)
  PROVE  \/ m.kind \in {"classify", "hygiene", "category_digest"}
         \/ \E e \in AwaitingSummary : m = SummarizeEmail(e)
         \/ /\ DispatchCluster(w) /\ QueriesCluster(w)
            /\ Cardinality(RunNewsletters) >= MinClusterNewsletters
            /\ m = TechNewsCluster(RunNewsletters)
<1>0. session[w] \in FitSession /\ queue \in [Message -> Nat] /\ NoMessage \notin Message
  BY NoMessageAssumption DEF Typed, TypeOK
<1>1. session'[w] = Idle \/ session'[w].msg = session[w].msg
  BY HandleMoves, FinalizeMoves
<1>2. \A v \in Workers : session'[v].msg # m
  <2>1. \A v \in Workers \ {w} : session'[v] = session[v]
    BY LocalStep DEF OnlyMoves
  <2> QED BY <1>0, <1>1, <2>1 DEF InFlight, Idle
<1>3. queue[m] = 0 /\ queue'[m] > 0 /\ session[w].msg # m
  BY <1>0, <1>2 DEF InFlight, Waits
<1>4. ASSUME NEW S, Send(S) PROVE m \in S
  BY <1>0, <1>3, <1>4 DEF Send, Sent
<1>5. ~UNCHANGED queue
  BY <1>3
<1>6. ~GiveBack(w, queue)
  BY <1>0, <1>3 DEF GiveBack
<1>7. CASE EnqueueUnclassified(w)
  BY <1>4, <1>7 DEF EnqueueUnclassified, Classify
<1>8. CASE EnqueueUnsummarized(w)
  <2>1. PICK T \in Page(SummaryTargets(w)) : m \in {SummarizeEmail(e) : e \in T}
    BY <1>4, <1>8 DEF EnqueueUnsummarized
  <2>2. T \subseteq AwaitingSummary
    BY <2>1 DEF Page, SummaryTargets, OfAccount
  <2> QED BY <2>1, <2>2
<1>9. CASE EnqueueSummary(w)
  <2>1. m \in {SummarizeEmail(e) : e \in AwaitingSummary \cap {session[w].msg.email}}
    BY <1>4, <1>9 DEF EnqueueSummary
  <2> QED BY <2>1
<1>10. CASE ClaimHygiene(w)
  BY <1>4, <1>5, <1>10 DEF ClaimHygiene, Hygiene
<1>11. CASE DispatchCluster(w)
  BY <1>4, <1>5, <1>11 DEF DispatchCluster
<1>12. CASE DispatchDigests(w)
  <2>1. m \in {CategoryDigest(c) : c \in DigestsToDispatch(w)}
    BY <1>4, <1>12 DEF DispatchDigests
  <2> QED BY <2>1 DEF CategoryDigest
<1>13. CASE MarkRunRunning(w) \/ HandleIngest(w) \/ HandleClassify(w) \/ HandleSummarizeEmail(w)
            \/ ReadCategory(w) \/ WriteDigest(w) \/ HandleTechNewsCluster(w)
            \/ HandleUnsubscribe(w) \/ LoadRun(w)
            \/ CountUnclassified(w) \/ CountSummaries(w) \/ CountCluster(w)
            \/ CountCategories(w) \/ CountErrors(w) \/ Commit(w)
  BY <1>5, <1>6, <1>13
     DEF MarkRunRunning, HandleIngest, HandleClassify, HandleSummarizeEmail, ReadCategory,
         WriteDigest, HandleTechNewsCluster, HandleUnsubscribe, LoadRun, CountUnclassified,
         CountSummaries, CountCluster, CountCategories, CountErrors, Commit
<1> QED BY <1>7, <1>8, <1>9, <1>10, <1>11, <1>12, <1>13 DEF Handle, Finalize

(* Verdicts come from the rules and the model, which say what a newsletter  *)
(* is; an exhausted provider chain says of none.                            *)
LEMMA NewslettersMayBe ==
  ASSUME Typed, NEW w \in Workers, Handle(w) \/ Finalize(w),
         \A e \in newsletters : MayBeNewsletter(e)
  PROVE  \A e \in newsletters' : MayBeNewsletter(e)
<1>1. CASE HandleClassify(w)
  <2> DEFINE f == session[w].msg.email
  <2>1. \/ \E v \in Verdicts[f] : WriteVerdict(f, v)
        \/ WriteVerdict(f, NeedsReview)
    BY <1>1 DEF HandleClassify
  <2> QED BY <2>1 DEF WriteVerdict, NeedsReview, MayBeNewsletter
<1>2. CASE ~HandleClassify(w)
  BY <1>2, OthersKeepLabels
<1> QED BY <1>1, <1>2

(* A job that has newsletters of one topic leaves a row or an error.        *)
LEMMA ClusterAnswers ==
  ASSUME Typed, OneCluster, NEW w \in Workers, HandleTechNewsCluster(w),
         NEW S \in SUBSET Emails, session[w].msg = TechNewsCluster(S), Groupable(S)
  PROVE  clustered' \/ clusterFailed'
<1> DEFINE groups == IF clustered THEN {} ELSE ClusterGroups(session[w].msg.emails)
<1>1. session[w].msg.emails = S
  BY DEF TechNewsCluster
<1>2. PICK broken \in SUBSET (IF ProvidersMayFail THEN groups ELSE {}) :
        /\ clustered' = (clustered \/ groups \ broken # {})
        /\ clusterFailed' = (clusterFailed \/ broken # {})
  BY Zenon DEF HandleTechNewsCluster
<1>3. CASE clustered
  BY <1>2, <1>3, Zenon
<1>4. CASE ~clustered
  <2>1. S # {}
    BY FS_EmptySet DEF Groupable, MinClusterNewsletters
  <2>2. PICK e \in S : TRUE
    BY <2>1
  <2>3. \A f \in S : ClusterKey[f] = ClusterKey[e]
    BY <2>2 DEF OneCluster, Groupable
  <2>4. S \in ClusterGroups(S)
    BY <2>2, <2>3 DEF ClusterGroups, Groupable
  <2>5. S \in groups
    BY <1>1, <1>4, <2>4
  <2> HIDE DEF groups
  <2>6. groups \ broken # {} \/ broken # {}
    BY <2>5
  <2> QED BY <1>2, <2>6, Zenon
<1> QED BY <1>3, <1>4

(* A cluster job on its way stays so, or is answered.                       *)
LEMMA WorkerCluster ==
  ASSUME Typed, OneCluster, ClusterInv, NEW w \in Workers, Handle(w) \/ Finalize(w),
         ClusterCarried
  PROVE  ClusterCarried'
<1>0. /\ OnlyMoves(w) /\ session \in [Workers -> FitSession] /\ session[w] \in Session
      /\ queue \in [Message -> Nat]
  BY LocalStep DEF Typed, TypeOK, FitSession
<1>1. CASE clustered \/ clusterFailed
  BY <1>1, ErrorsRemain, Zenon DEF ClusterCarried
<1>2. ASSUME NEW S \in SUBSET Emails, Waits(TechNewsCluster(S)) PROVE ClusterQueued'
  BY <1>0, <1>2, MessageType DEF OnlyMoves, QueueKept, Waits, ClusterQueued
<1>3. ASSUME NEW S \in SUBSET Emails, NEW v \in Workers \ {w}, Begins(v, TechNewsCluster(S))
      PROVE  ClusterQueued'
  BY <1>0, <1>3 DEF OnlyMoves, Begins, ClusterQueued
<1>4. ASSUME NEW S \in SUBSET Emails, Begins(w, TechNewsCluster(S)) PROVE ClusterCarried'
  <2> DEFINE m == TechNewsCluster(S)
  <2>1. /\ session[w].msg = m /\ m.kind = "tech_news_cluster" /\ m \in Message
        /\ session[w].pc \in Begun
    BY <1>4, MessageType DEF Begins, TechNewsCluster
  <2>2. CASE MarkRunRunning(w)
    <3>1. session'[w].msg = m /\ session'[w].pc = "handle"
      BY <1>0, <2>1, <2>2 DEF MarkRunRunning, Goto, Session
    <3>2. Begins(w, TechNewsCluster(S))'
      BY <3>1 DEF Begins, Begun
    <3> QED BY <3>2 DEF ClusterCarried, ClusterQueued
  <2>3. CASE HandleTechNewsCluster(w)
    <3>1. Groupable(S)
      BY <2>1 DEF ClusterInv, InFlight
    <3> QED BY <2>1, <2>3, <3>1, ClusterAnswers DEF ClusterCarried
  <2>4. CASE HandleIngest(w) \/ HandleClassify(w) \/ HandleSummarizeEmail(w)
             \/ ReadCategory(w) \/ HandleUnsubscribe(w)
    BY <2>1, <2>4 DEF HandleIngest, HandleClassify, HandleSummarizeEmail, ReadCategory,
                      HandleUnsubscribe, At
  <2>5. CASE EnqueueUnclassified(w) \/ EnqueueUnsummarized(w) \/ EnqueueSummary(w)
             \/ ClaimHygiene(w) \/ WriteDigest(w) \/ Finalize(w)
    BY <2>1, <2>5
       DEF EnqueueUnclassified, EnqueueUnsummarized, EnqueueSummary, ClaimHygiene, WriteDigest,
           Finalize, LoadRun, CountUnclassified, CountSummaries, CountCluster,
           CountCategories, CountErrors, DispatchCluster, DispatchDigests, Commit, Begun
  <2> QED BY <2>2, <2>3, <2>4, <2>5 DEF Handle
<1> QED BY <1>1, <1>2, <1>3, <1>4 DEF ClusterCarried, ClusterQueued

(* The cluster job is claimed by the worker that sends it.                  *)
LEMMA WhereClusterIsSent ==
  ASSUME Typed, NEW w \in Workers, Handle(w) \/ Finalize(w), ClusterSent', ~ClusterSent
  PROVE  ClusterQueued'
<1>0. /\ session \in [Workers -> FitSession]
      /\ \A v \in Workers : session[v] \in Session
      /\ \A v \in Workers \ {w} : session'[v] = session[v]
  BY LocalStep DEF Typed, FitSession, OnlyMoves
<1>1. \A x : DigestClaim(x) # ClusterClaim /\ HygieneClaim(x) # ClusterClaim
  BY DEF DigestClaim, ClusterClaim, HygieneClaim
<1>2. CASE ClaimHygiene(w)
  <2>1. claimed' = claimed
    BY <1>2 DEF ClaimHygiene
  <2>2. \E a : session'[w].claims \in {session[w].claims, session[w].claims \cup {HygieneClaim(a)}}
    BY <1>0, <1>2 DEF ClaimHygiene, Goto, Session
  <2> QED BY <1>0, <1>1, <2>1, <2>2 DEF ClusterSent
<1>3. CASE DispatchCluster(w)
  <2>1. CASE Send({TechNewsCluster(RunNewsletters)})
    <3>1. RunNewsletters \in SUBSET Emails /\ queue \in [Message -> Nat]
      BY QueryType DEF Typed, TypeOK
    <3>2. queue'[TechNewsCluster(RunNewsletters)] > 0
      BY <2>1, <3>1, SendKeeps, MessageType
    <3> QED BY <3>1, <3>2 DEF ClusterQueued, Waits
  <2>2. CASE Goto(w, "dispatch_digests")
    <3>1. claimed' = claimed /\ session'[w].claims = session[w].claims
      BY <1>0, <1>3, <2>2 DEF DispatchCluster, Goto, Session
    <3> QED BY <1>0, <3>1 DEF ClusterSent
  <2> QED BY <1>3, <2>1, <2>2 DEF DispatchCluster
<1>4. CASE DispatchDigests(w)
  <2>1. claimed' = claimed
    BY <1>4 DEF DispatchDigests
  <2>2. session'[w].claims = session[w].claims \cup {DigestClaim(d) : d \in DigestsToDispatch(w)}
    BY <1>0, <1>4 DEF DispatchDigests, Session
  <2> QED BY <1>0, <1>1, <2>1, <2>2 DEF ClusterSent
<1>5. CASE Commit(w)
  <2>1. claimed' = claimed \cup session[w].claims /\ session'[w].claims = {}
    BY <1>0, <1>5 DEF Commit, Idle
  <2> QED BY <1>0, <2>1 DEF ClusterSent
<1>6. CASE ~(ClaimHygiene(w) \/ DispatchCluster(w) \/ DispatchDigests(w) \/ Commit(w))
  <2>1. claimed' = claimed /\ GainsNoClaim
    BY <1>6, OthersGainNoClaim
  <2> QED BY <2>1 DEF GainsNoClaim, ClusterSent
<1> QED BY <1>2, <1>3, <1>4, <1>5, <1>6

LEMMA NextCluster ==
  ASSUME Undisturbed, OneCluster, Typed, ClusterInv, [Next]_vars
  PROVE  ClusterInv'
<1>0. /\ session \in [Workers -> FitSession] /\ queue \in [Message -> Nat]
      /\ \A S \in SUBSET Emails : /\ TechNewsCluster(S) \in Message
                                  /\ TechNewsCluster(S).kind = "tech_news_cluster"
  BY MessageType DEF Typed, TypeOK, TechNewsCluster
<1>1. CASE UNCHANGED vars \/ \E e \in Emails : MarkRead(e)
  BY <1>1 DEF vars, pipeline, MarkRead, ClusterInv, ClusterSent, ClusterCarried, ClusterQueued,
              InFlight, Waits, Begins
<1>2. CASE Start
  <2>1. /\ session' = session /\ newsletters' = newsletters /\ claimed' = claimed
        /\ clustered' = clustered /\ clusterFailed' = clusterFailed
    BY <1>2 DEF Start, FanoutCommit, FanoutSend, ManualSend, ManualCommit, pipeline
  <2>2. UNCHANGED queue \/ Send(StartMessages)
    BY <1>2 DEF Start, FanoutCommit, FanoutSend, ManualSend, ManualCommit
  <2>3. \A S \in SUBSET Emails : TechNewsCluster(S) \notin StartMessages
    BY DEF StartMessages, Ingest, Classify, TechNewsCluster
  <2>4. \A S \in SUBSET Emails : queue'[TechNewsCluster(S)] = queue[TechNewsCluster(S)]
    BY <1>0, <2>2, <2>3 DEF Send, Sent
  <2> QED BY <2>1, <2>4 DEF ClusterInv, ClusterSent, ClusterCarried, ClusterQueued, InFlight,
                            Waits, Begins
<1>3. ASSUME NEW w \in Workers, Handle(w) \/ Finalize(w) PROVE ClusterInv'
  <2>1. \A e \in newsletters' : MayBeNewsletter(e)
    BY <1>3, NewslettersMayBe DEF ClusterInv
  <2>2. ASSUME NEW S \in SUBSET Emails, InFlight(TechNewsCluster(S))'
        PROVE  Groupable(S)
    <3>1. CASE InFlight(TechNewsCluster(S))
      BY <3>1 DEF ClusterInv
    <3>2. CASE /\ Cardinality(RunNewsletters) >= MinClusterNewsletters
               /\ TechNewsCluster(S) = TechNewsCluster(RunNewsletters)
      <4>1. S = RunNewsletters
        BY <3>2 DEF TechNewsCluster
      <4> QED BY <3>2, <4>1 DEF ClusterInv, Groupable, RunNewsletters
    <3>3. \A e : TechNewsCluster(S) # SummarizeEmail(e)
      BY DEF TechNewsCluster, SummarizeEmail
    <3> QED BY <1>0, <1>3, <2>2, <3>1, <3>2, <3>3, NewMessages
  <2>3. ClusterSent' => ClusterCarried'
    BY <1>3, WorkerCluster, WhereClusterIsSent DEF ClusterInv, ClusterCarried
  <2> QED BY <2>1, <2>2, <2>3 DEF ClusterInv
<1>4. ASSUME NEW w \in Workers, NEW m \in Message, Receive(w, m) PROVE ClusterInv'
  <2>1. /\ newsletters' = newsletters /\ claimed' = claimed
        /\ clustered' = clustered /\ clusterFailed' = clusterFailed
        /\ session[w] = Idle /\ session[w] \in Session
    BY <1>0, <1>4 DEF Receive, pipeline, FitSession
  <2>2. /\ queue[m] > 0 /\ queue'[m] = queue[m] - 1
        /\ \A n \in Message \ {m} : queue'[n] = queue[n]
    BY <1>0, <1>4 DEF Receive
  <2>3. /\ session'[w].msg = m /\ session'[w].pc \in Begun /\ session'[w].claims = {}
        /\ \A v \in Workers \ {w} : session'[v] = session[v]
    BY <1>0, <1>4, <2>1 DEF Receive, Session, Idle, Begun
  <2>4. \A S \in SUBSET Emails : InFlight(TechNewsCluster(S))' => InFlight(TechNewsCluster(S))
    BY <1>0, <2>2, <2>3 DEF InFlight, Waits
  <2>5. ClusterSent' => ClusterSent
    BY <2>1, <2>3 DEF ClusterSent
  <2>6. ASSUME NEW S \in SUBSET Emails,
               Waits(TechNewsCluster(S)) \/ \E v \in Workers : Begins(v, TechNewsCluster(S))
        PROVE  ClusterQueued'
    <3>1. CASE Waits(TechNewsCluster(S)) /\ m # TechNewsCluster(S)
      BY <1>0, <2>2, <3>1 DEF Waits, ClusterQueued
    <3>2. CASE m = TechNewsCluster(S)
      BY <2>3, <3>2 DEF Begins, ClusterQueued
    <3>3. CASE \E v \in Workers : Begins(v, TechNewsCluster(S))
      <4>1. ~Begins(w, TechNewsCluster(S))
        BY <2>1 DEF Begins, Idle, Begun
      <4> QED BY <2>3, <3>3, <4>1 DEF Begins, ClusterQueued
    <3> QED BY <2>6, <3>1, <3>2, <3>3
  <2>7. ClusterCarried => ClusterCarried'
    BY <2>1, <2>6 DEF ClusterCarried, ClusterQueued
  <2> QED BY <2>1, <2>4, <2>5, <2>7 DEF ClusterInv
<1> QED BY <1>1, <1>2, <1>3, <1>4, NothingFails DEF Next, Rest

(* What a finalizer has found is as it found it, and what it has passed is  *)
(* claimed: it will not commit in vain.                                     *)
Unsummed == Uncounted \cup {"count_summaries"}
Unclustered == Unsummed \cup {"count_cluster"}
UpToDate(w) ==
  LET s == session[w] IN
  /\ s.pc # "idle"
  /\ s.pc \notin Uncounted /\ s.unclassified => PendingUnclassified # {}
  /\ s.pc \notin Unsummed /\ s.summaries => PendingSummaries # {}
  /\ s.pc \notin Unclustered /\ s.cluster => ClusterPending
  /\ s.pc \notin Unchecked /\ s.categories # {} => MissingDigests # {}
  /\ s.pc \in {"dispatch_digests", "commit"} /\ QueriesCluster(w) => ClusterSent
  /\ s.pc = "commit" /\ QueriesDigests(w) => \A c \in MissingDigests : Dispatched(c)

(* An active run has a message that waits or such a worker.                 *)
Busy == (\E m \in Message : queue[m] > 0) \/ \E w \in Workers : UpToDate(w)
Progress == starter = "done" /\ run \in {"queued", "running"} => Busy

(* What is pending, to a worker that counts it.                             *)
Pending == <<PendingUnclassified, PendingSummaries, ClusterPending, MissingDigests>>

(* A worker that has counted nothing has missed nothing.                    *)
LEMMA FreshIsUpToDate ==
  ASSUME NEW w \in Workers, session[w].pc \in Uncounted \ {"idle"}
  PROVE  UpToDate(w)
BY DEF UpToDate, Uncounted, Unsummed, Unclustered, Unchecked

(* A handler gives its message back or goes on to count.                    *)
LEMMA HandlerGoesOn ==
  ASSUME Typed, NEW w \in Workers, Handle(w)
  PROVE  Busy'
<1>0. /\ session \in [Workers -> FitSession] /\ session[w] \in FitSession
      /\ queue \in [Message -> Nat]
  BY DEF Typed, TypeOK
<1>1. CASE GiveBack(w, queue)
  <2>1. session[w].msg \in Message
    BY DEF Handle, MarkRunRunning, HandleIngest, EnqueueUnclassified, EnqueueUnsummarized,
           HandleClassify, EnqueueSummary, ClaimHygiene, HandleSummarizeEmail, ReadCategory,
           WriteDigest, HandleTechNewsCluster, HandleUnsubscribe, At, Typed, FitSession, Fits
  <2>2. queue'[session[w].msg] > 0
    BY <1>0, <1>1, <2>1, GiveBackKeeps
  <2> QED BY <2>1, <2>2 DEF Busy
<1>2. ASSUME session'[w].pc \in Uncounted \ {"idle"} PROVE Busy'
  BY <1>2, FreshIsUpToDate DEF Busy, UpToDate, Uncounted, Unsummed, Unclustered, Unchecked
<1>3. ASSUME NEW pc \in Uncounted \ {"idle"}, Goto(w, pc) PROVE Busy'
  BY <1>0, <1>2, <1>3 DEF Goto, FitSession, Session
<1>4. CASE ClaimHygiene(w)
  <2>1. session'[w].pc = "load_run"
    BY <1>0, <1>4 DEF ClaimHygiene, Goto, FitSession, Session
  <2> QED BY <1>2, <2>1 DEF Uncounted
<1>5. CASE ReadCategory(w)
  <2> DEFINE s == [session[w] EXCEPT !.pc = "write_digest",
                                     !.items = CategoryItems(session[w].msg.category)]
  <2>1. \/ session' = [session EXCEPT ![w] = s]
        \/ Goto(w, "load_run") \/ GiveBack(w, queue)
    BY <1>5 DEF ReadCategory
  <2>2. s.pc = "write_digest"
    BY <1>0 DEF FitSession, Session
  <2> HIDE DEF s
  <2>3. ASSUME session' = [session EXCEPT ![w] = s] PROVE Busy'
    BY <1>0, <1>2, <2>2, <2>3 DEF Uncounted
  <2>4. "load_run" \in Uncounted \ {"idle"}
    BY DEF Uncounted
  <2> QED BY <1>1, <1>3, <2>1, <2>3, <2>4
<1>6. CASE ~ClaimHygiene(w) /\ ~ReadCategory(w)
  <2>1. GiveBack(w, queue) \/ \E pc \in Uncounted \ {"idle"} : Goto(w, pc)
    BY <1>6
       DEF Handle, MarkRunRunning, HandleIngest, EnqueueUnclassified, EnqueueUnsummarized,
           HandleClassify, EnqueueSummary, HandleSummarizeEmail, WriteDigest,
           HandleTechNewsCluster, HandleUnsubscribe, Uncounted
  <2> QED BY <1>1, <1>3, <2>1
<1> QED BY <1>4, <1>5, <1>6

(* The finalizer writes nothing that a count would find, and its claims     *)
(* stay claimed.                                                            *)
LEMMA FinalizerChanges ==
  ASSUME Typed, NEW w \in Workers, Finalize(w)
  PROVE  /\ UNCHANGED <<starter, member, unread, pipeline>> /\ Pending' = Pending
         /\ ClusterSent => ClusterSent'
         /\ \A c \in Categories : Dispatched(c) => Dispatched(c)'
<1>0. /\ session \in [Workers -> FitSession]
      /\ \A v \in Workers : session[v] \in Session
      /\ \A v \in Workers \ {w} : session'[v] = session[v]
  BY LocalStep DEF Typed, FitSession, OnlyMoves
<1>1. UNCHANGED <<starter, member, unread, pipeline>>
  BY DEF Finalize, LoadRun, CountUnclassified, CountSummaries, CountCluster, CountCategories,
         CountErrors, DispatchCluster, DispatchDigests, Commit
<1>2. Pending' = Pending
  BY <1>1 DEF pipeline, Pending, PendingUnclassified, PendingSummaries, AwaitingSummary,
              NeedsSummary, ClusterPending, RunNewsletters, MissingDigests, CategoryItems
<1>3. claimed \cup session[w].claims \subseteq claimed' \cup session'[w].claims
  <2>1. CASE Commit(w)
    BY <2>1 DEF Commit
  <2>2. CASE LoadRun(w) \/ CountUnclassified(w) \/ CountSummaries(w) \/ CountCluster(w)
             \/ CountCategories(w) \/ CountErrors(w)
    <3>1. claimed' = claimed
      BY <2>2 DEF LoadRun, CountUnclassified, CountSummaries, CountCluster, CountCategories,
                  CountErrors
    <3>2. session'[w].claims = session[w].claims
      BY <1>0, <2>2 DEF LoadRun, CountUnclassified, CountSummaries, CountCluster,
                        CountCategories, CountErrors, Session
    <3> QED BY <3>1, <3>2
  <2>3. CASE DispatchCluster(w)
    BY <1>0, <2>3 DEF DispatchCluster, Goto, Session
  <2>4. CASE DispatchDigests(w)
    <3>1. session'[w].claims = session[w].claims \cup {DigestClaim(d) : d \in DigestsToDispatch(w)}
      BY <1>0, <2>4 DEF DispatchDigests, Session
    <3> QED BY <2>4, <3>1 DEF DispatchDigests
  <2> QED BY <2>1, <2>2, <2>3, <2>4 DEF Finalize
<1>4. claimed \subseteq claimed'
  BY DEF Finalize, LoadRun, CountUnclassified, CountSummaries, CountCluster, CountCategories,
         CountErrors, DispatchCluster, DispatchDigests, Commit
<1>5. ASSUME NEW k, k \in claimed \/ \E v \in Workers : k \in session[v].claims
      PROVE  k \in claimed' \/ \E v \in Workers : k \in session'[v].claims
  BY <1>0, <1>3, <1>4, <1>5
<1> QED BY <1>1, <1>2, <1>5 DEF ClusterSent, Dispatched

(* Another worker's finalizer leaves what a worker has found as it is.      *)
LEMMA OthersStayUpToDate ==
  ASSUME Typed, NEW w \in Workers, Finalize(w), NEW v \in Workers \ {w}, UpToDate(v)
  PROVE  UpToDate(v)'
<1>1. session'[v] = session[v]
  BY LocalStep DEF OnlyMoves
<1>2. /\ PendingUnclassified' = PendingUnclassified /\ PendingSummaries' = PendingSummaries
      /\ ClusterPending' = ClusterPending /\ MissingDigests' = MissingDigests
  BY FinalizerChanges DEF Pending
<1>3. ClusterSent => ClusterSent'
  BY FinalizerChanges
<1>4. \A c \in MissingDigests : Dispatched(c) => Dispatched(c)'
  BY FinalizerChanges DEF MissingDigests
<1>5. QueriesCluster(v)' = QueriesCluster(v) /\ QueriesDigests(v)' = QueriesDigests(v)
  BY <1>1 DEF QueriesCluster, QueriesDigests
<1> QED BY <1>1, <1>2, <1>3, <1>4, <1>5 DEF UpToDate

(* A finalizer that goes on has found what is true now: it counts one thing *)
(* after the other, and claims what it found missing.                       *)
LEMMA FinalizerStaysUpToDate ==
  ASSUME Typed, SeenEnded, NEW w \in Workers, Finalize(w), ~Commit(w), UpToDate(w),
         run \in {"queued", "running"}
  PROVE  UpToDate(w)'
<1>0. session \in [Workers -> FitSession] /\ session[w] \in Session
  BY DEF Typed, FitSession
<1> DEFINE s == session[w]
           t == session'[w]
<1>1. /\ PendingUnclassified' = PendingUnclassified /\ PendingSummaries' = PendingSummaries
      /\ ClusterPending' = ClusterPending /\ MissingDigests' = MissingDigests
  BY FinalizerChanges DEF Pending
<1>2. /\ s.pc \notin Uncounted /\ s.unclassified => PendingUnclassified # {}
      /\ s.pc \notin Unsummed /\ s.summaries => PendingSummaries # {}
      /\ s.pc \notin Unclustered /\ s.cluster => ClusterPending
      /\ s.pc \notin Unchecked /\ s.categories # {} => MissingDigests # {}
      /\ s.pc \in {"dispatch_digests", "commit"} /\ QueriesCluster(w) => ClusterSent
  BY DEF UpToDate
<1>3. /\ QueriesCluster(w)' <=> (~t.unclassified /\ t.cluster)
      /\ QueriesDigests(w)' <=> (~t.unclassified /\ ~t.summaries)
      /\ QueriesCluster(w) <=> (~s.unclassified /\ s.cluster)
      /\ QueriesDigests(w) <=> (~s.unclassified /\ ~s.summaries)
  BY DEF QueriesCluster, QueriesDigests
<1>4. CASE LoadRun(w)
  <2>1. t.pc = "count_unclassified"
    <3>1. s.seen \notin Terminal \cup {"absent"}
      BY <1>4 DEF SeenEnded, LoadRun, Terminal
    <3>2. Started(s.seen) \notin Terminal \cup {"absent"} /\ run \notin Terminal \cup {"absent"}
      BY <3>1 DEF Started, Terminal
    <3> QED BY <1>0, <1>4, <3>2 DEF LoadRun, Terminal, Session
  <2> QED BY <2>1 DEF UpToDate, Uncounted, Unsummed, Unclustered, Unchecked
<1>5. CASE CountUnclassified(w)
  <2>1. t.pc = "count_summaries" /\ t.unclassified = (PendingUnclassified # {})
    BY <1>0, <1>5 DEF CountUnclassified, Session
  <2> QED BY <1>1, <2>1 DEF UpToDate, Uncounted, Unsummed, Unclustered, Unchecked
<1>6. CASE CountSummaries(w)
  <2>1. /\ t.pc = "count_cluster" /\ t.summaries = (PendingSummaries # {})
        /\ t.unclassified = s.unclassified /\ s.pc = "count_summaries"
    BY <1>0, <1>6 DEF CountSummaries, Session
  <2> QED BY <1>1, <1>2, <2>1 DEF UpToDate, Uncounted, Unsummed, Unclustered, Unchecked
<1>7. CASE CountCluster(w)
  <2>1. /\ t.pc = "count_categories" /\ t.cluster = ClusterPending
        /\ t.unclassified = s.unclassified /\ t.summaries = s.summaries
        /\ s.pc = "count_cluster"
    BY <1>0, <1>7 DEF CountCluster, Session
  <2> QED BY <1>1, <1>2, <2>1 DEF UpToDate, Uncounted, Unsummed, Unclustered, Unchecked
<1>8. CASE CountCategories(w)
  <2>1. /\ t.pc = "count_errors" /\ t.categories = MissingDigests /\ t.cluster = s.cluster
        /\ t.unclassified = s.unclassified /\ t.summaries = s.summaries
        /\ s.pc = "count_categories"
    BY <1>0, <1>8 DEF CountCategories, Session
  <2> QED BY <1>1, <1>2, <2>1 DEF UpToDate, Uncounted, Unsummed, Unclustered, Unchecked
<1>9. CASE CountErrors(w)
  <2>1. /\ t.pc = "dispatch_cluster" /\ t.categories = s.categories /\ t.cluster = s.cluster
        /\ t.unclassified = s.unclassified /\ t.summaries = s.summaries
        /\ s.pc = "count_errors"
    BY <1>0, <1>9 DEF CountErrors, Session
  <2> QED BY <1>1, <1>2, <2>1 DEF UpToDate, Uncounted, Unsummed, Unclustered, Unchecked
<1>10. CASE DispatchCluster(w)
  <2>1. /\ t.pc = "dispatch_digests" /\ t.categories = s.categories /\ t.cluster = s.cluster
        /\ t.unclassified = s.unclassified /\ t.summaries = s.summaries
        /\ s.pc = "dispatch_cluster"
    BY <1>0, <1>10 DEF DispatchCluster, Goto, Session
  <2>2. ASSUME QueriesCluster(w) PROVE ClusterSent'
    <3>1. Cardinality(RunNewsletters) >= MinClusterNewsletters
      BY <1>2, <1>3, <2>1, <2>2
         DEF ClusterPending, Uncounted, Unsummed, Unclustered
    <3>2. CASE ClusterClaim \in claimed
      BY <1>10, <3>2 DEF DispatchCluster, ClusterSent
    <3>3. CASE ClusterClaim \notin claimed
      <4>1. session' = [session EXCEPT ![w].pc = "dispatch_digests",
                                       ![w].claims = @ \cup {ClusterClaim}]
        BY <1>10, <2>2, <3>1, <3>3 DEF DispatchCluster
      <4>2. ClusterClaim \in t.claims
        BY <1>0, <4>1 DEF Session
      <4> QED BY <4>2 DEF ClusterSent
    <3> QED BY <3>2, <3>3
  <2> QED BY <1>1, <1>2, <1>3, <2>1, <2>2 DEF UpToDate, Uncounted, Unsummed, Unclustered, Unchecked
<1>11. CASE DispatchDigests(w)
  <2>1. /\ t.pc = "commit" /\ t.categories = s.categories /\ t.cluster = s.cluster
        /\ t.unclassified = s.unclassified /\ t.summaries = s.summaries
        /\ t.claims = s.claims \cup {DigestClaim(c) : c \in DigestsToDispatch(w)}
        /\ s.pc = "dispatch_digests" /\ claimed' = claimed
    BY <1>0, <1>11 DEF DispatchDigests, Session
  <2>2. ASSUME QueriesDigests(w), NEW c \in MissingDigests PROVE Dispatched(c)'
    BY <2>1, <2>2 DEF DigestsToDispatch, Dispatched
  <2>3. ClusterSent => ClusterSent'
    BY FinalizerChanges
  <2> QED BY <1>1, <1>2, <1>3, <2>1, <2>2, <2>3
          DEF UpToDate, Uncounted, Unsummed, Unclustered, Unchecked
<1> QED BY <1>4, <1>5, <1>6, <1>7, <1>8, <1>9, <1>10, <1>11 DEF Finalize

(* A finalizer that commits without ending the run leaves it to somebody:   *)
(* what it found pending is carried.                                        *)
LEMMA CommitLeavesWork ==
  ASSUME Typed, ClassificationInv, SummaryInv, ClusterInv, DispatchedInv,
         Trigger = "scheduled", NEW w \in Workers, Commit(w), ~Drained(w), UpToDate(w)
  PROVE  Busy'
<1>0. /\ session[w].pc = "commit" /\ queue' = queue /\ member \subseteq Emails
      /\ \A v \in Workers \ {w} : session'[v] = session[v]
  BY LocalStep DEF Commit, Typed, TypeOK, Finalize, OnlyMoves
<1>1. ASSUME NEW m \in Message, Waits(m) PROVE Busy'
  BY <1>0, <1>1 DEF Busy, Waits
<1>2. ASSUME NEW v \in Workers, session[v].pc \in Uncounted \ {"idle"} PROVE Busy'
  <2>1. session'[v] = session[v]
    BY <1>0, <1>2 DEF Uncounted
  <2>2. UpToDate(v)'
    BY <1>2, <2>1 DEF UpToDate, Uncounted, Unsummed, Unclustered, Unchecked
  <2> QED BY <2>2 DEF Busy
<1>3. CASE session[w].unclassified
  <2>1. PICK e \in Emails : e \in member /\ label[e] = "none"
    BY <1>0, <1>3 DEF UpToDate, PendingUnclassified, Uncounted
  <2>2. ClassifyCarried(e)
    BY <2>1 DEF ClassificationInv, Promised
  <2>3. CASE ClassifyQueued(e)
    BY <1>1, <2>3, MessageType, AccountType DEF ClassifyQueued
  <2>4. CASE \E v \in Workers : Classifies(session[v], e)
    <3>1. PICK v \in Workers : Classifies(session[v], e)
      BY <2>4
    <3> QED BY <1>2, <3>1 DEF Classifies, Begun, Uncounted
  <2> QED BY <2>2, <2>3, <2>4 DEF ClassifyCarried
<1>4. CASE ~session[w].unclassified /\ session[w].summaries
  <2>1. PICK e \in Emails : e \in PendingSummaries
    BY <1>0, <1>4 DEF UpToDate, PendingSummaries, AwaitingSummary, Uncounted, Unsummed
  <2>2. SummaryCarried(e)
    BY <2>1 DEF SummaryInv
  <2>3. CASE SummaryQueued(e)
    BY <1>1, <2>3, MessageType, AccountType DEF SummaryQueued
  <2>4. CASE \E v \in Workers : Summarizes(session[v], e)
    <3>1. PICK v \in Workers : Summarizes(session[v], e)
      BY <2>4
    <3> QED BY <1>2, <3>1 DEF Summarizes, Begun, Uncounted
  <2> QED BY <2>2, <2>3, <2>4 DEF SummaryCarried
<1>5. CASE ~session[w].unclassified /\ session[w].cluster
  <2>1. ClusterPending /\ ClusterSent
    BY <1>0, <1>5 DEF UpToDate, QueriesCluster, Uncounted, Unsummed, Unclustered
  <2>2. ClusterQueued
    BY <2>1, Zenon DEF ClusterInv, ClusterCarried, ClusterPending
  <2>3. PICK S \in SUBSET Emails :
          Waits(TechNewsCluster(S)) \/ \E v \in Workers : Begins(v, TechNewsCluster(S))
    BY <2>2 DEF ClusterQueued
  <2>4. CASE Waits(TechNewsCluster(S))
    BY <1>1, <2>4, MessageType
  <2>5. CASE \E v \in Workers : Begins(v, TechNewsCluster(S))
    <3>1. PICK v \in Workers : Begins(v, TechNewsCluster(S))
      BY <2>5
    <3> QED BY <1>2, <3>1 DEF Begins, Begun, Uncounted
  <2> QED BY <2>3, <2>4, <2>5
<1>6. CASE ~session[w].unclassified /\ ~session[w].summaries /\ session[w].categories # {}
  <2>1. MissingDigests # {} /\ \A c \in MissingDigests : Dispatched(c)
    BY <1>0, <1>6 DEF UpToDate, QueriesDigests, Unchecked, Uncounted
  <2>2. PICK c \in Categories : digest[c] = NoDigest /\ DigestCarried(c)
    BY <2>1 DEF MissingDigests, DispatchedInv
  <2>3. CASE Waits(CategoryDigest(c))
    BY <1>1, <2>3, MessageType
  <2>4. CASE \E v \in Workers : WritesDigest(session[v], c)
    <3>1. PICK v \in Workers : WritesDigest(session[v], c)
      BY <2>4
    <3> QED BY <1>2, <3>1 DEF WritesDigest, Begun, Uncounted
  <2> QED BY <2>2, <2>3, <2>4 DEF DigestCarried
<1> QED BY <1>3, <1>4, <1>5, <1>6 DEF Drained

(* What carries an active run on.                                           *)
StrandInv ==
  ClassificationInv /\ SummaryInv /\ WritesItems /\ DispatchedInv /\ ClusterInv
    /\ SeenEnded /\ Progress

LEMMA NextProgress ==
  ASSUME Undisturbed, Readable = {}, Typed, PromiseInv, StrandInv, [Next]_vars
  PROVE  Progress'
<1>0. session \in [Workers -> FitSession] /\ queue \in [Message -> Nat]
  BY DEF Typed, TypeOK
<1>1. CASE UNCHANGED vars
  <2>1. Pending' = Pending
    BY <1>1
       DEF vars, pipeline, Pending, PendingUnclassified, PendingSummaries, AwaitingSummary,
           NeedsSummary, ClusterPending, RunNewsletters, MissingDigests, CategoryItems
  <2>2. (ClusterSent => ClusterSent') /\ \A c : Dispatched(c) => Dispatched(c)'
    BY <1>1 DEF vars, pipeline, ClusterSent, Dispatched
  <2>3. \A w \in Workers : UpToDate(w) => UpToDate(w)'
    BY <1>1, <2>1, <2>2 DEF vars, UpToDate, Pending, QueriesCluster, QueriesDigests
  <2>4. Busy => Busy'
    BY <1>1, <2>3 DEF vars, Busy
  <2> QED BY <1>1, <2>4 DEF vars, StrandInv, Progress
<1>2. CASE Start
  <2>1. CASE FanoutSend
    <3>1. PICK a \in Accounts : TRUE
      BY MailAssumption
    <3>2. Ingest(a) \in StartMessages /\ Ingest(a) \in Message
      BY <3>1, MessageType DEF StartMessages, Undisturbed
    <3>3. queue'[Ingest(a)] > 0
      BY <1>0, <2>1, <3>2, SendKeeps DEF FanoutSend
    <3> QED BY <3>2, <3>3 DEF Progress, Busy
  <2>2. CASE ~FanoutSend
    BY <1>2, <2>2 DEF Start, FanoutCommit, ManualSend, ManualCommit, Undisturbed, Progress
  <2> QED BY <2>1, <2>2
<1>3. ASSUME NEW w \in Workers, Handle(w) PROVE Progress'
  BY <1>3, HandlerGoesOn DEF Progress
<1>4. ASSUME NEW w \in Workers, Finalize(w) PROVE Progress'
  <2> SUFFICES ASSUME starter' = "done", run' \in {"queued", "running"} PROVE Busy'
    BY DEF Progress
  <2>1. ~HandleIngest(w)
    BY <1>4 DEF HandleIngest, At, Finalize, LoadRun, CountUnclassified, CountSummaries,
                CountCluster, CountCategories, CountErrors, DispatchCluster,
                DispatchDigests, Commit
  <2>2. run' = run
    BY <1>4, <2>1, RunMoves DEF PromiseInv
  <2>3. Busy
    BY <1>4, <2>2, FinalizerChanges DEF StrandInv, Progress
  <2>4. CASE \E m \in Message : queue[m] > 0
    BY <1>4, <2>4, LocalStep DEF OnlyMoves, QueueKept, Busy
  <2>5. CASE \E v \in Workers \ {w} : UpToDate(v)
    BY <1>4, <2>5, OthersStayUpToDate DEF Busy
  <2>6. CASE UpToDate(w) /\ Commit(w)
    <3>1. ~Drained(w)
      <4>1. Drained(w) => FinalStatus(w) \in Terminal
        BY DEF FinalStatus, Terminal
      <4> QED BY <2>6, <4>1 DEF Commit, Terminal
    <3> QED BY <2>6, <3>1, CommitLeavesWork DEF StrandInv, Undisturbed
  <2>7. CASE UpToDate(w) /\ ~Commit(w)
    BY <1>4, <2>2, <2>7, FinalizerStaysUpToDate DEF StrandInv, Busy
  <2> QED BY <2>3, <2>4, <2>5, <2>6, <2>7 DEF Busy
<1>5. ASSUME NEW w \in Workers, NEW m \in Message, Receive(w, m) PROVE Progress'
  <2>1. session'[w].pc \in Uncounted \ {"idle"}
    BY <1>5, ReceivedSession DEF Begun, Uncounted
  <2>2. UpToDate(w)'
    BY <2>1 DEF UpToDate, Uncounted, Unsummed, Unclustered, Unchecked
  <2> QED BY <2>2 DEF Progress, Busy
<1>6. ~ \E e \in Emails : MarkRead(e)
  BY DEF MarkRead
<1> QED BY <1>1, <1>2, <1>3, <1>4, <1>5, <1>6, NothingFails DEF Next, Rest

(* One account, a scheduled start, no crash or duplicate, nobody who reads  *)
(* mail meanwhile, queries that return all their rows, newsletters of one   *)
(* topic: a run whose start went through is at work until it ends, however  *)
(* the finalizers interleave and whatever the providers fail at, for any    *)
(* mail, categories and number of workers.                                  *)
THEOREM NeverStranded ==
  ASSUME Undisturbed, Readable = {}, NoTruncation, OneCluster
  PROVE  Spec => []NotStranded
<1>0. Trigger # "reclassify"
  BY DEF Undisturbed
<1>1. ASSUME Init PROVE StrandInv
  <2>1. /\ \A e \in Emails : ~(e \in newsletters)
        /\ \A m \in Message : queue[m] = 0 /\ \A w \in Workers : session[w].msg # m
        /\ \A w \in Workers : /\ session[w].claims = {} /\ session[w].pc = "idle"
                              /\ session[w].seen = "absent"
        /\ claimed = {} /\ member = {} /\ starter = "new" /\ newsletters = {}
    BY <1>0, <1>1, NoMessageAssumption DEF Init, InitPipeline, Idle
  <2>2. ClassificationInv /\ WritesItems /\ DispatchedInv /\ SeenEnded /\ Progress
    BY <1>0, <2>1 DEF ClassificationInv, Promised, WritesItems, DispatchedInv, Dispatched,
                      SeenEnded, Progress, Terminal
  <2>3. SummaryInv
    BY <1>0, <1>1, <2>1, StartsMembers DEF SummaryInv, PendingSummaries, AwaitingSummary
  <2>4. ClusterInv
    <3>1. \A S \in SUBSET Emails : ~InFlight(TechNewsCluster(S))
      BY <2>1, MessageType DEF InFlight, Waits
    <3> QED BY <2>1, <3>1 DEF ClusterInv, ClusterSent
  <2> QED BY <2>2, <2>3, <2>4 DEF StrandInv
<1>2. ASSUME Typed, PromiseInv, StrandInv, [Next]_vars PROVE StrandInv'
  <2>1. \A e \in Emails : ~MarkRead(e)
    BY DEF MarkRead
  <2>2. LabelsKept
    <3>1. CASE \E w \in Workers : Handle(w) \/ Finalize(w)
      BY <1>2, <3>1, VerdictsStay DEF LabelsKept, PromiseInv
    <3>2. CASE ~ \E w \in Workers : Handle(w) \/ Finalize(w)
      BY <1>2, <2>1, <3>2, NothingFails
         DEF Next, Rest, vars, Start, FanoutCommit, FanoutSend, ManualSend, ManualCommit,
             Receive, pipeline, LabelsKept
    <3> QED BY <3>1, <3>2
  <2>3. WritesItems' /\ DispatchedInv'
    BY <1>2, <2>1, <2>2, NextDispatched DEF StrandInv
  <2>4. ClassificationInv' /\ SummaryInv'
    BY <1>0, <1>2, NextClassification, NextSummary DEF StrandInv
  <2>5. ClusterInv' /\ SeenEnded' /\ Progress'
    BY <1>2, NextCluster, NextSeenEnded, NextProgress DEF StrandInv
  <2> QED BY <2>3, <2>4, <2>5 DEF StrandInv
<1>3. StrandInv => NotStranded
  BY DEF StrandInv, Progress, Busy, UpToDate, NotStranded, Quiet, Idle
<1> QED BY <1>1, <1>2, <1>3, TypedAlways, PromiseInvAlways, PTL DEF Spec

-----------------------------------------------------------------------------
(* A run's status tells of its failures, and is final                       *)

(* Work is asked for mail of the run, when its verdict is there, and a      *)
(* cluster job only when every verdict is: for the newsletters there are.   *)
MailInv ==
  /\ unread = Emails
  /\ \A e \in Emails \ member : Spent(Classify(e))
  /\ \A e \in newsletters : label[e] # "none"
  /\ \A e \in Emails : InFlight(SummarizeEmail(e)) =>
       e \in member /\ label[e] # "none" /\ NeedsSummary(e)
  /\ \A S \in SUBSET Emails : InFlight(TechNewsCluster(S)) =>
       /\ PendingUnclassified = {} /\ S = RunNewsletters
       /\ Cardinality(S) >= MinClusterNewsletters

(* What a finalizer found of the cluster and of the errors, once everything *)
(* else was settled, is so; and an ended run has the status it found.       *)
ClusterViews ==
  \A w \in Workers :
    /\ session[w].pc \in Unclustered => session[w].cluster
    /\ ~session[w].unclassified /\ ~session[w].cluster => ~ClusterPending
Unsettled(s) == s.unclassified \/ s.summaries \/ s.cluster
Checked == {"dispatch_cluster", "dispatch_digests", "commit"}
ErrorViews ==
  \A w \in Workers : session[w].pc \in Checked =>
    Unsettled(session[w]) \/ (session[w].errors <=> PromptErrors)
Reported == run \in Terminal => (run = "failed" <=> PromptErrors)
FailureInv ==
  MailInv /\ ClusterViews /\ ErrorViews /\ Reported /\ (run \in Terminal => ~ClusterPending)

(* A delivery puts nothing on its way.                                      *)
LEMMA ReceivedInFlight ==
  ASSUME Typed, NEW w \in Workers, NEW m \in Message, Receive(w, m), NEW n \in Message,
         InFlight(n)'
  PROVE  InFlight(n)
<1>1. /\ \A v \in Workers \ {w} : session'[v] = session[v]
      /\ session'[w].msg = m
  BY ReceivedSession
<1>2. queue \in [Message -> Nat] /\ queue[m] > 0 /\ queue' = [queue EXCEPT ![m] = @ - 1]
  BY DEF Typed, TypeOK, Receive
<1>3. queue'[n] > 0 => queue[n] > 0
  BY <1>2
<1> QED BY <1>1, <1>2, <1>3 DEF InFlight, Waits

(* Before its scan the run has nothing else on its way.                     *)
LEMMA ScanIsAlone ==
  ASSUME Undisturbed, Typed, PromiseInv, NEW w \in Workers, HandleIngest(w),
         NEW m \in Message, m.kind # "ingest"
  PROVE  ~InFlight(m)
<1>1. /\ run = "queued" /\ \A v \in Workers \ {w} : session[v] = Idle
      /\ session[w].msg.kind = "ingest"
  BY ScanIsFirst DEF PromiseInv, HandleIngest, At
<1>2. queue[m] = 0
  BY <1>1 DEF PromiseInv, Untouched, Unstarted
<1>3. Idle.msg # m
  BY NoMessageAssumption DEF Idle
<1> QED BY <1>1, <1>2, <1>3 DEF InFlight, Waits

(* When all mail is judged, what it asks for is settled.                    *)
LEMMA NewsSettled ==
  ASSUME Typed, VerdictOnce, NEW w \in Workers, Handle(w) \/ Finalize(w),
         ~HandleIngest(w), PendingUnclassified = {}
  PROVE  PendingUnclassified' = {} /\ RunNewsletters' = RunNewsletters
<1>1. /\ PendingUnclassified' = {}
      /\ \A e \in member \cap unread : e \in newsletters' <=> e \in newsletters
  BY SettledStays
<1>2. member' = member /\ unread' = unread
  BY NoNewMail, SummariesStay
<1> QED BY <1>1, <1>2 DEF RunNewsletters

(* The workers keep who is asked for what.                                  *)
LEMMA WorkerMail ==
  ASSUME Undisturbed, Typed, PromiseInv, MailInv, NEW w \in Workers, Handle(w) \/ Finalize(w)
  PROVE  MailInv'
<1>0. /\ label \in [Emails -> Labels \cup {"none"}] /\ newsletters \subseteq Emails
      /\ unread' = unread /\ member \subseteq member' /\ "none" \notin Categories
  <2>1. member \subseteq member'
    BY NoNewMail, ScanIsFirst DEF HandleIngest, PromiseInv
  <2> QED BY <2>1, SummariesStay, TaxonomyAssumption DEF Typed, TypeOK, Labels
<1>1. ASSUME NEW e \in Emails \ member'
      PROVE  Spent(Classify(e))'
  <2>1. e \notin member /\ Spent(Classify(e))
    BY <1>0, <1>1 DEF MailInv
  <2>2. Classify(e) \in Message /\ Classify(e).kind = "classify"
    BY MessageType DEF Classify
  <2>3. queue'[Classify(e)] = queue[Classify(e)]
    <3>1. CASE EnqueueUnclassified(w)
      <4>1. PICK T \in Page(UnclassifiedTargets(w)) : Send({Classify(f) : f \in T})
        BY <3>1 DEF EnqueueUnclassified
      <4>2. e \notin T
        BY <2>1, <4>1 DEF Page, UnclassifiedTargets, OfAccount
      <4>3. Classify(e) \notin {Classify(f) : f \in T}
        BY <4>2 DEF Classify
      <4> QED BY <2>2, <4>1, <4>3 DEF Send, Sent
    <3>2. CASE ~EnqueueUnclassified(w)
      BY <2>2, <3>2, OnlyScanSends DEF PromiseInv
    <3> QED BY <3>1, <3>2
  <2>4. \A v \in Workers : Begins(v, Classify(e))' => Begins(v, Classify(e))
    BY BeginsOnce
  <2> QED BY <2>1, <2>3, <2>4, SingleStays
<1>2. ASSUME NEW e \in newsletters'
      PROVE  label'[e] # "none"
  <2>1. CASE HandleClassify(w)
    <3> DEFINE f == session[w].msg.email
    <3>1. session[w].msg \in Message /\ session[w].msg.kind = "classify"
      BY <2>1 DEF HandleClassify, At, Typed, FitSession, Fits
    <3>2. f \in Emails
      BY <3>1, MessageFields
    <3>3. \E v \in Verdict : WriteVerdict(f, v)
      <4>1. NeedsReview \in Verdict /\ Verdicts[f] \subseteq Verdict
        BY <3>2, MailAssumption DEF NeedsReview, Verdict, Labels
      <4> QED BY <2>1, <4>1 DEF HandleClassify
    <3>4. PICK v \in Verdict : WriteVerdict(f, v)
      BY <3>3
    <3>5. v.label # "none"
      BY TaxonomyAssumption DEF Verdict
    <3>6. CASE e = f
      BY <1>0, <3>2, <3>4, <3>5, <3>6 DEF WriteVerdict
    <3>7. CASE e # f
      <4>1. e \in newsletters
        BY <1>2, <3>4, <3>7 DEF WriteVerdict
      <4> QED BY <1>0, <3>4, <3>7, <4>1 DEF WriteVerdict, MailInv
    <3> QED BY <3>6, <3>7
  <2>2. CASE ~HandleClassify(w)
    BY <1>2, <2>2, OthersKeepLabels DEF MailInv
  <2> QED BY <2>1, <2>2
<1>3. ASSUME NEW e \in Emails, InFlight(SummarizeEmail(e))'
      PROVE  e \in member' /\ label'[e] # "none" /\ NeedsSummary(e)'
  <2>1. SummarizeEmail(e) \in Message /\ SummarizeEmail(e).kind = "summarize_email"
    BY MessageType DEF SummarizeEmail
  <2>2. e \in member /\ label[e] # "none" /\ NeedsSummary(e)
    <3>1. CASE InFlight(SummarizeEmail(e))
      BY <3>1 DEF MailInv
    <3>2. CASE \E f \in AwaitingSummary : SummarizeEmail(e) = SummarizeEmail(f)
      <4>1. e \in AwaitingSummary
        BY <3>2 DEF SummarizeEmail
      <4> QED BY <1>0, <4>1 DEF AwaitingSummary, NeedsSummary, MailInv
    <3>3. \A S : SummarizeEmail(e) # TechNewsCluster(S)
      BY DEF SummarizeEmail, TechNewsCluster
    <3> QED BY <1>3, <2>1, <3>1, <3>2, <3>3, NewMessages
  <2>3. label'[e] = label[e] /\ (e \in newsletters' <=> e \in newsletters)
    BY <2>2, VerdictsStay DEF PromiseInv
  <2> QED BY <1>0, <2>2, <2>3 DEF NeedsSummary
<1>4. ASSUME NEW S \in SUBSET Emails, InFlight(TechNewsCluster(S))'
      PROVE  /\ PendingUnclassified' = {} /\ S = RunNewsletters'
             /\ Cardinality(S) >= MinClusterNewsletters
  <2>1. TechNewsCluster(S) \in Message /\ TechNewsCluster(S).kind = "tech_news_cluster"
    BY MessageType DEF TechNewsCluster
  <2>2. /\ PendingUnclassified = {} /\ S = RunNewsletters /\ ~HandleIngest(w)
        /\ Cardinality(S) >= MinClusterNewsletters
    <3>1. CASE InFlight(TechNewsCluster(S))
      BY <2>1, <3>1, ScanIsAlone DEF MailInv
    <3>2. CASE /\ DispatchCluster(w) /\ QueriesCluster(w)
               /\ Cardinality(RunNewsletters) >= MinClusterNewsletters
               /\ TechNewsCluster(S) = TechNewsCluster(RunNewsletters)
      <4>1. S = RunNewsletters
        BY <3>2 DEF TechNewsCluster
      <4>2. PendingUnclassified = {}
        BY <3>2 DEF QueriesCluster, PromiseInv, Views
      <4>3. ~HandleIngest(w)
        BY <3>2 DEF DispatchCluster, HandleIngest, At
      <4> QED BY <3>2, <4>1, <4>2, <4>3
    <3>3. \A e : TechNewsCluster(S) # SummarizeEmail(e)
      BY DEF SummarizeEmail, TechNewsCluster
    <3> QED BY <1>4, <2>1, <3>1, <3>2, <3>3, NewMessages
  <2> QED BY <2>2, NewsSettled DEF PromiseInv
<1> QED BY <1>0, <1>1, <1>2, <1>3, <1>4 DEF MailInv

(* The starter's, the queue's and the readers' steps keep it too: nobody    *)
(* reads.                                                                   *)
LEMMA OthersMail ==
  ASSUME Undisturbed, Readable = {}, Typed, PromiseInv, MailInv,
         \/ UNCHANGED vars \/ Start
         \/ \E w \in Workers : \E m \in Message : Receive(w, m)
  PROVE  /\ MailInv'
         /\ UNCHANGED <<member, unread, label, newsletters, summarized, failed, clustered,
                        clusterFailed>>
<1>0. /\ queue \in [Message -> Nat] /\ Trigger = "scheduled"
      /\ \A e \in Emails : /\ Classify(e) \in Message /\ Classify(e).kind = "classify"
                           /\ SummarizeEmail(e) \in Message
                           /\ SummarizeEmail(e).kind = "summarize_email"
      /\ \A S \in SUBSET Emails : /\ TechNewsCluster(S) \in Message
                                  /\ TechNewsCluster(S).kind = "tech_news_cluster"
  BY MessageType DEF Typed, TypeOK, Undisturbed, Classify, SummarizeEmail, TechNewsCluster
<1>1. UNCHANGED <<member, unread, label, newsletters, summarized, failed, clustered,
                  clusterFailed>>
  BY <1>0 DEF vars, Start, FanoutCommit, FanoutSend, ManualSend, ManualCommit, CreateRun,
              Receive, pipeline
<1>2. /\ PendingUnclassified' = PendingUnclassified /\ RunNewsletters' = RunNewsletters
      /\ \A e : NeedsSummary(e)' = NeedsSummary(e)
  BY <1>1 DEF PendingUnclassified, RunNewsletters, NeedsSummary
<1>3. \A m \in Message : m.kind # "ingest" =>
        (Spent(m) => Spent(m)') /\ (InFlight(m)' => InFlight(m))
  <2>1. CASE UNCHANGED vars
    BY <2>1 DEF vars, Spent, Begins, InFlight, Waits
  <2>2. CASE Start
    <3>1. session' = session /\ (UNCHANGED queue \/ Send(StartMessages))
      BY <2>2 DEF Start, FanoutCommit, FanoutSend, ManualSend, ManualCommit
    <3>2. \A m \in StartMessages : m.kind = "ingest"
      BY <1>0 DEF StartMessages, Ingest
    <3>3. \A m \in Message : m.kind # "ingest" => queue'[m] = queue[m]
      BY <3>1, <3>2 DEF Send, Sent
    <3> QED BY <3>1, <3>3 DEF Spent, Begins, InFlight, Waits
  <2>3. ASSUME NEW w \in Workers, NEW m \in Message, Receive(w, m), NEW n \in Message
        PROVE  (Spent(n) => Spent(n)') /\ (InFlight(n)' => InFlight(n))
    BY <2>3, ReceivedOnce, ReceivedInFlight
  <2> QED BY <2>1, <2>2, <2>3
<1> QED BY <1>0, <1>1, <1>2, <1>3 DEF MailInv

(* What a worker's step leaves of its view of the cluster and the errors.   *)
LEMMA ErrorsMove ==
  ASSUME Typed, NEW w \in Workers, Handle(w) \/ Finalize(w)
  PROVE  \/ session'[w] = Idle
         \/ /\ session[w].pc \in Unclustered \ {"count_cluster"}
            /\ session'[w].cluster = session[w].cluster
            /\ \/ session'[w].pc \in Unclustered
               \/ /\ session[w].pc \in Uncounted
                  /\ session'[w].unclassified = session[w].unclassified
         \/ /\ CountCluster(w) /\ session'[w].cluster = ClusterPending
            /\ session'[w].pc = "count_categories"
            /\ session'[w].unclassified = session[w].unclassified
         \/ /\ session[w].pc \in {"count_categories", "count_errors"} \cup Checked
            /\ session'[w].pc \in {"count_errors"} \cup Checked
            /\ session'[w].unclassified = session[w].unclassified
            /\ session'[w].summaries = session[w].summaries
            /\ session'[w].cluster = session[w].cluster
            /\ \/ session[w].pc = "count_categories" /\ session'[w].pc = "count_errors"
               \/ CountErrors(w) /\ session'[w].errors = PromptErrors
               \/ session[w].pc \in Checked /\ session'[w].errors = session[w].errors
<1>0. session \in [Workers -> FitSession] /\ session[w] \in Session
  BY DEF Typed, FitSession
<1>1. ASSUME NEW pc \in Uncounted, Goto(w, pc)
      PROVE  session'[w].cluster = session[w].cluster /\ session'[w].pc = pc
  BY <1>0, <1>1 DEF Goto, Session
<1>2. CASE Handle(w)
  <2>1. session'[w] = Idle \/ session'[w].pc \in Uncounted
    BY <1>2, HandleMoves
  <2>2. session[w].pc \in Uncounted
    BY <1>2
       DEF Handle, MarkRunRunning, HandleIngest, EnqueueUnclassified, EnqueueUnsummarized,
           HandleClassify, EnqueueSummary, ClaimHygiene, HandleSummarizeEmail, ReadCategory,
           WriteDigest, HandleTechNewsCluster, HandleUnsubscribe, At, Uncounted
  <2>3. session'[w] = Idle \/ session'[w].cluster = session[w].cluster
    <3>1. CASE ClaimHygiene(w)
      BY <1>0, <3>1 DEF ClaimHygiene, Goto, Session
    <3>2. CASE ReadCategory(w)
      <4> DEFINE s == [session[w] EXCEPT !.pc = "write_digest",
                                         !.items = CategoryItems(session[w].msg.category)]
      <4>1. \/ session' = [session EXCEPT ![w] = s]
            \/ Goto(w, "load_run") \/ GiveBack(w, queue)
        BY <3>2 DEF ReadCategory
      <4>2. s.cluster = session[w].cluster
        BY <1>0 DEF Session
      <4> HIDE DEF s
      <4>3. ASSUME session' = [session EXCEPT ![w] = s]
            PROVE  session'[w].cluster = session[w].cluster
        BY <1>0, <4>2, <4>3
      <4>4. "load_run" \in Uncounted
        BY DEF Uncounted
      <4>5. ASSUME GiveBack(w, queue) PROVE session'[w] = Idle
        BY <1>0, <4>5 DEF GiveBack
      <4> QED BY <1>1, <4>1, <4>3, <4>4, <4>5
    <3>3. CASE ~ClaimHygiene(w) /\ ~ReadCategory(w)
      <4>1. GiveBack(w, queue) \/ \E pc \in Uncounted : Goto(w, pc)
        BY <1>2, <3>3
           DEF Handle, MarkRunRunning, HandleIngest, EnqueueUnclassified,
               EnqueueUnsummarized, HandleClassify, EnqueueSummary, HandleSummarizeEmail,
               WriteDigest, HandleTechNewsCluster, HandleUnsubscribe, Uncounted
      <4>2. ASSUME GiveBack(w, queue) PROVE session'[w] = Idle
        BY <1>0, <4>2 DEF GiveBack
      <4> QED BY <1>1, <4>1, <4>2
    <3> QED BY <3>1, <3>2, <3>3
  <2>4. "count_cluster" \notin Uncounted /\ Uncounted \subseteq Unclustered
    BY DEF Uncounted, Unsummed, Unclustered
  <2> QED BY <2>1, <2>2, <2>3, <2>4
<1>3. CASE LoadRun(w)
  BY <1>0, <1>3 DEF LoadRun, Session, Uncounted, Unsummed, Unclustered
<1>4. CASE CountUnclassified(w) \/ CountSummaries(w)
  BY <1>0, <1>4 DEF CountUnclassified, CountSummaries, Session, Uncounted, Unsummed, Unclustered
<1>5. CASE CountCluster(w)
  BY <1>0, <1>5 DEF CountCluster, Session
<1>6. CASE CountCategories(w)
  BY <1>0, <1>6 DEF CountCategories, Session, Checked
<1>7. CASE CountErrors(w)
  BY <1>0, <1>7 DEF CountErrors, Session, Checked
<1>8. CASE DispatchCluster(w)
  BY <1>0, <1>8 DEF DispatchCluster, Goto, Session, Checked
<1>9. CASE DispatchDigests(w)
  BY <1>0, <1>9 DEF DispatchDigests, Session, Checked
<1>10. CASE Commit(w)
  BY <1>0, <1>10 DEF Commit
<1> QED BY <1>2, <1>3, <1>4, <1>5, <1>6, <1>7, <1>8, <1>9, <1>10 DEF Finalize

(* Once nothing is pending no record that is left can fail at anything new: *)
(* no email is classified any more, one that is summarized again has failed *)
(* before, and the newsletters' job has its rows or its error.              *)
LEMMA ErrorsStay ==
  ASSUME Undisturbed, Typed, PromiseInv, MailInv, NEW w \in Workers,
         Handle(w) \/ Finalize(w), ~HandleIngest(w), PendingUnclassified = {}, ~ClusterPending
  PROVE  /\ ~ClusterPending'
         /\ PendingSummaries = {} => (PromptErrors' <=> PromptErrors)
<1>0. /\ clustered \in BOOLEAN /\ clusterFailed \in BOOLEAN
      /\ label \in [Emails -> Labels \cup {"none"}] /\ session[w] \in FitSession
  BY DEF Typed, TypeOK
<1>1. RunNewsletters' = RunNewsletters /\ (clustered => clustered') /\ failed \subseteq failed'
      /\ (clusterFailed => clusterFailed')
  BY NewsSettled, ErrorsRemain DEF PromiseInv
<1>2. ~ClusterPending'
  BY <1>1, Zenon DEF ClusterPending
<1>3. ASSUME PendingSummaries = {}
      PROVE  failed' = failed
  <2>1. ~HandleClassify(w)
    <3> SUFFICES ASSUME HandleClassify(w) PROVE FALSE
      OBVIOUS
    <3> DEFINE e == session[w].msg.email
    <3>1. session[w].msg \in Message /\ session[w].msg.kind = "classify" /\ session[w].pc = "handle"
      BY <1>0 DEF HandleClassify, At, FitSession, Fits
    <3>2. e \in Emails /\ Begins(w, Classify(e))
      BY <3>1, MessageFields DEF Begins, Begun
    <3>3. ~Spent(Classify(e))
      BY <3>2 DEF Spent
    <3>4. e \in member /\ label[e] = "none"
      BY <3>2, <3>3 DEF MailInv, PromiseInv, VerdictOnce
    <3> QED BY <3>2, <3>4 DEF PendingUnclassified, MailInv
  <2>2. CASE HandleSummarizeEmail(w)
    <3> DEFINE e == session[w].msg.email
    <3>1. session[w].msg \in Message /\ session[w].msg.kind = "summarize_email"
      BY <1>0, <2>2 DEF HandleSummarizeEmail, At, FitSession, Fits
    <3>2. e \in Emails /\ session[w].msg = SummarizeEmail(e)
      BY <3>1, MessageFields
    <3>3. e \in member /\ NeedsSummary(e)
      BY <3>2 DEF MailInv, InFlight
    <3>4. e \in summarized \cup failed
      BY <1>3, <3>2, <3>3 DEF PendingSummaries, AwaitingSummary, MailInv
    <3> QED BY <2>2, <3>4 DEF HandleSummarizeEmail
  <2>3. CASE ~HandleSummarizeEmail(w)
    <3>1. CASE Handle(w)
      BY <2>1, <2>3, <3>1
         DEF Handle, MarkRunRunning, HandleIngest, EnqueueUnclassified, EnqueueUnsummarized,
             EnqueueSummary, ClaimHygiene, ReadCategory, WriteDigest, HandleTechNewsCluster,
             HandleUnsubscribe, pipeline
    <3>2. CASE Finalize(w)
      BY <3>2 DEF Finalize, LoadRun, CountUnclassified, CountSummaries, CountCluster,
                  CountCategories, CountErrors, DispatchCluster, DispatchDigests, Commit,
                  pipeline
    <3> QED BY <3>1, <3>2
  <2> QED BY <2>2, <2>3
<1>4. ASSUME clusterFailed' PROVE clusterFailed
  <2>1. CASE HandleTechNewsCluster(w)
    <3> DEFINE groups == IF clustered THEN {} ELSE ClusterGroups(session[w].msg.emails)
    <3>1. PICK broken \in SUBSET (IF ProvidersMayFail THEN groups ELSE {}) :
            /\ clustered' = (clustered \/ groups \ broken # {})
            /\ clusterFailed' = (clusterFailed \/ broken # {})
      BY <2>1, Zenon DEF HandleTechNewsCluster
    <3>2. session[w].msg \in Message /\ session[w].msg.kind = "tech_news_cluster"
      BY <1>0, <2>1 DEF HandleTechNewsCluster, At, FitSession, Fits
    <3>3. PICK S \in SUBSET Emails : session[w].msg = TechNewsCluster(S)
      BY <3>2 DEF Message, Ingest, Classify, SummarizeEmail, Hygiene, CategoryDigest,
                  TechNewsCluster
    <3>4. Cardinality(RunNewsletters) >= MinClusterNewsletters
      BY <3>3 DEF MailInv, InFlight
    <3>5. clustered \/ clusterFailed
      BY <3>4, Zenon DEF ClusterPending
    <3>6. clustered => broken = {}
      BY <3>1
    <3> HIDE DEF groups
    <3> QED BY <1>4, <3>1, <3>5, <3>6, Zenon
  <2>2. CASE ~HandleTechNewsCluster(w)
    <3>1. CASE HandleClassify(w) \/ HandleSummarizeEmail(w)
      BY <1>4, <3>1, Zenon DEF HandleClassify, HandleSummarizeEmail
    <3>2. CASE Finalize(w)
      BY <1>4, <3>2
         DEF Finalize, LoadRun, CountUnclassified, CountSummaries, CountCluster,
             CountCategories, CountErrors, DispatchCluster, DispatchDigests, Commit, pipeline
    <3>3. CASE Handle(w) /\ ~HandleClassify(w) /\ ~HandleSummarizeEmail(w)
      BY <1>4, <2>2, <3>3
         DEF Handle, MarkRunRunning, HandleIngest, EnqueueUnclassified, EnqueueUnsummarized,
             EnqueueSummary, ClaimHygiene, ReadCategory, WriteDigest, HandleUnsubscribe,
             pipeline
    <3> QED BY <3>1, <3>2, <3>3
  <2> QED BY <2>1, <2>2
<1>5. PendingSummaries = {} => (PromptErrors' <=> PromptErrors)
  BY <1>1, <1>3, <1>4, Zenon DEF PromptErrors
<1> QED BY <1>2, <1>5

(* The workers keep what the finalizers found.                              *)
LEMMA WorkerFailure ==
  ASSUME Undisturbed, Typed, PromiseInv, FailureInv, NEW w \in Workers,
         Handle(w) \/ Finalize(w)
  PROVE  FailureInv'
<1>0. /\ session \in [Workers -> FitSession] /\ session[w] \in Session
      /\ \A v \in Workers \ {w} : session'[v] = session[v]
      /\ Idle.unclassified = TRUE /\ Idle.cluster = TRUE /\ Idle.pc = "idle"
      /\ \A v \in Workers : /\ session[v].unclassified \in BOOLEAN
                            /\ session[v].summaries \in BOOLEAN
                            /\ session[v].cluster \in BOOLEAN
                            /\ session[v].errors \in BOOLEAN
  BY LocalStep DEF Typed, FitSession, Session, OnlyMoves, Idle
<1>1. MailInv'
  BY WorkerMail DEF FailureInv
<1>2. ASSUME HandleIngest(w)
      PROVE  \A v \in Workers : session[v].unclassified
  <2>1. \A v \in Workers \ {w} : session[v] = Idle
    BY <1>2, ScanIsFirst DEF PromiseInv
  <2>2. session[w].unclassified
    BY <1>2 DEF HandleIngest, At, PromiseInv, Views, Uncounted
  <2> QED BY <1>0, <2>1, <2>2
<1>3. ASSUME NEW v \in Workers, ~session[v].unclassified
      PROVE  /\ PendingUnclassified = {} /\ ~HandleIngest(w)
             /\ ~session[v].summaries => PendingSummaries = {}
             /\ ~session[v].cluster => ~ClusterPending
  BY <1>2, <1>3 DEF PromiseInv, Views, FailureInv, ClusterViews
<1>4. ASSUME NEW v \in Workers, ~session[v].unclassified, ~session[v].cluster
      PROVE  /\ ~ClusterPending'
             /\ ~session[v].summaries => (PromptErrors' <=> PromptErrors)
  BY <1>3, <1>4, ErrorsStay DEF FailureInv
<1>5. ASSUME NEW v \in Workers
      PROVE  /\ session'[v].pc \in Unclustered => session'[v].cluster
             /\ ~session'[v].unclassified /\ ~session'[v].cluster => ~ClusterPending'
  <2>1. CASE v # w \/ session'[v] = Idle
    BY <1>0, <1>4, <2>1 DEF FailureInv, ClusterViews
  <2>2. CASE CountCluster(w) /\ v = w /\ session'[w].cluster = ClusterPending
             /\ session'[w].pc = "count_categories"
    <3>1. ClusterPending' = ClusterPending
      BY <2>2, Zenon DEF CountCluster, pipeline, ClusterPending, RunNewsletters
    <3>2. "count_categories" \notin Unclustered
      BY DEF Uncounted, Unsummed, Unclustered
    <3> QED BY <2>2, <3>1, <3>2
  <2>3. CASE /\ session[w].pc \in Unclustered
             /\ session'[w].cluster = session[w].cluster
    BY <1>0, <2>1, <2>3 DEF FailureInv, ClusterViews
  <2>4. CASE /\ v = w /\ session'[w].pc \in {"count_errors"} \cup Checked
             /\ session'[w].unclassified = session[w].unclassified
             /\ session'[w].cluster = session[w].cluster
    <3>1. session'[w].pc \notin Unclustered
      BY <2>4 DEF Checked, Uncounted, Unsummed, Unclustered
    <3> QED BY <1>4, <2>4, <3>1
  <2> QED BY <2>1, <2>2, <2>3, <2>4, ErrorsMove
<1>6. ASSUME NEW v \in Workers, session'[v].pc \in Checked, ~Unsettled(session'[v])
      PROVE  session'[v].errors <=> PromptErrors'
  <2>0. session'[v].pc \notin Unclustered \cup {"count_categories", "count_errors", "idle"}
    BY <1>6 DEF Checked, Uncounted, Unsummed, Unclustered
  <2>1. CASE session'[v] = session[v]
    <3>1. session[v].errors <=> PromptErrors
      BY <1>6, <2>1 DEF FailureInv, ErrorViews
    <3> QED BY <1>4, <1>6, <2>1, <3>1 DEF Unsettled
  <2>2. CASE v = w /\ CountErrors(w) /\ session'[w].errors = PromptErrors
    <3>1. PromptErrors' = PromptErrors
      BY <2>2, Zenon DEF CountErrors, pipeline, PromptErrors
    <3> QED BY <2>2, <3>1
  <2>3. CASE /\ v = w /\ session[w].pc \in Checked
             /\ session'[w].errors = session[w].errors
             /\ session'[w].unclassified = session[w].unclassified
             /\ session'[w].summaries = session[w].summaries
             /\ session'[w].cluster = session[w].cluster
    <3>1. session[w].errors <=> PromptErrors
      BY <1>6, <2>3 DEF FailureInv, ErrorViews, Unsettled
    <3> QED BY <1>4, <1>6, <2>3, <3>1 DEF Unsettled
  <2>4. CASE /\ v = w /\ session[w].pc \in Uncounted
             /\ session'[w].unclassified = session[w].unclassified
    BY <1>6, <2>4 DEF PromiseInv, Views, Unsettled
  <2> QED BY <1>0, <2>0, <2>1, <2>2, <2>3, <2>4, ErrorsMove
<1>7. ASSUME run' \in Terminal
      PROVE  ~ClusterPending' /\ (run' = "failed" <=> PromptErrors')
  <2>1. CASE run' = run
    <3>1. /\ ~HandleIngest(w) /\ PendingUnclassified = {} /\ PendingSummaries = {}
          /\ ~ClusterPending /\ (run = "failed" <=> PromptErrors)
      BY <1>7, <2>1, ScanIsFirst DEF PromiseInv, EndedSettled, FailureInv, Reported, Terminal
    <3> QED BY <2>1, <3>1, ErrorsStay DEF FailureInv
  <2>2. CASE run' # run
    <3>1. Commit(w) /\ Drained(w) /\ run' = IF session[w].errors THEN "failed" ELSE "complete"
      BY <1>7, <2>2, RunMoves DEF PromiseInv, Terminal
    <3>2. /\ ~session[w].unclassified /\ ~session[w].summaries /\ ~session[w].cluster
          /\ session[w].pc = "commit"
      BY <3>1 DEF Drained, Commit
    <3>3. session[w].errors <=> PromptErrors
      BY <3>2 DEF FailureInv, ErrorViews, Unsettled, Checked
    <3>4. ~ClusterPending' /\ (PromptErrors' <=> PromptErrors)
      BY <1>4, <3>2
    <3> QED BY <3>1, <3>3, <3>4
  <2> QED BY <2>1, <2>2
<1>8. ClusterViews' /\ ErrorViews'
  BY <1>5, <1>6 DEF ClusterViews, ErrorViews
<1> QED BY <1>1, <1>7, <1>8 DEF FailureInv, Reported

LEMMA NextFailure ==
  ASSUME Undisturbed, Readable = {}, Typed, PromiseInv, FailureInv, [Next]_vars
  PROVE  FailureInv'
<1>1. CASE \/ UNCHANGED vars \/ Start
           \/ \E w \in Workers : \E m \in Message : Receive(w, m)
  <2>1. MailInv' /\ UNCHANGED <<member, unread, newsletters, failed, clustered, clusterFailed>>
    BY <1>1, OthersMail DEF FailureInv
  <2>2. ClusterPending' = ClusterPending /\ PromptErrors' = PromptErrors
    BY <2>1, Zenon DEF ClusterPending, RunNewsletters, PromptErrors
  <2>3. run' = run \/ run' \notin Terminal
    BY <1>1, StarterPromise DEF vars, Receive, Terminal
  <2>4. ASSUME NEW v \in Workers
        PROVE  session'[v] = session[v] \/ (session'[v].pc \in Begun /\ session'[v].cluster = TRUE)
    <3>1. CASE \E w \in Workers : \E m \in Message : Receive(w, m)
      <4>1. PICK w \in Workers, m \in Message : Receive(w, m)
        BY <3>1
      <4>2. session[w] = Idle /\ session[w] \in Session /\ session \in [Workers -> FitSession]
        BY <4>1 DEF Receive, Typed, FitSession
      <4>3. session'[w].cluster = TRUE
        BY <4>1, <4>2 DEF Receive, Session, Idle
      <4> QED BY <4>1, <4>3, ReceivedSession
    <3>2. CASE ~ \E w \in Workers : \E m \in Message : Receive(w, m)
      BY <1>1, <3>2 DEF vars, Start, FanoutCommit, FanoutSend, ManualSend, ManualCommit
    <3> QED BY <3>1, <3>2
  <2>5. ClusterViews'
    BY <2>2, <2>4 DEF FailureInv, ClusterViews
  <2>6. ErrorViews'
    BY <2>2, <2>4 DEF FailureInv, ErrorViews, Begun, Checked
  <2>7. Reported' /\ (run' \in Terminal => ~ClusterPending')
    BY <2>2, <2>3 DEF FailureInv, Reported
  <2> QED BY <2>1, <2>5, <2>6, <2>7 DEF FailureInv
<1>2. \A e \in Emails : ~MarkRead(e)
  BY DEF MarkRead
<1> QED BY <1>1, <1>2, WorkerFailure, NothingFails DEF Next, Rest

(* Providers that never fail leave nothing to report, whoever reads mail.   *)
NoFailure ==
  /\ failed = {} /\ ~clusterFailed /\ run # "failed"
  /\ \A w \in Workers : ~session[w].errors

LEMMA NextNoFailure ==
  ASSUME Undisturbed, ~ProvidersMayFail, Typed, PromiseInv, NoFailure, [Next]_vars
  PROVE  NoFailure'
<1>1. CASE UNCHANGED vars \/ Start \/ \E e \in Emails : MarkRead(e)
  <2>1. UNCHANGED <<failed, clusterFailed, session>>
    BY <1>1 DEF vars, Start, FanoutCommit, FanoutSend, ManualSend, ManualCommit, MarkRead,
                pipeline
  <2>2. run' = run \/ run' = "queued"
    BY <1>1, StarterPromise DEF vars, MarkRead
  <2> QED BY <2>1, <2>2 DEF NoFailure
<1>2. ASSUME NEW w \in Workers, Handle(w) \/ Finalize(w) PROVE NoFailure'
  <2>1. failed' = {} /\ ~clusterFailed'
    BY <1>2, ErrorsRemain DEF NoFailure
  <2>2. session'[w] = Idle \/ session'[w].errors = session[w].errors
          \/ session'[w].errors = PromptErrors
    BY <1>2, HandleMoves, FinalizeMoves
  <2>3. ~PromptErrors /\ ~Idle.errors
    BY Zenon DEF NoFailure, PromptErrors, Idle
  <2>4. ~session'[w].errors
    BY <2>2, <2>3 DEF NoFailure
  <2>5. \A v \in Workers \ {w} : session'[v] = session[v]
    BY <1>2, LocalStep DEF OnlyMoves
  <2>6. run' # "failed"
    BY <1>2, RunMoves DEF PromiseInv, NoFailure
  <2> QED BY <2>1, <2>4, <2>5, <2>6 DEF NoFailure
<1>3. ASSUME NEW w \in Workers, NEW m \in Message, Receive(w, m) PROVE NoFailure'
  <2>1. UNCHANGED <<failed, clusterFailed, run>>
    BY <1>3 DEF Receive, pipeline
  <2> QED BY <1>3, <2>1, ReceivedSession DEF NoFailure
<1> QED BY <1>1, <1>2, <1>3, NothingFails DEF Next, Rest

LEMMA ReportedAlways ==
  ASSUME Undisturbed, ProvidersMayFail => Readable = {}
  PROVE  Spec => []Reported
<1>1. CASE Readable = {}
  <2>1. ASSUME Init PROVE FailureInv
    <3>1. /\ Trigger # "reclassify"
          /\ \A m \in Message : queue[m] = 0 /\ \A w \in Workers : session[w].msg # m
          /\ \A w \in Workers : /\ session[w].pc = "idle" /\ session[w].cluster = TRUE
                                /\ session[w].unclassified = TRUE
          /\ run = "absent" /\ unread = Emails /\ newsletters = {}
      BY <2>1, NoMessageAssumption DEF Undisturbed, Init, InitPipeline, Idle
    <3>2. \A m \in Message : Spent(m) /\ ~InFlight(m)
      BY <3>1 DEF Spent, Begins, InFlight, Waits
    <3>3. MailInv
      BY <3>1, <3>2, MessageType DEF MailInv
    <3>4. ClusterViews /\ ErrorViews
      BY <3>1 DEF ClusterViews, ErrorViews, Checked
    <3> QED BY <3>1, <3>3, <3>4 DEF FailureInv, Reported, Terminal
  <2>2. Typed /\ PromiseInv /\ FailureInv /\ [Next]_vars => FailureInv'
    BY <1>1, NextFailure
  <2>3. FailureInv => Reported
    BY DEF FailureInv
  <2> QED BY <2>1, <2>2, <2>3, TypedAlways, PromiseInvAlways, PTL DEF Spec
<1>2. CASE ~ProvidersMayFail
  <2>1. Init => NoFailure
    BY DEF Init, NoFailure, Idle
  <2>2. Typed /\ PromiseInv /\ NoFailure /\ [Next]_vars => NoFailure'
    BY <1>2, NextNoFailure
  <2>3. NoFailure => Reported
    BY DEF NoFailure, Reported, PromptErrors
  <2> QED BY <2>1, <2>2, <2>3, TypedAlways, PromiseInvAlways, PTL DEF Spec
<1> QED BY <1>1, <1>2

(* A status that changes to a terminal one is a commit's, which touches     *)
(* nothing else that it reports.                                            *)
LEMMA EndIsCommit ==
  ASSUME Undisturbed, Typed, PromiseInv, [Next]_vars, run' \in Terminal, run' # run
  PROVE  PromptErrors' = PromptErrors
<1>1. PICK w \in Workers : Handle(w) \/ Finalize(w)
  BY StarterPromise, NothingFails DEF Next, Rest, vars, Receive, MarkRead, Terminal
<1>2. Commit(w)
  BY <1>1, RunMoves DEF PromiseInv, Terminal
<1> QED BY <1>2, Zenon DEF Commit, pipeline, PromptErrors

(* One account, a scheduled start, no crash or duplicate; the providers may *)
(* fail, or the user may read mail meanwhile, but not both: a run that ends *)
(* is reported failed when and only when a prompt call of it failed, though *)
(* the finalizer counts the errors in a query of its own and other records  *)
(* go on between that and its commit.                                       *)
THEOREM FailureReported ==
  ASSUME Undisturbed, ProvidersMayFail => Readable = {}
  PROVE  Spec => FailureIsReported
<1>1. ASSUME Typed, PromiseInv, Reported', [Next]_vars, run \notin Terminal, run' \in Terminal
      PROVE  run' = "failed" <=> PromptErrors
  BY <1>1, EndIsCommit DEF Reported
<1>2. Typed /\ PromiseInv /\ Reported' /\ [Next]_vars
        => [run \notin Terminal /\ run' \in Terminal => (run' = "failed" <=> PromptErrors)]_vars
  BY <1>1
<1> QED BY <1>2, TypedAlways, PromiseInvAlways, ReportedAlways, PTL
        DEF Spec, FailureIsReported

(* A step of the pipeline is a step of what the run promises, or shows      *)
(* nothing.                                                                 *)
LEMMA NextPromiseStep ==
  ASSUME Undisturbed, Typed, PromiseInv, Reported, Reported', [Next]_vars
  PROVE  [Promise!Next]_(Promise!runVars)
<1> DEFINE Owed == PendingUnclassified \cup PendingSummaries
<1>0. Owed \in SUBSET Emails /\ Owed' \in SUBSET Emails
  <2>1. Typed'
    BY NextType
  <2> QED BY <2>1 DEF Typed, TypeOK, PendingUnclassified, PendingSummaries, AwaitingSummary
<1>1. ASSUME run' = run, Owed' = Owed
      PROVE  [Promise!Next]_(Promise!runVars)
  BY <1>1 DEF Promise!runVars
<1>2. ASSUME run' = run, Owed' \subseteq Owed
      PROVE  [Promise!Next]_(Promise!runVars)
  BY <1>2 DEF Promise!Next, Promise!Settle
<1>3. CASE UNCHANGED vars
  <2>1. run' = run /\ Owed' = Owed
    BY <1>3 DEF vars, pipeline, PendingUnclassified, PendingSummaries, AwaitingSummary,
                NeedsSummary
  <2> QED BY <1>1, <2>1
<1>4. CASE Start
  <2>1. CASE run' = run
    BY <1>1, <1>4, <2>1, StarterPromise
  <2>2. CASE run = "absent" /\ run' = "queued"
    <3>1. Promise!Open
      BY <1>0, <2>2 DEF Promise!Open
    <3> QED BY <3>1 DEF Promise!Next
  <2> QED BY <1>4, <2>1, <2>2, StarterPromise
<1>5. ASSUME NEW w \in Workers, Handle(w) \/ Finalize(w)
      PROVE  [Promise!Next]_(Promise!runVars)
  <2>1. CASE run' = run /\ run \in {"queued", "running"}
    <3>1. Promise!Work
      BY <1>0, <2>1 DEF Promise!Work, Promise!Active
    <3> QED BY <3>1 DEF Promise!Next
  <2>2. CASE run = "queued" /\ run' = "running"
    <3>1. Promise!Start
      BY <1>0, <2>2 DEF Promise!Start
    <3> QED BY <3>1 DEF Promise!Next
  <2>3. CASE /\ (run = "absent" /\ run' = run) \/ (run \in Terminal /\ run' \in Terminal)
             /\ PendingUnclassified = {} /\ PendingUnclassified' = {}
             /\ PendingSummaries = {} /\ PendingSummaries' = {}
    <3>1. run' = run
      BY <2>3, EndIsCommit DEF Reported, Terminal
    <3> QED BY <1>1, <2>3, <3>1
  <2>4. CASE /\ run = "running" /\ run' \in Terminal
             /\ PendingUnclassified = {} /\ PendingUnclassified' = {}
             /\ PendingSummaries = {} /\ PendingSummaries' = {}
    <3>1. Promise!End
      BY <2>4 DEF Promise!End, Promise!Active, Promise!Ended, Terminal
    <3> QED BY <3>1 DEF Promise!Next
  <2> QED BY <1>5, <2>1, <2>2, <2>3, <2>4, WorkerPromise
<1>6. ASSUME NEW w \in Workers, NEW m \in Message, Receive(w, m)
      PROVE  [Promise!Next]_(Promise!runVars)
  BY <1>1, <1>6, ReceivedPromise
<1>7. ASSUME NEW e \in Emails, MarkRead(e)
      PROVE  [Promise!Next]_(Promise!runVars)
  <2>1. run' = run /\ Owed' \subseteq Owed
    BY <1>7, ReadPromise
  <2> QED BY <1>2, <2>1
<1> QED BY <1>3, <1>4, <1>5, <1>6, <1>7, NothingFails DEF Next, Rest

(* In the same circumstances the pipeline keeps the promise of its run row, *)
(* with any number of workers and redundant finalizers: a terminal status   *)
(* is final, nothing is owed when the run ends, and no mail joins it.       *)
THEOREM PromiseKept ==
  ASSUME Undisturbed, ProvidersMayFail => Readable = {}
  PROVE  Spec => ImplementsDigestRun
<1>1. Init => Promise!Init
  BY DEF Init, Promise!Init, PendingUnclassified, PendingSummaries, AwaitingSummary
<1>2. Typed /\ PromiseInv /\ Reported /\ Reported' /\ [Next]_vars
        => [Promise!Next]_(Promise!runVars)
  BY NextPromiseStep
<1> QED BY <1>1, <1>2, TypedAlways, PromiseInvAlways, ReportedAlways, PTL
        DEF Spec, ImplementsDigestRun, Promise!Spec

-----------------------------------------------------------------------------
(* The digests of a complete run                                            *)

(* A digest that was written from all the summaries its category will have. *)
Complete(c) ==
  /\ PendingUnclassified = {}
  /\ \A e \in member \cap unread : label[e] = c => e \in summarized
Covers(S, c) == Complete(c) /\ CategoryItems(c) \subseteq S
Written(c) == CategoryItems(c) = {} \/ digest[c] # NoDigest

Coverage ==
  /\ run \in Unstarted => \A c \in Categories : digest[c] = NoDigest
  /\ \A c \in Categories : digest[c] # NoDigest => Covers(digest[c], c)
  /\ WritesItems
  /\ \A w \in Workers : session[w].pc = "write_digest" =>
       Covers(session[w].items, session[w].msg.category)
  /\ \A w \in Workers : session[w].pc \in Unchecked => session[w].categories = Categories
  /\ \A w \in Workers : ~session[w].unclassified /\ ~session[w].summaries =>
       \A c \in Categories \ session[w].categories : Written(c)
  /\ run = "complete" => \A c \in Categories : Written(c)

(* A complete category stays as it is.                                      *)
LEMMA CoversStays ==
  ASSUME Undisturbed, Typed, VerdictOnce, NEW w \in Workers, Handle(w) \/ Finalize(w),
         ~HandleIngest(w), NEW c, Complete(c)
  PROVE  /\ Complete(c)' /\ CategoryItems(c)' = CategoryItems(c)
         /\ \A S : Covers(S, c) => Covers(S, c)'
<1>1. /\ member' = member /\ unread' = unread /\ summarized \subseteq summarized'
      /\ PendingUnclassified' = {}
      /\ \A e \in member \cap unread : label'[e] = label[e]
  BY NoNewMail, SummariesStay, SettledStays DEF Complete
<1>2. Complete(c)'
  BY <1>1 DEF Complete
<1>3. CategoryItems(c)' = CategoryItems(c)
  BY <1>1 DEF CategoryItems, Complete
<1> QED BY <1>2, <1>3 DEF Covers

(* When nothing is pending every category is complete.                      *)
LEMMA DrainedIsComplete ==
  ASSUME failed = {}, PendingUnclassified = {}, PendingSummaries = {}, NEW c \in Categories
  PROVE  Complete(c)
BY DEF Complete, PendingSummaries, AwaitingSummary, NeedsSummary

(* What a worker keeps in mind of the categories.                           *)
LEMMA CategoriesMove ==
  ASSUME Typed, NEW w \in Workers, Handle(w) \/ Finalize(w)
  PROVE  \/ session'[w] = Idle
         \/ /\ session'[w].categories = session[w].categories
            /\ \/ session[w].pc \in Unchecked
               \/ /\ session'[w].pc \notin Unchecked
                  /\ session'[w].unclassified = session[w].unclassified
                  /\ session'[w].summaries = session[w].summaries
         \/ /\ CountCategories(w) /\ session'[w].categories = MissingDigests
            /\ session'[w].pc \notin Unchecked
<1>0. session \in [Workers -> FitSession] /\ session[w] \in Session
  BY DEF Typed, FitSession
<1>1. ASSUME NEW pc, Goto(w, pc)
      PROVE  session'[w].categories = session[w].categories
  BY <1>0, <1>1 DEF Goto, Session
<1>2. CASE ClaimHygiene(w)
  <2>1. session[w].pc \in Unchecked
    BY <1>2 DEF ClaimHygiene, Unchecked, Uncounted
  <2>2. session'[w].categories = session[w].categories
    BY <1>0, <1>2 DEF ClaimHygiene, Goto, Session
  <2> QED BY <2>1, <2>2
<1>3. CASE ReadCategory(w)
  <2> DEFINE s == [session[w] EXCEPT !.pc = "write_digest",
                                     !.items = CategoryItems(session[w].msg.category)]
  <2>1. \/ session' = [session EXCEPT ![w] = s]
        \/ Goto(w, "load_run") \/ GiveBack(w, queue)
    BY <1>3 DEF ReadCategory
  <2>2. s.categories = session[w].categories
    BY <1>0 DEF Session
  <2> HIDE DEF s
  <2>3. ASSUME session' = [session EXCEPT ![w] = s]
        PROVE  session'[w].categories = session[w].categories
    BY <1>0, <2>2, <2>3
  <2>4. ASSUME GiveBack(w, queue) PROVE session'[w] = Idle
    BY <1>0, <2>4 DEF GiveBack
  <2>5. session[w].pc \in Unchecked
    BY <1>3 DEF ReadCategory, At, Unchecked, Uncounted
  <2> QED BY <1>1, <2>1, <2>3, <2>4, <2>5
<1>4. CASE Handle(w) /\ ~ClaimHygiene(w) /\ ~ReadCategory(w)
  <2>1. GiveBack(w, queue) \/ \E pc : Goto(w, pc)
    BY <1>4
       DEF Handle, MarkRunRunning, HandleIngest, EnqueueUnclassified, EnqueueUnsummarized,
           HandleClassify, EnqueueSummary, HandleSummarizeEmail, WriteDigest,
           HandleTechNewsCluster, HandleUnsubscribe
  <2>2. session[w].pc \in Unchecked
    BY <1>4
       DEF Handle, MarkRunRunning, HandleIngest, EnqueueUnclassified, EnqueueUnsummarized,
           HandleClassify, EnqueueSummary, HandleSummarizeEmail, WriteDigest,
           HandleTechNewsCluster, HandleUnsubscribe, At, Unchecked, Uncounted
  <2>3. ASSUME GiveBack(w, queue) PROVE session'[w] = Idle
    BY <1>0, <2>3 DEF GiveBack
  <2> QED BY <1>1, <2>1, <2>2, <2>3
<1>5. CASE LoadRun(w)
  BY <1>0, <1>5 DEF LoadRun, Session, Unchecked, Uncounted
<1>6. CASE CountUnclassified(w) \/ CountSummaries(w) \/ CountCluster(w)
  BY <1>0, <1>6
     DEF CountUnclassified, CountSummaries, CountCluster, Session, Unchecked, Uncounted
<1>7. CASE CountCategories(w)
  BY <1>0, <1>7 DEF CountCategories, Session, Unchecked, Uncounted
<1>8. CASE CountErrors(w) \/ DispatchDigests(w)
  BY <1>0, <1>8 DEF CountErrors, DispatchDigests, Session, Unchecked, Uncounted
<1>9. CASE DispatchCluster(w)
  BY <1>0, <1>9 DEF DispatchCluster, Goto, Session, Unchecked, Uncounted
<1>10. CASE Commit(w)
  BY <1>0, <1>10 DEF Commit
<1> QED BY <1>2, <1>3, <1>4, <1>5, <1>6, <1>7, <1>8, <1>9, <1>10 DEF Finalize

(* A digest that is there stays, and was not there before the run ran.      *)
LEMMA WhereDigestComesFrom ==
  ASSUME Typed, NEW w \in Workers, Handle(w) \/ Finalize(w), NEW c \in Categories
  PROVE  \/ digest'[c] = digest[c]
         \/ /\ WriteDigest(w) /\ session[w].pc = "write_digest"
            /\ c = session[w].msg.category /\ digest'[c] = session[w].items
<1>1. CASE WriteDigest(w)
  <2>1. digest \in [Categories -> SUBSET Emails]
    BY DEF Typed, TypeOK
  <2> QED BY <1>1, <2>1 DEF WriteDigest
<1>2. CASE Handle(w) /\ ~WriteDigest(w)
  <2>1. digest' = digest
    <3>1. CASE HandleClassify(w) \/ HandleSummarizeEmail(w) \/ HandleTechNewsCluster(w)
      BY <3>1, Zenon DEF HandleClassify, HandleSummarizeEmail, HandleTechNewsCluster
    <3>2. CASE ~(HandleClassify(w) \/ HandleSummarizeEmail(w) \/ HandleTechNewsCluster(w))
      BY <1>2, <3>2
         DEF Handle, MarkRunRunning, HandleIngest, EnqueueUnclassified,
             EnqueueUnsummarized, EnqueueSummary, ClaimHygiene, ReadCategory,
             HandleUnsubscribe, pipeline
    <3> QED BY <3>1, <3>2
  <2> QED BY <2>1
<1>3. CASE Finalize(w)
  BY <1>3
     DEF Finalize, LoadRun, CountUnclassified, CountSummaries, CountCluster,
         CountCategories, CountErrors, DispatchCluster, DispatchDigests, Commit, pipeline
<1> QED BY <1>1, <1>2, <1>3

(* What a worker is about to write it has read from a complete category.    *)
LEMMA WorkerReads ==
  ASSUME Typed, failed = {}, NEW w \in Workers, Handle(w) \/ Finalize(w),
         session'[w].pc = "write_digest"
  PROVE  /\ session[w].msg.category \in Categories /\ ~HandleIngest(w)
         /\ session'[w].msg = session[w].msg
         /\ Covers(session'[w].items, session[w].msg.category)
<1>0. session \in [Workers -> FitSession] /\ session[w] \in FitSession /\ session[w] \in Session
  BY DEF Typed, FitSession
<1>1. CASE ReadCategory(w)
  <2> DEFINE c == session[w].msg.category
             s == [session[w] EXCEPT !.pc = "write_digest", !.items = CategoryItems(c)]
  <2>1. \/ Goto(w, "load_run") \/ GiveBack(w, queue)
        \/ CategoryReady(c) /\ session' = [session EXCEPT ![w] = s]
    BY <1>1 DEF ReadCategory
  <2>2. ~Goto(w, "load_run") /\ ~GiveBack(w, queue)
    BY <1>0 DEF Goto, GiveBack, Session, Idle
  <2>3. s.items = CategoryItems(c) /\ s.msg = session[w].msg
    BY <1>0 DEF Session
  <2> HIDE DEF s
  <2>4. session'[w] = s
    BY <1>0, <2>1, <2>2
  <2>5. Complete(c)
    BY <2>1, <2>2 DEF CategoryReady, Complete
  <2>6. session[w].msg.kind = "category_digest" /\ session[w].pc = "handle"
    BY <1>1 DEF ReadCategory, At
  <2>7. c \in Categories
    BY <1>0, <2>6, MessageFields DEF FitSession, Fits
  <2>8. ~HandleIngest(w)
    BY <2>6 DEF HandleIngest, At
  <2> QED BY <2>3, <2>4, <2>5, <2>7, <2>8 DEF Covers
<1>2. CASE ~ReadCategory(w)
  <2>1. CASE ClaimHygiene(w)
    BY <1>0, <2>1 DEF ClaimHygiene, Goto, Session
  <2>2. CASE Handle(w) /\ ~ClaimHygiene(w)
    <3>1. GiveBack(w, queue) \/ \E pc : pc # "write_digest" /\ Goto(w, pc)
      BY <1>2, <2>2
         DEF Handle, MarkRunRunning, HandleIngest, EnqueueUnclassified,
             EnqueueUnsummarized, HandleClassify, EnqueueSummary, HandleSummarizeEmail,
             WriteDigest, HandleTechNewsCluster, HandleUnsubscribe
    <3> QED BY <1>0, <3>1 DEF Goto, GiveBack, Session, Idle
  <2>3. CASE Finalize(w)
    BY <1>0, <2>3
       DEF Finalize, LoadRun, CountUnclassified, CountSummaries, CountCluster,
           CountCategories, CountErrors, DispatchCluster, DispatchDigests, Commit, Goto,
           Session, Idle
  <2> QED BY <2>1, <2>2, <2>3
<1> QED BY <1>1, <1>2

(* A step of a worker keeps the digests covering.                           *)
LEMMA WorkerCoverage ==
  ASSUME Undisturbed, Typed, PromiseInv, Coverage, NEW w \in Workers,
         Handle(w) \/ Finalize(w), failed' = {}
  PROVE  Coverage'
<1>0. /\ session \in [Workers -> FitSession] /\ session[w] \in FitSession
      /\ \A v \in Workers \ {w} : session'[v] = session[v]
      /\ failed = {} /\ failed' = {} /\ WritesItems
      /\ Idle.pc = "idle" /\ Idle.unclassified = TRUE /\ Idle.categories = Categories
  BY LocalStep, ErrorsRemain DEF Typed, FitSession, OnlyMoves, Coverage, Idle
<1>1. WritesItems'
  BY <1>0, WritesItemsStep
<1>2. run' \in Unstarted => \A c \in Categories : digest'[c] = NoDigest
  <2> SUFFICES ASSUME run' \in Unstarted, NEW c \in Categories PROVE digest'[c] = NoDigest
    OBVIOUS
  <2>1. run \in Unstarted
    BY StaysStarted DEF PromiseInv
  <2>2. ~WriteDigest(w)
    BY <2>1, WorkStarted DEF PromiseInv, WriteDigest, MarkRunRunning, HandleIngest, At
  <2> QED BY <2>1, <2>2, WhereDigestComesFrom DEF Coverage
<1>3. ASSUME NEW c \in Categories, digest'[c] # NoDigest
      PROVE  Covers(digest[c], c)' /\ ~HandleIngest(w)
  <2>1. CASE /\ WriteDigest(w) /\ session[w].pc = "write_digest"
             /\ c = session[w].msg.category /\ digest'[c] = session[w].items
    <3>1. Covers(session[w].items, c) /\ ~HandleIngest(w)
      BY <2>1 DEF Coverage, HandleIngest, At
    <3>2. /\ Complete(c)' /\ CategoryItems(c)' = CategoryItems(c)
          /\ CategoryItems(c) \subseteq session[w].items
      BY <3>1, CoversStays DEF PromiseInv, Covers
    <3> QED BY <2>1, <3>1, <3>2 DEF Covers
  <2>2. CASE digest'[c] = digest[c]
    <3>1. Covers(digest[c], c)
      BY <1>3, <2>2 DEF Coverage
    <3>2. ~HandleIngest(w)
      BY <1>3, <2>2, ScanIsFirst DEF Coverage, PromiseInv, Unstarted
    <3>3. Complete(c)' /\ CategoryItems(c)' = CategoryItems(c)
      BY <3>1, <3>2, CoversStays DEF PromiseInv, Covers
    <3> QED BY <2>2, <3>1, <3>2, <3>3 DEF Covers
  <2> QED BY <2>1, <2>2, WhereDigestComesFrom
<1>4. ASSUME NEW v \in Workers, session'[v].pc = "write_digest"
      PROVE  Covers(session[v].items, session[v].msg.category)'
  <2>1. CASE v = w
    <3> DEFINE c == session[w].msg.category
    <3>1. /\ ~HandleIngest(w) /\ session'[w].msg = session[w].msg
          /\ Complete(c) /\ CategoryItems(c) \subseteq session'[w].items
      BY <1>0, <1>4, <2>1, WorkerReads DEF Covers
    <3>2. Complete(c)' /\ CategoryItems(c)' = CategoryItems(c)
      BY <3>1, CoversStays DEF PromiseInv
    <3> QED BY <2>1, <3>1, <3>2 DEF Covers
  <2>2. CASE v # w
    <3> DEFINE c == session[v].msg.category
    <3>1. session'[v] = session[v]
      BY <1>0, <2>2
    <3>2. Complete(c) /\ CategoryItems(c) \subseteq session[v].items
      BY <1>4, <3>1 DEF Coverage, Covers
    <3>3. ~HandleIngest(w)
      BY <1>4, <2>2, <3>1, ScanIsFirst DEF PromiseInv, Idle
    <3>4. Complete(c)' /\ CategoryItems(c)' = CategoryItems(c)
      BY <3>1, <3>2, <3>3, CoversStays DEF PromiseInv
    <3> QED BY <3>1, <3>2, <3>4 DEF Covers
  <2> QED BY <2>1, <2>2
<1>5. \A v \in Workers : session'[v].pc \in Unchecked => session'[v].categories = Categories
  <2>1. session'[w].pc \in Unchecked => session'[w].categories = Categories
    BY <1>0, CategoriesMove DEF Coverage
  <2> QED BY <1>0, <2>1 DEF Coverage
<1>6. ASSUME NEW c \in Categories, ~HandleIngest(w), PendingUnclassified = {},
             PendingSummaries = {}, Written(c)
      PROVE  Written(c)'
  <2>1. CategoryItems(c)' = CategoryItems(c)
    BY <1>0, <1>6, DrainedIsComplete, CoversStays DEF PromiseInv
  <2>2. digest[c] # NoDigest => digest'[c] # NoDigest
    BY DigestStays DEF Coverage
  <2> QED BY <1>6, <2>1, <2>2 DEF Written
<1>7. ASSUME NEW v \in Workers, ~session'[v].unclassified, ~session'[v].summaries
      PROVE  \A c \in Categories \ session'[v].categories : Written(c)'
  <2>1. CASE v # w
    <3>1. /\ session'[v] = session[v] /\ PendingUnclassified = {} /\ PendingSummaries = {}
          /\ \A c \in Categories \ session[v].categories : Written(c)
      BY <1>0, <1>7, <2>1 DEF PromiseInv, Views, Coverage
    <3>2. ~HandleIngest(w)
      BY <1>0, <1>7, <2>1, <3>1, ScanIsFirst DEF PromiseInv
    <3> QED BY <1>6, <3>1, <3>2
  <2>2. CASE v = w /\ CountCategories(w)
    <3>0. session'[w].categories = MissingDigests
      BY <1>0, <2>2 DEF CountCategories, FitSession, Session
    <3>1. \A c \in Categories : CategoryItems(c)' = CategoryItems(c) /\ digest'[c] = digest[c]
      BY <2>2 DEF CountCategories, pipeline, CategoryItems
    <3> QED BY <2>2, <3>0, <3>1 DEF MissingDigests, Written
  <2>3. CASE v = w /\ session'[w] # Idle /\ ~CountCategories(w)
    <3>1. session'[w].categories = session[w].categories
      BY <2>3, CategoriesMove
    <3>2. CASE session[w].pc \in Unchecked
      BY <2>3, <3>1, <3>2 DEF Coverage
    <3>3. CASE session[w].pc \notin Unchecked
      <4>1. ~session[w].unclassified /\ ~session[w].summaries
        BY <1>7, <2>3, <3>3, CategoriesMove
      <4>2. /\ PendingUnclassified = {} /\ PendingSummaries = {}
            /\ \A c \in Categories \ session[w].categories : Written(c)
        BY <4>1 DEF PromiseInv, Views, Coverage
      <4>3. ~HandleIngest(w)
        BY <3>3 DEF HandleIngest, At, Unchecked, Uncounted
      <4> QED BY <1>6, <2>3, <3>1, <4>2, <4>3
    <3> QED BY <3>2, <3>3
  <2>4. session'[v] # Idle
    BY <1>0, <1>7
  <2> QED BY <2>1, <2>2, <2>3, <2>4
<1>8. ASSUME run' = "complete", NEW c \in Categories
      PROVE  Written(c)'
  <2>1. CASE run' = run
    <3>1. Written(c) /\ PendingUnclassified = {} /\ PendingSummaries = {}
      BY <1>8, <2>1 DEF Coverage, PromiseInv, EndedSettled, Terminal
    <3>2. ~HandleIngest(w)
      BY <1>8, <2>1, ScanIsFirst DEF PromiseInv
    <3> QED BY <1>6, <3>1, <3>2
  <2>2. CASE run' # run
    <3>1. Commit(w) /\ Drained(w)
      BY <1>8, <2>2, RunMoves DEF PromiseInv
    <3>2. PendingUnclassified = {} /\ PendingSummaries = {} /\ Written(c)
      BY <3>1 DEF Drained, PromiseInv, Views, Coverage
    <3>3. ~HandleIngest(w)
      BY <3>1 DEF Commit, HandleIngest, At
    <3> QED BY <1>6, <3>2, <3>3
  <2> QED BY <2>1, <2>2
<1> QED BY <1>1, <1>2, <1>3, <1>4, <1>5, <1>7, <1>8 DEF Coverage

(* What reads, delivers or starts writes no digest.                         *)
LEMMA OthersCoverage ==
  ASSUME Undisturbed, Typed, PromiseInv, Coverage,
         \/ UNCHANGED vars \/ Start
         \/ \E w \in Workers : \E m \in Message : Receive(w, m)
         \/ \E e \in Emails : MarkRead(e)
  PROVE  Coverage'
<1>1. /\ member' = member /\ unread' \subseteq unread /\ label' = label
      /\ summarized' = summarized /\ digest' = digest
  <2>1. CASE Start
    BY <2>1 DEF Start, FanoutCommit, FanoutSend, ManualSend, ManualCommit, CreateRun,
                Undisturbed, pipeline
  <2>2. CASE ~Start
    BY <2>2 DEF vars, pipeline, Receive, MarkRead
  <2> QED BY <2>1, <2>2
<1>2. ASSUME NEW c
      PROVE  /\ Complete(c) => Complete(c)'
             /\ CategoryItems(c)' \subseteq CategoryItems(c)
             /\ Written(c) => Written(c)'
  BY <1>1 DEF Complete, PendingUnclassified, CategoryItems, Written
<1>3. run' \in Unstarted => run \in Unstarted
  BY StarterPromise DEF Start, FanoutCommit, FanoutSend, ManualSend, ManualCommit, vars,
                        Receive, MarkRead, Unstarted
<1>4. run' = "complete" => run = "complete"
  BY StarterPromise DEF vars, Receive, MarkRead
<1>5. ASSUME NEW v \in Workers
      PROVE  \/ session'[v] = session[v]
             \/ /\ session'[v].pc \in Begun
                /\ session'[v].unclassified = TRUE /\ session'[v].categories = Categories
  <2>1. CASE \E w \in Workers : \E m \in Message : Receive(w, m)
    <3>1. PICK w \in Workers, m \in Message : Receive(w, m)
      BY <2>1
    <3> QED BY <3>1, ReceivedSession
  <2>2. CASE ~ \E w \in Workers : \E m \in Message : Receive(w, m)
    BY <2>2 DEF vars, Start, FanoutCommit, FanoutSend, ManualSend, ManualCommit, MarkRead
  <2> QED BY <2>1, <2>2
<1>6. \A c \in Categories : digest'[c] # NoDigest => Covers(digest[c], c)'
  BY <1>1, <1>2 DEF Coverage, Covers
<1>7. WritesItems'
  BY <1>5 DEF Coverage, WritesItems, Begun
<1>8. ASSUME NEW v \in Workers, session'[v].pc = "write_digest"
      PROVE  Covers(session[v].items, session[v].msg.category)'
  <2>1. session'[v] = session[v]
    BY <1>5, <1>8 DEF Begun
  <2> QED BY <1>2, <1>8, <2>1 DEF Coverage, Covers
<1>9. \A v \in Workers : session'[v].pc \in Unchecked => session'[v].categories = Categories
  BY <1>5 DEF Coverage
<1>10. \A v \in Workers : ~session'[v].unclassified /\ ~session'[v].summaries =>
         \A c \in Categories \ session'[v].categories : Written(c)'
  BY <1>2, <1>5 DEF Coverage
<1>11. run' = "complete" => \A c \in Categories : Written(c)'
  BY <1>2, <1>4 DEF Coverage
<1>12. run' \in Unstarted => \A c \in Categories : digest'[c] = NoDigest
  BY <1>1, <1>3 DEF Coverage
<1> QED BY <1>6, <1>7, <1>8, <1>9, <1>10, <1>11, <1>12 DEF Coverage

(* In the circumstances of FailureReported the digests of a complete run    *)
(* were written from every summary their categories have: nothing of it     *)
(* failed, a record reads its category only when all of it is summarized,   *)
(* and a finalizer that found nothing pending looked for the missing        *)
(* digests after that.                                                      *)
THEOREM DigestsCover ==
  ASSUME Undisturbed, ProvidersMayFail => Readable = {}
  PROVE  Spec => []DigestCoversCategory
<1> DEFINE Inv == failed = {} => Coverage
<1>1. ASSUME Init PROVE Inv
  <2>1. /\ \A w \in Workers : session[w] = Idle
        /\ \A c \in Categories : digest[c] = NoDigest
        /\ Idle.pc = "idle" /\ Idle.unclassified = TRUE /\ Idle.categories = Categories
        /\ run = "absent"
    BY <1>1 DEF Init, Idle
  <2> QED BY <2>1 DEF Coverage, WritesItems
<1>2. ASSUME Typed, PromiseInv, Inv, [Next]_vars
      PROVE  Inv'
  <2> SUFFICES ASSUME failed' = {} PROVE Coverage'
    OBVIOUS
  <2>1. CASE \E w \in Workers : Handle(w) \/ Finalize(w)
    <3>1. failed = {}
      BY <2>1, ErrorsRemain
    <3> QED BY <1>2, <2>1, <3>1, WorkerCoverage
  <2>2. CASE ~ \E w \in Workers : Handle(w) \/ Finalize(w)
    <3>1. failed' = failed
      BY <1>2, <2>2, NothingFails
         DEF Next, Rest, vars, Start, FanoutCommit, FanoutSend, ManualSend, ManualCommit,
             Receive, MarkRead, pipeline
    <3> QED BY <1>2, <2>2, <3>1, OthersCoverage, NothingFails DEF Next, Rest
  <2> QED BY <2>1, <2>2
<1>3. Inv /\ Reported => DigestCoversCategory
  <2> SUFFICES ASSUME Inv, Reported, run = "complete" PROVE DigestCoversCategory
    BY DEF DigestCoversCategory
  <2>1. failed = {}
    BY DEF Reported, Terminal, PromptErrors
  <2> QED BY <2>1 DEF Coverage, Covers, Written, DigestCoversCategory
<1> HIDE DEF Inv
<1> QED BY <1>1, <1>2, <1>3, TypedAlways, PromiseInvAlways, ReportedAlways, PTL DEF Spec
=============================================================================
