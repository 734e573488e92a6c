----------------------------- MODULE NewsClusters -----------------------------
(***************************************************************************)
(* The newsletter cluster job of one run, as several deliveries of its       *)
(* message and the news page meet in the database: RunPipeline takes the     *)
(* job as one step.  A job routes its newsletters to clusters, and for each  *)
(* cluster upserts the row with its member list, asks the model, upserts the *)
(* summary; it commits once.  Rows that a transaction wrote are seen by      *)
(* others when it commits; a unique key it holds makes others wait.          *)
(***************************************************************************)
EXTENDS Integers, FiniteSets, SequencesExt, FiniteSetsExt

CONSTANTS
  Newsletters,   \* emails of the message, numbered by internal_date
  Letter,        \* for each, its account and what the router looks at
  Curated,       \* known_newsletters, user rows before seeds
  MinSize, MaxSize,
  Jobs,          \* workers that may hold a delivery
  MaxDeliveries  \* bound

(* The message names finitely many emails; their order is that of the dates. *)
ASSUME NewslettersAssumption ==
  Newsletters \subseteq Int /\ IsFiniteSet(Newsletters) /\ MaxSize \in Nat

VARIABLES
  letters,       \* emails that still exist
  news,          \* for each cluster key: row, members and summary as committed
  job,           \* what each delivery holds
  page,          \* the cluster GET /news is reading
  deliveries

newsVars == <<letters, news, job, page, deliveries>>

-----------------------------------------------------------------------------
(* ClusterRouter.  A domain is the sequence of its labels from the top one   *)
(* down; so is a key, which a fallback makes of the domain less its suffix.  *)

CuratedClause(key, value, letter) ==
  CASE key = "list_id_equals" -> letter.list_id = value
    [] key = "from_domain" -> IsPrefix(value, letter.domain)
    [] key = "from_email" -> letter.sender = value
    [] key = "subject_regex" -> value \in letter.subject

CuratedMatches(match, letter) ==
  DOMAIN match # {} /\ \A k \in DOMAIN match : CuratedClause(k, match[k], letter)

FallbackKey(letter) == IF Len(letter.domain) < 2 THEN <<"unsorted">> ELSE Tail(letter.domain)

Route(n) ==
  LET rules == {i \in DOMAIN Curated : CuratedMatches(Curated[i].match, Letter[n])}
  IN IF rules = {} THEN FallbackKey(Letter[n]) ELSE Curated[Min(rules)].key

ClusterKeys == {Route(n) : n \in Newsletters}

RoutedTo(k, loaded) == {n \in loaded : Route(n) = k}
Groups(loaded) == {k \in ClusterKeys : Cardinality(RoutedTo(k, loaded)) >= MinSize}

(* The largest group first; the oldest newsletters of a group.              *)
NextGroup(keys, loaded) ==
  CHOOSE k \in keys : \A o \in keys :
    Cardinality(RoutedTo(k, loaded)) >= Cardinality(RoutedTo(o, loaded))
CappedMembers(k, loaded) ==
  {n \in RoutedTo(k, loaded) : Cardinality({m \in RoutedTo(k, loaded) : m < n}) < MaxSize}

-----------------------------------------------------------------------------
(* A row's `version` tells its member rows from those of a later upsert;     *)
(* `sources` are the newsletters its summary was written from.               *)
NoCluster == [row |-> FALSE, version |-> 0, members |-> {}, sources |-> {}]
NoJob == [pc |-> "rest", loaded |-> {}, todo |-> {}, seen |-> NoCluster, wrote |-> <<>>]
NoPage == [pc |-> "rest", key |-> <<>>, sources |-> {}, members |-> {}]

ClusterAtHand(j) == NextGroup(job[j].todo, job[j].loaded)
Members(j) == CappedMembers(ClusterAtHand(j), job[j].loaded)
OnlyJob == UNCHANGED <<letters, news, page, deliveries>>

RunHasClusterSummary == \E k \in ClusterKeys : news[k].sources # {}

StartJob(j) ==
  /\ job[j].pc = "rest" /\ deliveries < MaxDeliveries
  /\ deliveries' = deliveries + 1
  /\ job' = IF RunHasClusterSummary THEN job ELSE [job EXCEPT ![j].pc = "load"]
  /\ UNCHANGED <<letters, news, page>>

LoadEmails(j) ==
  /\ job[j].pc = "load"
  /\ job' = [job EXCEPT ![j].pc = "find", ![j].loaded = letters, ![j].todo = Groups(letters)]
  /\ OnlyJob

FindCluster(j) ==
  /\ job[j].pc = "find" /\ job[j].todo # {}
  /\ job' = [job EXCEPT ![j].pc = "upsert", ![j].seen = news[ClusterAtHand(j)]]
  /\ OnlyJob

HoldsCluster(i, k) == k \in DOMAIN job[i].wrote

(* Mutant: a member row needs no email.                                      *)
RefusesTakenKey(j) ==
  LET now == news[ClusterAtHand(j)] IN
    now.version # job[j].seen.version
    /\ (~job[j].seen.row \/ now.members \cap Members(j) # {})

(* uq_tech_news_clusters_user_key_run, uq_tech_news_cluster_members_cluster_ *)
(* email, and the foreign key to emails.                                     *)
RefusesUpsert(j) ==
  LET now == news[ClusterAtHand(j)] IN
    \/ now.version # job[j].seen.version
       /\ (~job[j].seen.row \/ now.members \cap Members(j) # {})
    \/ ~(Members(j) \subseteq letters)

(* The member rows found are deleted and the new ones inserted.             *)
UpsertCluster(j) ==
  /\ job[j].pc = "upsert"
  /\ \A i \in Jobs \ {j} : ~HoldsCluster(i, ClusterAtHand(j))
  /\ ~RefusesUpsert(j)
  /\ LET now == news[ClusterAtHand(j)]
         kept == IF now.version = job[j].seen.version THEN {} ELSE now.members
         new == [now EXCEPT !.row = TRUE, !.version = @ + 1, !.members = kept \cup Members(j)]
     IN job' = [job EXCEPT ![j].pc = "ask",
                  ![j].wrote = [k \in {ClusterAtHand(j)} \cup DOMAIN @ |->
                                  IF k = ClusterAtHand(j) THEN new ELSE @[k]]]
  /\ OnlyJob

(* The one summary of a cluster is replaced.                                *)
Summarized(cluster, sources) == [cluster EXCEPT !.sources = sources]

(* The provider chain may fail for a cluster: it stays as it was.           *)
AskModelForCluster(j) ==
  /\ job[j].pc = "ask"
  /\ \E cluster \in {job[j].wrote[ClusterAtHand(j)],
                      Summarized(job[j].wrote[ClusterAtHand(j)], Members(j))} :
       job' = [job EXCEPT ![j].pc = "find", ![j].todo = @ \ {ClusterAtHand(j)},
                          ![j].wrote[ClusterAtHand(j)] = cluster]
  /\ OnlyJob

CommitJob(j) ==
  /\ job[j].pc = "find" /\ job[j].todo = {}
  /\ news' = [k \in ClusterKeys |->
                IF HoldsCluster(j, k) THEN job[j].wrote[k] ELSE news[k]]
  /\ job' = [job EXCEPT ![j] = NoJob]
  /\ UNCHANGED <<letters, page, deliveries>>

(* A refused statement, a crash or a timeout: the transaction is undone.    *)
AbortJob(j) ==
  /\ job[j].pc # "rest"
  /\ job' = [job EXCEPT ![j] = NoJob]
  /\ OnlyJob

(* A disconnect deletes the emails of an account and their member rows; it   *)
(* waits for a job that refers to one of them.                              *)
Refers(j, k, gone) == HoldsCluster(j, k) /\ job[j].wrote[k].members \cap gone # {}

PurgeAccount(a) ==
  LET gone == {n \in letters : Letter[n].account = a} IN
    /\ gone # {}
    /\ \A j \in Jobs, k \in ClusterKeys : ~Refers(j, k, gone)
    /\ letters' = letters \ gone
    /\ news' = [k \in ClusterKeys |-> [news[k] EXCEPT !.members = @ \ gone]]
    /\ UNCHANGED <<job, page, deliveries>>

(* GET /news: clusters that have a summary, then the members of each.       *)
ReadNews(k) ==
  /\ page.pc # "members" /\ news[k].sources # {}
  /\ page' = [pc |-> "members", key |-> k, sources |-> news[k].sources, members |-> {}]
  /\ UNCHANGED <<letters, news, job, deliveries>>

ReadMembers ==
  /\ page.pc = "members"
  /\ page' = [page EXCEPT !.pc = "shown", !.members = news[page.key].members]
  /\ UNCHANGED <<letters, news, job, deliveries>>

NewsInit ==
  /\ letters = Newsletters
  /\ news = [k \in ClusterKeys |-> NoCluster]
  /\ job = [j \in Jobs |-> NoJob]
  /\ page = NoPage
  /\ deliveries = 0

NewsNext ==
  \/ \E j \in Jobs :
       \/ StartJob(j) \/ LoadEmails(j) \/ FindCluster(j) \/ UpsertCluster(j)
       \/ AskModelForCluster(j) \/ CommitJob(j) \/ AbortJob(j)
  \/ \E a \in {Letter[n].account : n \in letters} : PurgeAccount(a)
  \/ \E k \in ClusterKeys : ReadNews(k)
  \/ ReadMembers

NewsSpec == NewsInit /\ [][NewsNext]_newsVars

-----------------------------------------------------------------------------
(* Properties                                                               *)

(* The news page names exactly the newsletters a text was written from that  *)
(* still exist: though it reads the text and the members in two statements,  *)
(* the message is delivered again while the first delivery still works, the  *)
(* model fails for a cluster, and an account is purged in between.  (For     *)
(* groups that MaxSize does not cut: see README.)                            *)
NewsNamesItsSources ==
  [][page.pc = "members" /\ page'.pc = "shown"
     => page'.members = page.sources \cap letters]_newsVars
=============================================================================
