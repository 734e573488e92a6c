----------------------------- MODULE Unsubscribe -----------------------------
(***************************************************************************)
(* The unsubscribe suggestions of one account: unsubscribe records rank its *)
(* senders in several Lambda workers, each in one transaction over all of   *)
(* them, while the owner dismisses, confirms and executes suggestions.      *)
(*                                                                         *)
(* PostgreSQL runs at READ COMMITTED: an UPDATE, or an INSERT whose key a   *)
(* transaction in progress has inserted, waits for that transaction; an     *)
(* ORM UPDATE sets only the columns that differ from the row as read.       *)
(***************************************************************************)
EXTENDS Integers, FiniteSets, FiniteSetsExt

CONSTANTS
  Senders,     \* sender addresses, numbered in their order
  Rankers,     \* workers on the unsubscribe queue
  Requests,    \* concurrent execute requests of the owner
  Offers,      \* what a List-Unsubscribe header can offer
  Confidences, \* confidences the borderline prompt answers with, per cent
  MaxRanks,    \* bound: unsubscribe records
  MaxChanges,  \* bound: changes of a sender's aggregate
  MaxExecutes, \* bound: execute requests
  Unlisted     \* no suggestion, no lock holder

Certainties == 0 .. 100

(* A suggestion: what a ranking found, and what the owner did about it.     *)
Suggestions ==
  [confidence : Certainties, offer : Offers, dismissed : BOOLEAN,
   status : {"pending", "unsubscribed", "failed", "manual_required"}]

ASSUME UnsubscribeAssumption ==
  /\ Senders \subseteq Nat /\ IsFiniteSet(Senders)
  /\ Offers \subseteq {"one_click", "link", "nothing"}
  /\ Confidences \subseteq Certainties
  /\ Unlisted \notin Rankers /\ Unlisted \notin Suggestions
  /\ MaxRanks \in Nat /\ MaxChanges \in Nat /\ MaxExecutes \in Nat

VARIABLES
  aggregate,  \* per sender: criteria that hit in the last 30 days, and its latest offer
  suggestion, \* unsubscribe_suggestions rows
  rowLock,    \* holders of their locks
  ranks,      \* unsubscribe records on the queue
  ranker,     \* what each worker holds
  executing,  \* what each execute request holds
  spent,      \* bound counters
  posted,     \* history: one-click POSTs the sender accepted
  overlapped, \* history: two execute requests for the sender were open together
  basis       \* history: what the last committed ranking found

hygieneVars == <<aggregate, suggestion, rowLock, ranks, ranker, executing, spent,
                 posted, overlapped, basis>>

RuleOnlyConfidence == 90
PolicyGateMin == 20
RecommendationMin == 80

Resting == [pc |-> "idle", seen |-> Unlisted, left |-> {}, sender |-> 0,
            read |-> Unlisted, new |-> Unlisted, writes |-> {}]
NoRequest == [sender |-> 0, read |-> Unlisted, outcome |-> "none"]

-----------------------------------------------------------------------------
(* handle_unsubscribe                                                       *)

OwnerKeeps == UNCHANGED <<aggregate, executing, posted, overlapped>>

(* Mutant: a rollback leaves the locks.                                     *)
RollbackHolding(k) ==
  /\ ranker' = [ranker EXCEPT ![k] = Resting] /\ ranks' = ranks + 1
  /\ UNCHANGED rowLock

Rollback(k) ==
  /\ ranker' = [ranker EXCEPT ![k] = Resting] /\ ranks' = ranks + 1
  /\ rowLock' = [s \in Senders |-> IF rowLock[s] = k THEN Unlisted ELSE rowLock[s]]

Enqueue ==
  /\ spent.ranks < MaxRanks
  /\ ranks' = ranks + 1 /\ spent' = [spent EXCEPT !.ranks = @ + 1]
  /\ UNCHANGED <<suggestion, rowLock, ranker, basis>> /\ OwnerKeeps

Aggregate(k) ==
  /\ ranker[k].pc = "idle" /\ ranks > 0
  /\ ranks' = ranks - 1
  /\ ranker' = [ranker EXCEPT ![k] =
                  [Resting EXCEPT !.pc = "rank", !.seen = aggregate, !.left = Senders]]
  /\ UNCHANGED <<suggestion, rowLock, spent, basis>> /\ OwnerKeeps

(* The senders are ranked in the order of their addresses.                  *)
NextSender(k) == Min(ranker[k].left)

Advances(k) == [ranker[k] EXCEPT !.pc = "rank", !.left = @ \ {NextSender(k)}]

Row(confidence, source, offer) ==
  [confidence |-> confidence, source |-> source, offer |-> offer]

(* Mutant: the model's veto keeps the model's confidence.                   *)
VetoedAsIs(c) == c

Vetoed(c) == IF c < PolicyGateMin THEN c ELSE PolicyGateMin

(* What a sender's aggregate may lead to; nothing is written below two hits *)
(* or when the model fails.                                                 *)
Proposals(a) ==
  CASE a.hits = 3 -> {Row(RuleOnlyConfidence, "rule", a.offer)}
    [] a.hits = 2 -> {Row(c, "model", a.offer) : c \in Confidences} \cup
                     {Row(Vetoed(c), "veto", a.offer) : c \in Confidences}
    [] OTHER -> {}

Pass(k) ==
  /\ ranker[k].pc = "rank" /\ ranker[k].left # {}
  /\ ranker[k].seen[NextSender(k)].hits < 3
  /\ ranker' = [ranker EXCEPT ![k] = Advances(k)]
  /\ UNCHANGED <<suggestion, rowLock, ranks, spent, basis>> /\ OwnerKeeps

(* The sender is decided, then upsert reads its row.                        *)
Propose(k) ==
  /\ ranker[k].pc = "rank" /\ ranker[k].left # {}
  /\ LET s == NextSender(k) IN
       \E new \in Proposals(ranker[k].seen[s]) :
         ranker' = [ranker EXCEPT ![k].pc = "flush", ![k].sender = s,
                                  ![k].read = suggestion[s], ![k].new = new]
  /\ UNCHANGED <<suggestion, rowLock, ranks, spent, basis>> /\ OwnerKeeps

(* The INSERT or UPDATE; an INSERT that comes second fails the record.      *)
FlushRow(k) ==
  LET r == ranker[k] IN
    /\ r.pc = "flush" /\ rowLock[r.sender] = Unlisted
    /\ IF r.read = Unlisted /\ suggestion[r.sender] # Unlisted THEN Rollback(k)
       ELSE /\ rowLock' = [rowLock EXCEPT ![r.sender] = k]
            /\ ranker' = [ranker EXCEPT ![k] =
                 [Advances(k) EXCEPT !.left = r.left \ {r.sender},
                    !.writes = @ \cup {[sender |-> r.sender, read |-> r.read, new |-> r.new]}]]
            /\ UNCHANGED ranks
    /\ UNCHANGED <<suggestion, spent, basis>> /\ OwnerKeeps

(* Mutant: an UPDATE that sets every column.                                *)
RankedWhole(row, w) ==
  [confidence |-> w.new.confidence, offer |-> w.new.offer,
   dismissed |-> w.read # Unlisted /\ w.read.dismissed,
   status |-> IF w.read = Unlisted THEN "pending" ELSE w.read.status]

(* upsert never assigns the owner's columns.                                *)
Ranked(row, w) ==
  IF row = Unlisted
  THEN [confidence |-> w.new.confidence, offer |-> w.new.offer,
        dismissed |-> FALSE, status |-> "pending"]
  ELSE [row EXCEPT !.confidence = IF w.new.confidence = w.read.confidence THEN @
                                  ELSE w.new.confidence,
                   !.offer = IF w.new.offer = w.read.offer THEN @ ELSE w.new.offer]

Written(k, s) == {w \in ranker[k].writes : w.sender = s}

CommitRanks(k) ==
  /\ ranker[k].pc = "rank" /\ ranker[k].left = {}
  /\ suggestion' = [s \in Senders |->
       IF Written(k, s) = {} THEN suggestion[s]
       ELSE Ranked(suggestion[s], CHOOSE w \in Written(k, s) : TRUE)]
  /\ basis' = [s \in Senders |->
       IF Written(k, s) = {} THEN basis[s]
       ELSE LET w == CHOOSE w \in Written(k, s) : TRUE IN
              IF w.read # Unlisted /\ w.read.confidence # suggestion[s].confidence
              THEN "overtaken" ELSE w.new.source]
  /\ rowLock' = [s \in Senders |-> IF rowLock[s] = k THEN Unlisted ELSE rowLock[s]]
  /\ ranker' = [ranker EXCEPT ![k] = Resting]
  /\ UNCHANGED <<ranks, spent>> /\ OwnerKeeps

Rank(k) == Aggregate(k) \/ Pass(k) \/ Propose(k) \/ FlushRow(k) \/ CommitRanks(k)

(* Mail comes, ages past 30 days or is labelled.                            *)
AggregateChanges ==
  /\ spent.changes < MaxChanges
  /\ \E s \in Senders, hits \in 1 .. 3, offer \in Offers :
       aggregate' = [aggregate EXCEPT ![s] = [hits |-> hits, offer |-> offer]]
  /\ spent' = [spent EXCEPT !.changes = @ + 1]
  /\ UNCHANGED <<suggestion, rowLock, ranks, ranker, executing, posted, overlapped, basis>>

-----------------------------------------------------------------------------
(* /unsubscribes                                                            *)

RankersKeep == UNCHANGED <<aggregate, rowLock, ranks, ranker, basis>>

Shown(row) == row # Unlisted /\ ~row.dismissed /\ row.confidence >= RecommendationMin

(* dismiss and confirm, of any row: the page may be older than the rows.    *)
Dismiss ==
  /\ \E s \in Senders :
       /\ suggestion[s] # Unlisted /\ rowLock[s] = Unlisted
       /\ suggestion' = [suggestion EXCEPT ![s].dismissed = TRUE]
  /\ UNCHANGED <<executing, spent, posted, overlapped>> /\ RankersKeep

Open(s) == {q \in Requests : executing[q].sender = s /\ executing[q] # NoRequest}

(* The row is read and the sender asked; one-click over HTTPS only.  A row  *)
(* that is unsubscribed is answered from.                                   *)
Outcomes(offer) ==
  CASE offer = "one_click" -> {"unsubscribed", "failed"}
    [] offer = "link" -> {"manual_required"}
    [] OTHER -> {"failed"}

(* Mutant: the POST is repeated whatever the row says.                      *)
ExecuteAgain(q) ==
  /\ executing[q] = NoRequest /\ spent.executes < MaxExecutes
  /\ \E s \in Senders :
       /\ suggestion[s] # Unlisted
       /\ \E outcome \in Outcomes(suggestion[s].offer) :
            /\ executing' = [executing EXCEPT ![q] =
                               [sender |-> s, read |-> suggestion[s], outcome |-> outcome]]
            /\ posted' = [posted EXCEPT ![s] = @ + (IF outcome = "unsubscribed" THEN 1 ELSE 0)]
            /\ overlapped' = IF Open(s) # {} THEN overlapped \cup {s} ELSE overlapped
  /\ spent' = [spent EXCEPT !.executes = @ + 1]
  /\ UNCHANGED suggestion /\ RankersKeep

Execute(q) ==
  /\ executing[q] = NoRequest /\ spent.executes < MaxExecutes
  /\ \E s \in Senders :
       /\ suggestion[s] # Unlisted /\ suggestion[s].status # "unsubscribed"
       /\ \E outcome \in Outcomes(suggestion[s].offer) :
            /\ executing' = [executing EXCEPT ![q] =
                               [sender |-> s, read |-> suggestion[s], outcome |-> outcome]]
            /\ posted' = [posted EXCEPT ![s] = @ + (IF outcome = "unsubscribed" THEN 1 ELSE 0)]
            /\ overlapped' = IF Open(s) # {} THEN overlapped \cup {s} ELSE overlapped
  /\ spent' = [spent EXCEPT !.executes = @ + 1]
  /\ UNCHANGED suggestion /\ RankersKeep

(* The outcome is stored; a success also dismisses the row.                 *)
StoreOutcome(q) ==
  LET x == executing[q] IN
    /\ x # NoRequest /\ rowLock[x.sender] = Unlisted
    /\ suggestion' = [suggestion EXCEPT
         ![x.sender].status = IF x.outcome = x.read.status THEN @ ELSE x.outcome,
         ![x.sender].dismissed = @ \/ x.outcome = "unsubscribed"]
    /\ executing' = [executing EXCEPT ![q] = NoRequest]
    /\ UNCHANGED <<spent, posted, overlapped>> /\ RankersKeep

(* The request dies between the POST and the commit.                        *)
RequestDies(q) ==
  /\ executing[q] # NoRequest
  /\ executing' = [executing EXCEPT ![q] = NoRequest]
  /\ overlapped' = overlapped \cup {executing[q].sender}
  /\ UNCHANGED <<suggestion, spent, posted>> /\ RankersKeep

-----------------------------------------------------------------------------
HygieneInit ==
  /\ aggregate \in [Senders -> [hits : {1, 3}, offer : Offers]]
  /\ suggestion = [s \in Senders |-> Unlisted]
  /\ rowLock = [s \in Senders |-> Unlisted]
  /\ ranks = 0
  /\ ranker = [k \in Rankers |-> Resting]
  /\ executing = [q \in Requests |-> NoRequest]
  /\ spent = [ranks |-> 0, changes |-> 0, executes |-> 0]
  /\ posted = [s \in Senders |-> 0] /\ overlapped = {}
  /\ basis = [s \in Senders |-> "none"]

Ranks == Enqueue \/ AggregateChanges \/ \E k \in Rankers : Rank(k)
Owns == Dismiss \/ \E q \in Requests : Execute(q) \/ StoreOutcome(q) \/ RequestDies(q)

HygieneNext == Ranks \/ Owns

HygieneSpec == HygieneInit /\ [][HygieneNext]_hygieneVars

HygieneFairSpec == HygieneSpec /\ \A k \in Rankers : WF_hygieneVars(Rank(k))

-----------------------------------------------------------------------------
(* Properties.                                                              *)

(* A ranking never brings back a suggestion the owner dismissed, confirmed  *)
(* or executed, however the two requests interleave (repository.py, upsert: *)
(* the user's dismissal survives every aggregate re-run).                   *)
DismissalSurvives ==
  [][\A s \in Senders :
       suggestion[s] # Unlisted /\ suggestion[s].dismissed =>
         suggestion'[s].dismissed]_hygieneVars

(* While requests for a sender come one after another and live to their     *)
(* end, an unsubscribe that the sender accepted is recorded, hidden, and    *)
(* not sent again, whatever is ranked meanwhile.                            *)
SuccessIsKept ==
  \A s \in Senders \ overlapped :
    posted[s] > 0 /\ Open(s) = {} =>
      posted[s] = 1 /\ suggestion[s].status = "unsubscribed" /\ suggestion[s].dismissed

(* A sender the model spared is not recommended, also when an earlier       *)
(* ranking had recommended it, unless another ranking of the sender was     *)
(* committed between this one's read of the row and its write.              *)
VetoHides == \A s \in Senders : basis[s] = "veto" => ~Shown(suggestion[s])

(* Every unsubscribe record is finished, although its transaction may have  *)
(* to be repeated.                                                          *)
RanksEnd == ranks > 0 ~> ranks = 0 /\ \A k \in Rankers : ranker[k].pc = "idle"
=============================================================================
