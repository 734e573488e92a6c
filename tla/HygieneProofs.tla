---------------------------- MODULE HygieneProofs ----------------------------
(***************************************************************************)
(* Theorems about the unsubscribe suggestions of an account with any number *)
(* of senders, of workers that rank them and of execute requests.           *)
(***************************************************************************)
EXTENDS Unsubscribe, WellFoundedInduction, TLAPS

Aggregates == [hits : 1 .. 3, offer : Offers]
Rankings ==
  {r \in [confidence : Certainties, source : {"rule", "model", "veto"}, offer : Offers] :
     r.source = "veto" => r.confidence <= PolicyGateMin}
SuggestionRow == Suggestions \cup {Unlisted}
Writes == [sender : Senders, read : SuggestionRow, new : Rankings]
RankerState ==
  [pc : {"idle", "rank", "flush"}, seen : [Senders -> Aggregates] \cup {Unlisted},
   left : SUBSET Senders, sender : Senders \cup {0}, read : SuggestionRow,
   new : Rankings \cup {Unlisted}, writes : SUBSET Writes]
Answers == {"unsubscribed", "failed", "manual_required"}
RequestState == [sender : Senders, read : Suggestions, outcome : Answers]
SpentState == [ranks : Nat, changes : Nat, executes : Nat]

Typed ==
  /\ aggregate \in [Senders -> Aggregates]
  /\ suggestion \in [Senders -> SuggestionRow]
  /\ rowLock \in [Senders -> Rankers \cup {Unlisted}]
  /\ ranks \in Nat /\ ranker \in [Rankers -> RankerState]
  /\ executing \in [Requests -> RequestState \cup {NoRequest}]
  /\ spent \in SpentState
  /\ posted \in [Senders -> Nat] /\ overlapped \in SUBSET Senders
  /\ basis \in [Senders -> {"none", "rule", "model", "veto", "overtaken"}]

-----------------------------------------------------------------------------
(* The inductive invariants.                                                *)

(* A ranking holds the lock of every row it has written.  Until it commits, *)
(* such a row exists if and only if it existed when the ranking read it; a  *)
(* row that a ranking is about to write, or a request is about to answer,   *)
(* does not go away.                                                        *)
RowsHeld ==
  /\ \A k \in Rankers :
       /\ ranker[k].pc # "idle" => ranker[k].seen \in [Senders -> Aggregates]
       /\ ranker[k].pc = "flush" =>
            /\ ranker[k].sender \in Senders /\ ranker[k].new \in Rankings
            /\ ranker[k].read # Unlisted => suggestion[ranker[k].sender] # Unlisted
       /\ \A w \in ranker[k].writes :
            /\ rowLock[w.sender] = k
            /\ w.read = Unlisted <=> suggestion[w.sender] = Unlisted
  /\ \A q \in Requests :
       executing[q] # NoRequest => suggestion[executing[q].sender] # Unlisted

(* What is known of the unsubscribe of a sender whose requests came one     *)
(* after another: none was accepted yet; or the open request was, and it is *)
(* going to store the status; or the row says so.                           *)
Success ==
  \A s \in Senders \ overlapped :
    /\ \A q, r \in Open(s) : q = r
    /\ \A q \in Open(s) :
         /\ executing[q].read.status # "unsubscribed"
         /\ posted[s] = IF executing[q].outcome = "unsubscribed" THEN 1 ELSE 0
    /\ Open(s) = {} /\ posted[s] > 0 =>
         /\ posted[s] = 1 /\ suggestion[s] # Unlisted
         /\ suggestion[s].status = "unsubscribed" /\ suggestion[s].dismissed

-----------------------------------------------------------------------------
(* Operators.                                                               *)

LEMMA Account ==
  /\ Senders \subseteq Nat /\ Confidences \subseteq Certainties
  /\ Unlisted \notin Rankers /\ Unlisted \notin Suggestions
BY UnsubscribeAssumption

LEMMA Thresholds ==
  /\ RuleOnlyConfidence \in Certainties /\ PolicyGateMin \in Certainties
  /\ \A c \in Certainties : c \in Nat
  /\ PolicyGateMin \in Nat /\ RecommendationMin \in Nat /\ PolicyGateMin < RecommendationMin
BY SMT DEF RuleOnlyConfidence, PolicyGateMin, RecommendationMin, Certainties

LEMMA FirstExists ==
  ASSUME NEW S \in SUBSET Senders, S # {}
  PROVE  Min(S) \in S
<1> DEFINE R == OpToRel(<, Nat)
<1>1. S \in SUBSET Nat
  BY Account
<1>2. \A a, b \in Nat : <<a, b>> \in R <=> a < b
  BY DEF OpToRel
<1>3. IsWellFoundedOn(R, Nat)
  BY NatLessThanWellFounded
<1> HIDE DEF R
<1>4. PICK m \in S : \A n \in S : ~ (<<n, m>> \in R)
  BY <1>1, <1>3, WFMin
<1>5. ASSUME NEW n \in S PROVE m <= n
  <2>1. ~ (<<n, m>> \in R) /\ n \in Nat /\ m \in Nat
    BY <1>1, <1>4
  <2>2. ~ (n < m)
    BY <1>2, <2>1
  <2> QED BY <2>1, <2>2
<1> QED BY <1>5, Zenon DEF Min

LEMMA ProposalsType ==
  ASSUME NEW a \in Aggregates
  PROVE  Proposals(a) \subseteq Rankings
<1>1. a.offer \in Offers
  BY DEF Aggregates
<1>2. ASSUME NEW c \in Certainties
      PROVE  Vetoed(c) \in Certainties /\ Vetoed(c) <= PolicyGateMin
  BY Thresholds DEF Vetoed
<1>3. Row(RuleOnlyConfidence, "rule", a.offer) \in Rankings
  BY <1>1, Thresholds DEF Row, Rankings
<1>4. ASSUME NEW c \in Confidences
      PROVE  Row(c, "model", a.offer) \in Rankings /\ Row(Vetoed(c), "veto", a.offer) \in Rankings
  <2>1. c \in Certainties
    BY Account
  <2> QED BY <1>1, <1>2, <2>1 DEF Row, Rankings
<1>5. CASE a.hits = 3
  BY <1>3, <1>5 DEF Proposals
<1>6. CASE a.hits = 2
  BY <1>4, <1>6 DEF Proposals
<1>7. CASE a.hits # 3 /\ a.hits # 2
  BY <1>7 DEF Proposals
<1> QED BY <1>5, <1>6, <1>7

(* A ranking writes a suggestion; of one that exists it leaves what the     *)
(* owner did, and its confidence is the ranking's, or still the one read.   *)
LEMMA RankedRow ==
  ASSUME NEW row \in SuggestionRow, NEW w \in Writes
  PROVE  /\ Ranked(row, w) \in Suggestions
         /\ row # Unlisted => /\ Ranked(row, w).dismissed = row.dismissed
                              /\ Ranked(row, w).status = row.status
         /\ row = Unlisted \/ row.confidence = w.read.confidence
              => Ranked(row, w).confidence = w.new.confidence
<1>1. w.new.confidence \in Certainties /\ w.new.offer \in Offers
  BY DEF Writes, Rankings
<1>2. CASE row = Unlisted
  <2>1. Ranked(row, w) = [confidence |-> w.new.confidence, offer |-> w.new.offer,
                          dismissed |-> FALSE, status |-> "pending"]
    BY <1>2 DEF Ranked
  <2> QED BY <1>1, <1>2, <2>1 DEF Suggestions
<1>3. CASE row # Unlisted
  <2> DEFINE c == IF w.new.confidence = w.read.confidence THEN row.confidence
                  ELSE w.new.confidence
             o == IF w.new.offer = w.read.offer THEN row.offer ELSE w.new.offer
  <2>1. row \in Suggestions
    BY <1>3 DEF SuggestionRow
  <2>2. Ranked(row, w) = [row EXCEPT !.confidence = c, !.offer = o]
    BY <1>3 DEF Ranked
  <2>3. c \in Certainties /\ o \in Offers
    BY <1>1, <2>1 DEF Suggestions
  <2>4. row.confidence = w.read.confidence => c = w.new.confidence
    OBVIOUS
  <2> HIDE DEF c, o
  <2> QED BY <1>3, <2>1, <2>2, <2>3, <2>4, Zenon DEF Suggestions
<1> QED BY <1>2, <1>3

-----------------------------------------------------------------------------
(* Rankings.                                                                *)

LEMMA InitHygiene == HygieneInit => Typed /\ RowsHeld /\ Success
<1> SUFFICES ASSUME HygieneInit PROVE Typed /\ RowsHeld /\ Success
  OBVIOUS
<1>1. Resting \in RankerState
  BY DEF Resting, RankerState, SuggestionRow
<1>2. aggregate \in [Senders -> Aggregates]
  <2>1. {1, 3} \subseteq 1 .. 3
    OBVIOUS
  <2>2. [hits : {1, 3}, offer : Offers] \subseteq Aggregates
    BY <2>1 DEF Aggregates
  <2> QED BY <2>2 DEF HygieneInit
<1>3. Typed
  BY <1>1, <1>2 DEF HygieneInit, Typed, SuggestionRow, SpentState
<1>4. RowsHeld
  BY DEF HygieneInit, RowsHeld, Resting
<1>5. Success
  BY DEF HygieneInit, Success, Open
<1> QED BY <1>3, <1>4, <1>5

LEMMA WrittenType ==
  ASSUME Typed, RowsHeld, NEW k \in Rankers, NEW s \in Senders, Written(k, s) # {}
  PROVE  LET w == CHOOSE w \in Written(k, s) : TRUE IN
           w \in Writes /\ w \in ranker[k].writes /\ w.sender = s
<1>1. ranker[k].writes \subseteq Writes
  BY DEF Typed, RankerState
<1> QED BY <1>1 DEF Written

(* A commit writes the rows whose locks it holds, and the owner's columns   *)
(* of none.                                                                 *)
LEMMA CommitKeeps ==
  ASSUME Typed, RowsHeld, NEW k \in Rankers, CommitRanks(k), NEW s \in Senders
  PROVE  /\ suggestion'[s] \in SuggestionRow
         /\ suggestion[s] # Unlisted => /\ suggestion'[s] # Unlisted
                                        /\ suggestion'[s].dismissed = suggestion[s].dismissed
                                        /\ suggestion'[s].status = suggestion[s].status
         /\ rowLock[s] # k => suggestion'[s] = suggestion[s]
<1> DEFINE w == CHOOSE w \in Written(k, s) : TRUE
<1>1. suggestion[s] \in SuggestionRow
  BY DEF Typed
<1>2. suggestion'[s] = IF Written(k, s) = {} THEN suggestion[s] ELSE Ranked(suggestion[s], w)
  BY DEF CommitRanks
<1>3. CASE Written(k, s) = {}
  BY <1>1, <1>2, <1>3
<1>4. CASE Written(k, s) # {}
  <2>1. w \in Writes /\ w \in ranker[k].writes /\ w.sender = s
    BY <1>4, WrittenType
  <2>2. rowLock[s] = k
    BY <2>1 DEF RowsHeld
  <2>3. suggestion'[s] = Ranked(suggestion[s], w)
    BY <1>2, <1>4
  <2>4. suggestion'[s] \in Suggestions
    BY <1>1, <2>1, <2>3, RankedRow
  <2>5. suggestion'[s] # Unlisted /\ suggestion'[s] \in SuggestionRow
    BY <2>4, Account DEF SuggestionRow
  <2> HIDE DEF w
  <2> QED BY <1>1, <2>1, <2>2, <2>3, <2>5, RankedRow
<1> QED BY <1>3, <1>4

LEMMA RankTyped ==
  ASSUME Typed, RowsHeld, NEW k \in Rankers, Rank(k)
  PROVE  Typed'
<1> USE DEF OwnerKeeps
<1>1. /\ ranker \in [Rankers -> RankerState] /\ ranker[k] \in RankerState
      /\ suggestion \in [Senders -> SuggestionRow] /\ aggregate \in [Senders -> Aggregates]
      /\ rowLock \in [Senders -> Rankers \cup {Unlisted}] /\ ranks \in Nat
  BY DEF Typed
<1>2. Resting \in RankerState
  BY DEF Resting, RankerState, SuggestionRow
<1>3. ranker[k].pc # "idle" => ranker[k].seen \in [Senders -> Aggregates]
  BY <1>1 DEF RowsHeld, RankerState
<1>4. ranker[k].left # {} => NextSender(k) \in Senders
  <2>1. ranker[k].left \in SUBSET Senders
    BY <1>1 DEF RankerState
  <2> QED BY <2>1, FirstExists DEF NextSender
<1>5. Advances(k) \in RankerState
  BY <1>1 DEF Advances, RankerState
<1>6. CASE Aggregate(k)
  <2> DEFINE x == [Resting EXCEPT !.pc = "rank", !.seen = aggregate, !.left = Senders]
  <2>1. x \in RankerState
    BY <1>1 DEF Resting, RankerState, SuggestionRow
  <2>2. ranker' = [ranker EXCEPT ![k] = x]
    BY <1>6 DEF Aggregate
  <2>3. ranks > 0 /\ ranks' = ranks - 1
    BY <1>6 DEF Aggregate
  <2> HIDE DEF x
  <2>4. ranker' \in [Rankers -> RankerState] /\ ranks' \in Nat
    BY <1>1, <2>1, <2>2, <2>3
  <2> QED BY <1>6, <2>4 DEF Typed, Aggregate
<1>7. CASE Pass(k)
  <2>1. ranker' \in [Rankers -> RankerState]
    BY <1>1, <1>5, <1>7 DEF Pass
  <2> QED BY <1>7, <2>1 DEF Typed, Pass
<1>8. CASE Propose(k)
  <2>1. ranker[k].pc = "rank" /\ ranker[k].left # {}
    BY <1>8 DEF Propose
  <2>2. PICK new \in Proposals(ranker[k].seen[NextSender(k)]) :
          ranker' = [ranker EXCEPT ![k].pc = "flush", ![k].sender = NextSender(k),
                                   ![k].read = suggestion[NextSender(k)], ![k].new = new]
    BY <1>8, Zenon DEF Propose
  <2>3. NextSender(k) \in Senders /\ ranker[k].seen[NextSender(k)] \in Aggregates
    BY <1>3, <1>4, <2>1
  <2>4. new \in Rankings /\ suggestion[NextSender(k)] \in SuggestionRow
    BY <1>1, <2>3, ProposalsType
  <2>5. ranker' \in [Rankers -> RankerState]
    BY <1>1, <2>2, <2>3, <2>4 DEF RankerState
  <2> QED BY <1>8, <2>5 DEF Typed, Propose
<1>9. CASE FlushRow(k)
  <2>1. ranker[k].pc = "flush" /\ ranker[k].sender \in Senders /\ ranker[k].new \in Rankings
    BY <1>9 DEF FlushRow, RowsHeld
  <2>2. \/ Rollback(k)
        \/ /\ rowLock' = [rowLock EXCEPT ![ranker[k].sender] = k] /\ ranks' = ranks
           /\ ranker' = [ranker EXCEPT ![k] =
                [Advances(k) EXCEPT !.left = ranker[k].left \ {ranker[k].sender},
                   !.writes = @ \cup {[sender |-> ranker[k].sender, read |-> ranker[k].read,
                                       new |-> ranker[k].new]}]]
    BY <1>9 DEF FlushRow
  <2>3. CASE Rollback(k)
    <3>1. ranker' \in [Rankers -> RankerState] /\ ranks' \in Nat
      BY <1>1, <1>2, <2>3 DEF Rollback
    <3>2. rowLock' \in [Senders -> Rankers \cup {Unlisted}]
      BY <1>1, <2>3 DEF Rollback
    <3> QED BY <1>9, <3>1, <3>2 DEF Typed, FlushRow
  <2>4. CASE ~ Rollback(k)
    <3> DEFINE y == [sender |-> ranker[k].sender, read |-> ranker[k].read, new |-> ranker[k].new]
               x == [Advances(k) EXCEPT !.left = ranker[k].left \ {ranker[k].sender},
                                        !.writes = @ \cup {y}]
    <3>1. y \in Writes
      BY <1>1, <2>1 DEF Writes, RankerState
    <3>2. x \in RankerState
      <4> HIDE DEF y
      <4> QED BY <1>1, <1>5, <3>1 DEF RankerState
    <3>3. ranker' = [ranker EXCEPT ![k] = x]
      BY <2>2, <2>4
    <3> HIDE DEF x
    <3>4. ranker' \in [Rankers -> RankerState] /\ ranks' \in Nat
      BY <1>1, <2>2, <2>4, <3>2, <3>3
    <3>5. rowLock' \in [Senders -> Rankers \cup {Unlisted}]
      BY <1>1, <2>1, <2>2, <2>4
    <3> QED BY <1>9, <3>4, <3>5 DEF Typed, FlushRow
  <2> QED BY <2>3, <2>4
<1>10. CASE CommitRanks(k)
  <2>1. ranker' \in [Rankers -> RankerState]
    BY <1>1, <1>2, <1>10 DEF CommitRanks
  <2>2. rowLock' \in [Senders -> Rankers \cup {Unlisted}]
    BY <1>1, <1>10 DEF CommitRanks
  <2>3. suggestion' \in [Senders -> SuggestionRow]
    <3>1. DOMAIN suggestion' = Senders /\ suggestion' = [s \in Senders |-> suggestion'[s]]
      BY <1>10 DEF CommitRanks
    <3>2. \A s \in Senders : suggestion'[s] \in SuggestionRow
      BY <1>10, CommitKeeps
    <3> QED BY <3>1, <3>2
  <2>4. basis' \in [Senders -> {"none", "rule", "model", "veto", "overtaken"}]
    <3> DEFINE w(s) == CHOOSE w \in Written(k, s) : TRUE
               Found(s) == IF Written(k, s) = {} THEN basis[s]
                           ELSE IF w(s).read # Unlisted /\ w(s).read.confidence # suggestion[s].confidence
                                THEN "overtaken" ELSE w(s).new.source
    <3>1. basis' = [s \in Senders |-> Found(s)]
      BY <1>10 DEF CommitRanks
    <3>2. ASSUME NEW s \in Senders
          PROVE  Found(s) \in {"none", "rule", "model", "veto", "overtaken"}
      <4>1. basis[s] \in {"none", "rule", "model", "veto", "overtaken"}
        BY DEF Typed
      <4>2. Written(k, s) # {} => w(s).new.source \in {"rule", "model", "veto"}
        BY WrittenType DEF Writes, Rankings
      <4> QED BY <4>1, <4>2
    <3> HIDE DEF Found
    <3> QED BY <3>1, <3>2
  <2> QED BY <1>10, <2>1, <2>2, <2>3, <2>4 DEF Typed, CommitRanks
<1> QED BY <1>6, <1>7, <1>8, <1>9, <1>10 DEF Rank

LEMMA RankRows ==
  ASSUME Typed, RowsHeld, NEW k \in Rankers, Rank(k)
  PROVE  RowsHeld'
<1>1. /\ ranker \in [Rankers -> RankerState] /\ ranker[k] \in RankerState
      /\ suggestion \in [Senders -> SuggestionRow] /\ aggregate \in [Senders -> Aggregates]
      /\ rowLock \in [Senders -> Rankers \cup {Unlisted}]
  BY DEF Typed
<1>2. executing' = executing
  BY DEF Rank, Aggregate, Pass, Propose, FlushRow, CommitRanks, OwnerKeeps
<1> DEFINE Holds(r, h) ==
             /\ r.pc # "idle" => r.seen \in [Senders -> Aggregates]
             /\ r.pc = "flush" =>
                  /\ r.sender \in Senders /\ r.new \in Rankings
                  /\ r.read # Unlisted => suggestion[r.sender] # Unlisted
             /\ \A w \in r.writes : rowLock[w.sender] = h
                                    /\ (w.read = Unlisted <=> suggestion[w.sender] = Unlisted)
<1>3. Holds(ranker[k], k)
  BY DEF RowsHeld
<1>4. ASSUME NEW x, ranker' = [ranker EXCEPT ![k] = x], suggestion' = suggestion,
             rowLock' = rowLock, Holds(x, k)
      PROVE  RowsHeld'
  <2>1. ASSUME NEW h \in Rankers PROVE Holds(ranker'[h], h)
    <3>1. CASE h = k
      BY <1>1, <1>4, <3>1
    <3>2. CASE h # k
      <4>1. ranker'[h] = ranker[h]
        BY <1>1, <1>4, <3>2
      <4> QED BY <4>1 DEF RowsHeld
    <3> QED BY <3>1, <3>2
  <2> QED BY <1>2, <1>4, <2>1 DEF RowsHeld
<1>5. ASSUME ranker' = [ranker EXCEPT ![k] = Resting],
             rowLock' = [s \in Senders |-> IF rowLock[s] = k THEN Unlisted ELSE rowLock[s]],
             \A s \in Senders :
               /\ suggestion[s] # Unlisted => suggestion'[s] # Unlisted
               /\ rowLock[s] # k => suggestion'[s] = suggestion[s]
      PROVE  RowsHeld'
  <2>1. ASSUME NEW h \in Rankers
        PROVE  /\ ranker'[h].pc # "idle" => ranker'[h].seen \in [Senders -> Aggregates]
               /\ ranker'[h].pc = "flush" =>
                    /\ ranker'[h].sender \in Senders /\ ranker'[h].new \in Rankings
                    /\ ranker'[h].read # Unlisted => suggestion'[ranker'[h].sender] # Unlisted
               /\ \A w \in ranker'[h].writes :
                    /\ rowLock'[w.sender] = h
                    /\ w.read = Unlisted <=> suggestion'[w.sender] = Unlisted
    <3>1. CASE h = k
      <4>1. ranker'[h] = Resting
        BY <1>1, <1>5, <3>1
      <4> QED BY <4>1 DEF Resting
    <3>2. CASE h # k
      <4>1. ranker'[h] = ranker[h] /\ Holds(ranker[h], h) /\ ranker[h].writes \subseteq Writes
        BY <1>1, <1>5, <3>2 DEF RowsHeld, RankerState
      <4>2. ASSUME NEW w \in ranker[h].writes
            PROVE  /\ rowLock'[w.sender] = h
                   /\ w.read = Unlisted <=> suggestion'[w.sender] = Unlisted
        <5>1. w.sender \in Senders /\ rowLock[w.sender] = h
              /\ (w.read = Unlisted <=> suggestion[w.sender] = Unlisted)
          BY <4>1 DEF Writes
        <5> QED BY <1>5, <3>2, <5>1
      <4> QED BY <1>5, <4>1, <4>2
    <3> QED BY <3>1, <3>2
  <2>2. ASSUME NEW q \in Requests, executing'[q] # NoRequest
        PROVE  suggestion'[executing'[q].sender] # Unlisted
    <3>1. executing[q] \in RequestState /\ executing'[q] = executing[q]
      BY <1>2, <2>2 DEF Typed
    <3>2. executing[q].sender \in Senders /\ suggestion[executing[q].sender] # Unlisted
      BY <1>2, <2>2, <3>1 DEF RequestState, RowsHeld
    <3> QED BY <1>5, <3>1, <3>2
  <2> QED BY <2>1, <2>2, Zenon DEF RowsHeld
<1>6. CASE Aggregate(k)
  <2> DEFINE x == [Resting EXCEPT !.pc = "rank", !.seen = aggregate, !.left = Senders]
  <2>1. x.pc = "rank" /\ x.seen = aggregate /\ x.writes = {}
    BY DEF Resting
  <2>2. ranker' = [ranker EXCEPT ![k] = x] /\ suggestion' = suggestion /\ rowLock' = rowLock
    BY <1>6 DEF Aggregate
  <2> HIDE DEF x
  <2> QED BY <1>1, <1>4, <2>1, <2>2
<1>7. CASE Pass(k)
  <2>1. /\ Advances(k).pc = "rank" /\ Advances(k).seen = ranker[k].seen
        /\ Advances(k).writes = ranker[k].writes
    BY <1>1 DEF Advances, RankerState
  <2>2. /\ ranker' = [ranker EXCEPT ![k] = Advances(k)] /\ ranker[k].pc = "rank"
        /\ suggestion' = suggestion /\ rowLock' = rowLock
    BY <1>7 DEF Pass
  <2> QED BY <1>3, <1>4, <2>1, <2>2
<1>8. CASE Propose(k)
  <2>1. ranker[k].pc = "rank" /\ ranker[k].left # {} /\ suggestion' = suggestion /\ rowLock' = rowLock
    BY <1>8 DEF Propose
  <2>2. PICK new \in Proposals(ranker[k].seen[NextSender(k)]) :
          ranker' = [ranker EXCEPT ![k].pc = "flush", ![k].sender = NextSender(k),
                                   ![k].read = suggestion[NextSender(k)], ![k].new = new]
    BY <1>8, Zenon DEF Propose
  <2> DEFINE x == [ranker[k] EXCEPT !.pc = "flush", !.sender = NextSender(k),
                                    !.read = suggestion[NextSender(k)], !.new = new]
  <2>3. ranker' = [ranker EXCEPT ![k] = x]
    BY <1>1, <2>2
  <2>4. /\ x.pc = "flush" /\ x.sender = NextSender(k) /\ x.read = suggestion[NextSender(k)]
        /\ x.new = new /\ x.seen = ranker[k].seen /\ x.writes = ranker[k].writes
    BY <1>1 DEF RankerState
  <2> HIDE DEF x
  <2>5. NextSender(k) \in Senders
    BY <1>1, <2>1, FirstExists DEF RankerState, NextSender
  <2>6. new \in Rankings
    <3>1. ranker[k].seen \in [Senders -> Aggregates]
      BY <1>1, <1>3, <2>1 DEF RankerState
    <3> QED BY <2>5, <3>1, ProposalsType
  <2>7. Holds(x, k)
    BY <1>3, <2>1, <2>4, <2>5, <2>6
  <2> QED BY <1>4, <2>1, <2>3, <2>7
<1>9. CASE FlushRow(k)
  <2> DEFINE s == ranker[k].sender
             y == [sender |-> s, read |-> ranker[k].read, new |-> ranker[k].new]
             x == [Advances(k) EXCEPT !.left = ranker[k].left \ {s}, !.writes = @ \cup {y}]
  <2>1. /\ ranker[k].pc = "flush" /\ rowLock[s] = Unlisted /\ suggestion' = suggestion
        /\ s \in Senders /\ (ranker[k].read # Unlisted => suggestion[s] # Unlisted)
    BY <1>9 DEF FlushRow, RowsHeld
  <2>2. CASE ranker[k].read = Unlisted /\ suggestion[s] # Unlisted
    <3>1. Rollback(k)
      BY <1>9, <2>2 DEF FlushRow
    <3> QED BY <1>5, <2>1, <3>1 DEF Rollback
  <2>3. CASE ~ (ranker[k].read = Unlisted /\ suggestion[s] # Unlisted)
    <3>1. rowLock' = [rowLock EXCEPT ![s] = k] /\ ranker' = [ranker EXCEPT ![k] = x]
      BY <1>9, <2>3 DEF FlushRow
    <3>2. /\ x.pc = "rank" /\ x.seen = ranker[k].seen
          /\ x.writes = ranker[k].writes \cup {y}
      <4> HIDE DEF y
      <4> QED BY <1>1 DEF Advances, RankerState
    <3>3. y.sender = s /\ (y.read = Unlisted <=> suggestion[y.sender] = Unlisted)
      BY <2>1, <2>3
    <3> HIDE DEF x, y
    <3>4. ASSUME NEW h \in Rankers, NEW w \in ranker[h].writes
          PROVE  w.sender \in Senders /\ w.sender # s /\ rowLock'[w.sender] = h
                 /\ (w.read = Unlisted <=> suggestion[w.sender] = Unlisted)
      <4>1. rowLock[w.sender] = h /\ (w.read = Unlisted <=> suggestion[w.sender] = Unlisted)
        BY DEF RowsHeld
      <4>2. w.sender \in Senders
        BY <1>1 DEF RankerState, Writes
      <4> QED BY <1>1, <2>1, <3>1, <4>1, <4>2, Account
    <3>5. rowLock'[s] = k
      BY <1>1, <2>1, <3>1
    <3>6. ASSUME NEW h \in Rankers
          PROVE  /\ ranker'[h].pc # "idle" => ranker'[h].seen \in [Senders -> Aggregates]
                 /\ ranker'[h].pc = "flush" =>
                      /\ ranker'[h].sender \in Senders /\ ranker'[h].new \in Rankings
                      /\ ranker'[h].read # Unlisted => suggestion[ranker'[h].sender] # Unlisted
                 /\ \A w \in ranker'[h].writes :
                      /\ rowLock'[w.sender] = h
                      /\ w.read = Unlisted <=> suggestion[w.sender] = Unlisted
      <4>1. CASE h = k
        <5>1. ranker'[h] = x
          BY <1>1, <3>1, <4>1
        <5>2. \A w \in x.writes : rowLock'[w.sender] = k
                                  /\ (w.read = Unlisted <=> suggestion[w.sender] = Unlisted)
          BY <3>2, <3>3, <3>4, <3>5
        <5> QED BY <1>3, <2>1, <3>2, <4>1, <5>1, <5>2
      <4>2. CASE h # k
        <5>1. ranker'[h] = ranker[h]
          BY <1>1, <3>1, <4>2
        <5> QED BY <3>4, <5>1 DEF RowsHeld
      <4> QED BY <4>1, <4>2
    <3> QED BY <1>2, <2>1, <3>6 DEF RowsHeld
  <2> QED BY <2>2, <2>3
<1>10. CASE CommitRanks(k)
  <2>1. /\ ranker' = [ranker EXCEPT ![k] = Resting]
        /\ rowLock' = [s \in Senders |-> IF rowLock[s] = k THEN Unlisted ELSE rowLock[s]]
    BY <1>10 DEF CommitRanks
  <2>2. \A s \in Senders : /\ suggestion[s] # Unlisted => suggestion'[s] # Unlisted
                           /\ rowLock[s] # k => suggestion'[s] = suggestion[s]
    BY <1>10, CommitKeeps
  <2> QED BY <1>5, <2>1, <2>2
<1> QED BY <1>6, <1>7, <1>8, <1>9, <1>10 DEF Rank

-----------------------------------------------------------------------------
(* The owner's steps, and those of the mailbox.                             *)

(* What the owner does to a row: it stays, no ranking has written it since  *)
(* its transaction began, its confidence is not the owner's, and it is      *)
(* dismissed if it was.                                                     *)
LEMMA OwnerRows ==
  ASSUME Typed, RowsHeld, Owns, NEW s \in Senders
  PROVE  /\ suggestion'[s] \in SuggestionRow
         /\ suggestion'[s] = Unlisted <=> suggestion[s] = Unlisted
         /\ suggestion[s] # Unlisted => /\ suggestion'[s].confidence = suggestion[s].confidence
                                        /\ suggestion[s].dismissed => suggestion'[s].dismissed
<1>1. suggestion \in [Senders -> SuggestionRow] /\ suggestion[s] \in SuggestionRow
  BY DEF Typed
<1>2. CASE suggestion' = suggestion
  BY <1>1, <1>2
<1>3. CASE Dismiss
  <2>1. PICK t \in Senders : suggestion[t] # Unlisted
                             /\ suggestion' = [suggestion EXCEPT ![t].dismissed = TRUE]
    BY <1>3 DEF Dismiss
  <2>2. CASE s # t
    BY <1>1, <2>1, <2>2
  <2>3. CASE s = t
    <3>1. suggestion'[s] = [suggestion[s] EXCEPT !.dismissed = TRUE] /\ suggestion[s] \in Suggestions
      BY <1>1, <2>1, <2>3 DEF SuggestionRow
    <3>2. /\ suggestion'[s] \in Suggestions /\ suggestion'[s].dismissed = TRUE
          /\ suggestion'[s].confidence = suggestion[s].confidence
      BY <3>1 DEF Suggestions
    <3> QED BY <2>1, <2>3, <3>2, Account DEF SuggestionRow
  <2> QED BY <2>2, <2>3
<1>4. ASSUME NEW q \in Requests, StoreOutcome(q)
      PROVE  /\ suggestion'[s] \in SuggestionRow
             /\ suggestion'[s] = Unlisted <=> suggestion[s] = Unlisted
             /\ suggestion[s] # Unlisted => /\ suggestion'[s].confidence = suggestion[s].confidence
                                            /\ suggestion[s].dismissed => suggestion'[s].dismissed
  <2> DEFINE x == executing[q]
             row == suggestion[x.sender]
             status == IF x.outcome = x.read.status THEN row.status ELSE x.outcome
             hidden == (row.dismissed \/ x.outcome = "unsubscribed")
  <2>1. x \in RequestState /\ x # NoRequest
    BY <1>4 DEF StoreOutcome, Typed
  <2>2. x.sender \in Senders /\ x.outcome \in Answers /\ row \in Suggestions
    BY <1>1, <2>1 DEF RequestState, RowsHeld, SuggestionRow
  <2>3. suggestion' = [suggestion EXCEPT ![x.sender] =
                         [row EXCEPT !.status = status, !.dismissed = hidden]]
    BY <1>1, <1>4, <2>2, Zenon DEF StoreOutcome
  <2>4. CASE s # x.sender
    <3>1. suggestion'[s] = suggestion[s]
      BY <1>1, <2>3, <2>4, Zenon
    <3> QED BY <1>1, <3>1
  <2>5. CASE s = x.sender
    <3>1. suggestion'[s] = [row EXCEPT !.status = status, !.dismissed = hidden]
      BY <1>1, <2>2, <2>3, <2>5, Zenon
    <3>2. row.status \in {"pending", "unsubscribed", "failed", "manual_required"}
          /\ row.dismissed \in BOOLEAN
      BY <2>2, Zenon DEF Suggestions
    <3>3. status \in {"pending", "unsubscribed", "failed", "manual_required"}
      BY <2>2, <3>2 DEF Answers
    <3>4. hidden \in BOOLEAN /\ (row.dismissed => hidden)
      BY <3>2, Zenon
    <3> HIDE DEF status, hidden
    <3>5. /\ suggestion'[s] \in Suggestions /\ suggestion'[s].dismissed = hidden
          /\ suggestion'[s].confidence = row.confidence
      BY <2>2, <3>1, <3>3, <3>4, Zenon DEF Suggestions
    <3>6. suggestion'[s] # Unlisted /\ row # Unlisted
      BY <2>2, <3>5, Account
    <3> QED BY <2>5, <3>4, <3>5, <3>6, Zenon DEF SuggestionRow
  <2> QED BY <2>4, <2>5
<1>5. ASSUME NEW q \in Requests, Execute(q) \/ RequestDies(q) PROVE suggestion' = suggestion
  BY <1>5 DEF Execute, RequestDies
<1> QED BY <1>2, <1>3, <1>4, <1>5 DEF Owns

(* What an execute request finds, and what it asked of the sender.          *)
LEMMA Executed ==
  ASSUME NEW q \in Requests, Execute(q)
  PROVE  \E s \in Senders, outcome \in Answers :
           /\ suggestion[s] # Unlisted /\ suggestion[s].status # "unsubscribed"
           /\ executing[q] = NoRequest
           /\ executing' = [executing EXCEPT ![q] =
                              [sender |-> s, read |-> suggestion[s], outcome |-> outcome]]
           /\ posted' = [posted EXCEPT ![s] = @ + (IF outcome = "unsubscribed" THEN 1 ELSE 0)]
           /\ overlapped' = IF Open(s) # {} THEN overlapped \cup {s} ELSE overlapped
<1>1. \A offer : Outcomes(offer) \subseteq Answers
  BY DEF Outcomes, Answers
<1>2. PICK s \in Senders :
        /\ suggestion[s] # Unlisted /\ suggestion[s].status # "unsubscribed"
        /\ \E outcome \in Outcomes(suggestion[s].offer) :
             /\ executing' = [executing EXCEPT ![q] =
                                [sender |-> s, read |-> suggestion[s], outcome |-> outcome]]
             /\ posted' = [posted EXCEPT ![s] = @ + (IF outcome = "unsubscribed" THEN 1 ELSE 0)]
             /\ overlapped' = IF Open(s) # {} THEN overlapped \cup {s} ELSE overlapped
  BY Zenon DEF Execute
<1>3. executing[q] = NoRequest
  BY DEF Execute
<1> QED BY <1>1, <1>2, <1>3, Zenon

LEMMA OwnerKeepsRankers ==
  ASSUME Owns
  PROVE  UNCHANGED <<aggregate, rowLock, ranks, ranker, basis>>
BY DEF Owns, Dismiss, Execute, StoreOutcome, RequestDies, RankersKeep

LEMMA OwnerTyped ==
  ASSUME Typed, RowsHeld, Owns
  PROVE  Typed'
<1>1. suggestion' \in [Senders -> SuggestionRow]
  <2>1. suggestion \in [Senders -> SuggestionRow]
    BY DEF Typed
  <2>2. DOMAIN suggestion' = Senders /\ suggestion' = [s \in Senders |-> suggestion'[s]]
    <3>1. CASE suggestion' = suggestion
      BY <2>1, <3>1
    <3>2. CASE Dismiss
      <4>1. PICK t \in Senders : suggestion' = [suggestion EXCEPT ![t].dismissed = TRUE]
        BY <3>2 DEF Dismiss
      <4> QED BY <2>1, <4>1
    <3>3. ASSUME NEW q \in Requests, StoreOutcome(q)
          PROVE  DOMAIN suggestion' = Senders /\ suggestion' = [s \in Senders |-> suggestion'[s]]
      <4>1. \E row : suggestion' = [suggestion EXCEPT ![executing[q].sender] = row]
        BY <3>3, Zenon DEF StoreOutcome
      <4> QED BY <2>1, <4>1
    <3> QED BY <3>1, <3>2, <3>3 DEF Owns, Execute, RequestDies
  <2> QED BY <2>2, OwnerRows
<1>2. /\ executing' \in [Requests -> RequestState \cup {NoRequest}]
      /\ posted' \in [Senders -> Nat] /\ overlapped' \in SUBSET Senders /\ spent' \in SpentState
  <2>1. /\ executing \in [Requests -> RequestState \cup {NoRequest}]
        /\ posted \in [Senders -> Nat] /\ overlapped \in SUBSET Senders /\ spent \in SpentState
        /\ suggestion \in [Senders -> SuggestionRow]
    BY DEF Typed
  <2>2. CASE Dismiss
    BY <2>1, <2>2 DEF Dismiss
  <2>3. ASSUME NEW q \in Requests, Execute(q)
        PROVE  /\ executing' \in [Requests -> RequestState \cup {NoRequest}]
               /\ posted' \in [Senders -> Nat] /\ overlapped' \in SUBSET Senders
               /\ spent' \in SpentState
    <3>1. PICK s \in Senders, outcome \in Answers :
            /\ suggestion[s] # Unlisted
            /\ executing' = [executing EXCEPT ![q] =
                               [sender |-> s, read |-> suggestion[s], outcome |-> outcome]]
            /\ posted' = [posted EXCEPT ![s] = @ + (IF outcome = "unsubscribed" THEN 1 ELSE 0)]
            /\ overlapped' = IF Open(s) # {} THEN overlapped \cup {s} ELSE overlapped
      BY <2>3, Executed, Zenon
    <3>3. suggestion[s] \in Suggestions
      BY <2>1, <3>1 DEF SuggestionRow
    <3>4. [sender |-> s, read |-> suggestion[s], outcome |-> outcome] \in RequestState
      BY <3>3 DEF RequestState
    <3>5. spent' \in SpentState
      BY <2>1, <2>3 DEF Execute, SpentState
    <3>6. posted' \in [Senders -> Nat]
      <4>1. posted[s] + (IF outcome = "unsubscribed" THEN 1 ELSE 0) \in Nat
        BY <2>1
      <4> QED BY <2>1, <3>1, <4>1
    <3> QED BY <2>1, <3>1, <3>4, <3>5, <3>6
  <2>4. ASSUME NEW q \in Requests, StoreOutcome(q) \/ RequestDies(q)
        PROVE  /\ executing' \in [Requests -> RequestState \cup {NoRequest}]
               /\ posted' \in [Senders -> Nat] /\ overlapped' \in SUBSET Senders
               /\ spent' \in SpentState
    <3>1. /\ executing' = [executing EXCEPT ![q] = NoRequest] /\ executing[q] # NoRequest
          /\ spent' = spent /\ posted' = posted
          /\ overlapped' \in {overlapped, overlapped \cup {executing[q].sender}}
      BY <2>4, Zenon DEF StoreOutcome, RequestDies
    <3>2. executing[q].sender \in Senders
      BY <2>1, <3>1 DEF RequestState
    <3> QED BY <2>1, <3>1, <3>2
  <2> QED BY <2>2, <2>3, <2>4 DEF Owns
<1> QED BY <1>1, <1>2, OwnerKeepsRankers DEF Typed

LEMMA OwnerRowsHeld ==
  ASSUME Typed, RowsHeld, Owns
  PROVE  RowsHeld'
<1>1. ranker \in [Rankers -> RankerState] /\ ranker' = ranker /\ rowLock' = rowLock
  BY OwnerKeepsRankers DEF Typed
<1>2. \A s \in Senders : suggestion'[s] = Unlisted <=> suggestion[s] = Unlisted
  BY OwnerRows
<1>3. ASSUME NEW k \in Rankers
      PROVE  /\ ranker'[k].pc # "idle" => ranker'[k].seen \in [Senders -> Aggregates]
             /\ ranker'[k].pc = "flush" =>
                  /\ ranker'[k].sender \in Senders /\ ranker'[k].new \in Rankings
                  /\ ranker'[k].read # Unlisted => suggestion'[ranker'[k].sender] # Unlisted
             /\ \A w \in ranker'[k].writes :
                  /\ rowLock'[w.sender] = k
                  /\ w.read = Unlisted <=> suggestion'[w.sender] = Unlisted
  <2>1. \A w \in ranker[k].writes : w.sender \in Senders
    BY <1>1 DEF RankerState, Writes
  <2> QED BY <1>1, <1>2, <2>1 DEF RowsHeld
<1>4. ASSUME NEW q \in Requests, executing'[q] # NoRequest
      PROVE  suggestion'[executing'[q].sender] # Unlisted
  <2>1. executing \in [Requests -> RequestState \cup {NoRequest}]
    BY DEF Typed
  <2>2. CASE executing'[q] = executing[q]
    <3>1. executing[q].sender \in Senders /\ suggestion[executing[q].sender] # Unlisted
      BY <1>4, <2>1, <2>2 DEF RequestState, RowsHeld
    <3> QED BY <1>2, <2>2, <3>1
  <2>3. CASE executing'[q] # executing[q]
    <3>1. PICK r \in Requests : Execute(r) \/ StoreOutcome(r) \/ RequestDies(r)
      BY <2>3 DEF Owns, Dismiss
    <3>2. CASE StoreOutcome(r) \/ RequestDies(r)
      <4>1. executing' = [executing EXCEPT ![r] = NoRequest]
        BY <3>2 DEF StoreOutcome, RequestDies
      <4> QED BY <1>4, <2>1, <2>3, <4>1
    <3>3. CASE Execute(r)
      <4>1. PICK s \in Senders, outcome \in Answers :
              /\ suggestion[s] # Unlisted
              /\ executing' = [executing EXCEPT ![r] =
                                 [sender |-> s, read |-> suggestion[s], outcome |-> outcome]]
        BY <3>3, Executed
      <4>2. executing'[q].sender = s
        BY <2>1, <2>3, <4>1
      <4> QED BY <1>2, <4>1, <4>2
    <3> QED BY <3>1, <3>2, <3>3
  <2> QED BY <2>2, <2>3
<1> QED BY <1>3, <1>4, Zenon DEF RowsHeld

LEMMA HygieneStep == Typed /\ RowsHeld /\ [HygieneNext]_hygieneVars => Typed' /\ RowsHeld'
<1> SUFFICES ASSUME Typed, RowsHeld, [HygieneNext]_hygieneVars PROVE Typed' /\ RowsHeld'
  OBVIOUS
<1>1. CASE Owns
  BY <1>1, OwnerTyped, OwnerRowsHeld
<1>2. CASE \E k \in Rankers : Rank(k)
  BY <1>2, RankTyped, RankRows
<1>3. CASE Enqueue
  <2>1. Typed'
    BY <1>3 DEF Typed, Enqueue, OwnerKeeps, SpentState
  <2> QED BY <1>3, <2>1 DEF Enqueue, OwnerKeeps, RowsHeld
<1>4. CASE AggregateChanges
  <2>1. aggregate' \in [Senders -> Aggregates] /\ spent' \in SpentState
    BY <1>4 DEF Typed, AggregateChanges, Aggregates, SpentState
  <2>2. UNCHANGED <<suggestion, rowLock, ranks, ranker, executing, posted, overlapped, basis>>
    BY <1>4 DEF AggregateChanges
  <2> QED BY <2>1, <2>2 DEF Typed, RowsHeld
<1>5. CASE UNCHANGED hygieneVars
  BY <1>5 DEF hygieneVars, Typed, RowsHeld
<1> QED BY <1>1, <1>2, <1>3, <1>4, <1>5 DEF HygieneNext, Ranks

(* A step that is not the owner's leaves the requests alone, and one that   *)
(* is not a commit the rows.                                                *)
LEMMA OthersKeep ==
  ASSUME [HygieneNext]_hygieneVars, ~ Owns
  PROVE  /\ UNCHANGED <<executing, posted, overlapped>>
         /\ (\A k \in Rankers : ~ CommitRanks(k)) => UNCHANGED <<suggestion, basis>>
<1>1. ASSUME NEW k \in Rankers, Rank(k)
      PROVE  /\ UNCHANGED <<executing, posted, overlapped>>
             /\ ~ CommitRanks(k) => UNCHANGED <<suggestion, basis>>
  <2>1. CASE Aggregate(k)
    BY <2>1, Zenon DEF Aggregate, OwnerKeeps
  <2>2. CASE Pass(k)
    BY <2>2, Zenon DEF Pass, OwnerKeeps
  <2>3. CASE Propose(k)
    BY <2>3, Zenon DEF Propose, OwnerKeeps
  <2>4. CASE FlushRow(k)
    BY <2>4, Zenon DEF FlushRow, OwnerKeeps
  <2>5. CASE CommitRanks(k)
    BY <2>5, Zenon DEF CommitRanks, OwnerKeeps
  <2> QED BY <1>1, <2>1, <2>2, <2>3, <2>4, <2>5 DEF Rank
<1>2. CASE Enqueue \/ AggregateChanges \/ UNCHANGED hygieneVars
  BY <1>2 DEF Enqueue, AggregateChanges, OwnerKeeps, hygieneVars
<1> QED BY <1>1, <1>2 DEF HygieneNext, Ranks

(* No step loses a row; only the owner changes a row's status, or dismisses *)
(* it, and nobody takes a dismissal back.                                   *)
LEMMA RowsStay ==
  ASSUME Typed, RowsHeld, [HygieneNext]_hygieneVars, NEW s \in Senders, suggestion[s] # Unlisted
  PROVE  /\ suggestion'[s] # Unlisted
         /\ suggestion[s].dismissed => suggestion'[s].dismissed
         /\ ~ Owns => suggestion'[s].status = suggestion[s].status
<1>1. CASE Owns
  BY <1>1, OwnerRows
<1>2. ASSUME NEW k \in Rankers, CommitRanks(k)
      PROVE  /\ suggestion'[s] # Unlisted
             /\ suggestion[s].dismissed => suggestion'[s].dismissed
             /\ suggestion'[s].status = suggestion[s].status
  BY <1>2, CommitKeeps
<1>3. ~ Owns /\ (\A k \in Rankers : ~ CommitRanks(k)) => suggestion' = suggestion
  BY OthersKeep
<1> QED BY <1>1, <1>2, <1>3

-----------------------------------------------------------------------------
(* Unsubscribes.                                                            *)

LEMMA SuccessStep ==
  ASSUME Typed, RowsHeld, Success, [HygieneNext]_hygieneVars
  PROVE  Success'
<1>1. /\ executing \in [Requests -> RequestState \cup {NoRequest}]
      /\ posted \in [Senders -> Nat] /\ overlapped \in SUBSET Senders
      /\ suggestion \in [Senders -> SuggestionRow]
  BY DEF Typed
<1>2. ASSUME ~ Owns PROVE Success'
  <2>1. UNCHANGED <<executing, posted, overlapped>>
    BY <1>2, OthersKeep
  <2>2. \A s : Open(s)' = Open(s)
    BY <2>1 DEF Open
  <2>3. ASSUME NEW s \in Senders \ overlapped, Open(s) = {}, posted[s] > 0
        PROVE  /\ suggestion'[s] # Unlisted
               /\ suggestion'[s].status = "unsubscribed" /\ suggestion'[s].dismissed
    <3>1. /\ suggestion[s] # Unlisted /\ suggestion[s].status = "unsubscribed"
          /\ suggestion[s].dismissed
      BY <2>3 DEF Success
    <3> QED BY <1>2, <3>1, RowsStay
  <2> QED BY <2>1, <2>2, <2>3 DEF Success
<1>3. CASE Dismiss
  <2>1. PICK t \in Senders : suggestion[t] # Unlisted
                             /\ suggestion' = [suggestion EXCEPT ![t].dismissed = TRUE]
    BY <1>3 DEF Dismiss
  <2>2. UNCHANGED <<executing, posted, overlapped>>
    BY <1>3 DEF Dismiss
  <2>3. \A s : Open(s)' = Open(s)
    BY <2>2 DEF Open
  <2>4. Owns
    BY <1>3 DEF Owns
  <2>5. ASSUME NEW s \in Senders \ overlapped, Open(s) = {}, posted[s] > 0
        PROVE  /\ suggestion'[s] # Unlisted
               /\ suggestion'[s].status = "unsubscribed" /\ suggestion'[s].dismissed
    <3>1. /\ suggestion[s] \in Suggestions /\ suggestion[s].status = "unsubscribed"
          /\ suggestion[s].dismissed /\ suggestion[s] # Unlisted
      BY <1>1, <2>5 DEF Success, SuggestionRow
    <3>2. suggestion'[s] # Unlisted /\ suggestion'[s].dismissed
      BY <3>1, RowsStay
    <3>3. suggestion'[s].status = suggestion[s].status
      <4>1. CASE s # t
        BY <1>1, <2>1, <4>1
      <4>2. CASE s = t
        <5>1. suggestion'[s] = [suggestion[s] EXCEPT !.dismissed = TRUE]
          BY <1>1, <2>1, <4>2
        <5> QED BY <3>1, <5>1 DEF Suggestions
      <4> QED BY <4>1, <4>2
    <3> QED BY <3>1, <3>2, <3>3
  <2> QED BY <2>2, <2>3, <2>5 DEF Success
<1>4. ASSUME NEW q \in Requests, Execute(q) PROVE Success'
  <2>1. PICK t \in Senders, outcome \in Answers :
          /\ suggestion[t] # Unlisted /\ suggestion[t].status # "unsubscribed"
          /\ executing[q] = NoRequest
          /\ executing' = [executing EXCEPT ![q] =
                             [sender |-> t, read |-> suggestion[t], outcome |-> outcome]]
          /\ posted' = [posted EXCEPT ![t] = @ + (IF outcome = "unsubscribed" THEN 1 ELSE 0)]
          /\ overlapped' = IF Open(t) # {} THEN overlapped \cup {t} ELSE overlapped
    BY <1>4, Executed, Zenon
  <2>2. suggestion' = suggestion
    BY <1>4 DEF Execute
  <2>3. /\ executing'[q] = [sender |-> t, read |-> suggestion[t], outcome |-> outcome]
        /\ \A r \in Requests \ {q} : executing'[r] = executing[r]
    BY <1>1, <2>1
  <2>4. executing'[q] # NoRequest
    BY <2>3 DEF NoRequest, Answers
  <2>5. Open(t)' = Open(t) \cup {q} /\ q \notin Open(t)
    BY <2>1, <2>3, <2>4 DEF Open
  <2>6. \A s \in Senders \ {t} : Open(s)' = Open(s) /\ posted'[s] = posted[s]
    BY <1>1, <2>1, <2>3 DEF Open
  <2>7. ASSUME NEW s \in Senders \ overlapped'
        PROVE  /\ \A u, r \in Open(s)' : u = r
               /\ \A u \in Open(s)' :
                    /\ executing'[u].read.status # "unsubscribed"
                    /\ posted'[s] = IF executing'[u].outcome = "unsubscribed" THEN 1 ELSE 0
               /\ Open(s)' = {} /\ posted'[s] > 0 =>
                    /\ posted'[s] = 1 /\ suggestion'[s] # Unlisted
                    /\ suggestion'[s].status = "unsubscribed" /\ suggestion'[s].dismissed
    <3>1. s \in Senders \ overlapped
      BY <2>1, <2>7
    <3>2. CASE s # t
      <4>1. Open(s)' = Open(s) /\ posted'[s] = posted[s] /\ q \notin Open(s)
        BY <2>1, <2>6, <3>2 DEF Open
      <4>2. \A u \in Open(s) : executing'[u] = executing[u]
        BY <2>3, <4>1 DEF Open
      <4> QED BY <2>2, <3>1, <4>1, <4>2 DEF Success
    <3>3. CASE s = t
      <4>1. Open(t) = {} /\ Open(t)' = {q}
        BY <2>1, <2>5, <2>7, <3>3
      <4>2. posted[t] = 0
        BY <1>1, <2>1, <3>1, <3>3, <4>1 DEF Success
      <4>3. posted'[t] = IF outcome = "unsubscribed" THEN 1 ELSE 0
        BY <1>1, <2>1, <4>2
      <4> QED BY <2>1, <2>3, <3>3, <4>1, <4>3
    <3> QED BY <3>2, <3>3
  <2> QED BY <2>7, Zenon DEF Success
<1>5. ASSUME NEW q \in Requests, StoreOutcome(q) \/ RequestDies(q) PROVE Success'
  <2> DEFINE x == executing[q]
  <2>1. /\ executing' = [executing EXCEPT ![q] = NoRequest] /\ x # NoRequest /\ posted' = posted
        /\ overlapped \subseteq overlapped'
    BY <1>5 DEF StoreOutcome, RequestDies
  <2>2. x \in RequestState
    BY <1>1, <2>1
  <2>3. x.sender \in Senders /\ x.outcome \in Answers /\ q \in Open(x.sender)
    BY <2>1, <2>2 DEF RequestState, Open
  <2>4. /\ executing'[q] = NoRequest
        /\ \A r \in Requests \ {q} : executing'[r] = executing[r]
    BY <1>1, <2>1
  <2>5. \A s \in Senders : Open(s)' = Open(s) \ {q}
    BY <2>4 DEF Open
  <2>6. ASSUME NEW s \in Senders \ overlapped'
        PROVE  /\ \A u, r \in Open(s)' : u = r
               /\ \A u \in Open(s)' :
                    /\ executing'[u].read.status # "unsubscribed"
                    /\ posted'[s] = IF executing'[u].outcome = "unsubscribed" THEN 1 ELSE 0
               /\ Open(s)' = {} /\ posted'[s] > 0 =>
                    /\ posted'[s] = 1 /\ suggestion'[s] # Unlisted
                    /\ suggestion'[s].status = "unsubscribed" /\ suggestion'[s].dismissed
    <3>1. s \in Senders \ overlapped /\ suggestion[s] \in SuggestionRow
      BY <1>1, <2>1, <2>6
    <3>2. CASE s # x.sender
      <4>1. q \notin Open(s) /\ Open(s)' = Open(s)
        BY <2>5, <3>2 DEF Open
      <4>2. \A u \in Open(s) : executing'[u] = executing[u]
        BY <2>4, <4>1 DEF Open
      <4>3. suggestion'[s] = suggestion[s]
        <5>1. CASE RequestDies(q)
          BY <5>1 DEF RequestDies
        <5>2. CASE StoreOutcome(q)
          <6>1. \E row : suggestion' = [suggestion EXCEPT ![x.sender] = row]
            BY <5>2, Zenon DEF StoreOutcome
          <6> QED BY <1>1, <2>3, <3>2, <6>1
        <5> QED BY <1>5, <5>1, <5>2
      <4> QED BY <2>1, <3>1, <4>1, <4>2, <4>3 DEF Success
    <3>3. CASE s = x.sender
      <4>1. StoreOutcome(q)
        <5>1. ~ RequestDies(q)
          BY <2>6, <3>3 DEF RequestDies
        <5> QED BY <1>5, <5>1
      <4>2. Open(s) = {q} /\ Open(s)' = {}
        BY <2>3, <2>5, <3>1, <3>3 DEF Success
      <4>3. /\ x.read.status # "unsubscribed"
            /\ posted[s] = IF x.outcome = "unsubscribed" THEN 1 ELSE 0
        BY <3>1, <4>2 DEF Success
      <4>4. ASSUME posted[s] > 0
            PROVE  /\ posted[s] = 1 /\ suggestion'[s] # Unlisted
                   /\ suggestion'[s].status = "unsubscribed" /\ suggestion'[s].dismissed
        <5>1. posted[s] = 1 /\ x.outcome = "unsubscribed" /\ x.outcome # x.read.status
          BY <4>3, <4>4
        <5>2. suggestion[s] \in Suggestions
          BY <2>1, <3>1, <3>3 DEF RowsHeld, SuggestionRow
        <5>3. suggestion' = [suggestion EXCEPT ![s] =
                [suggestion[s] EXCEPT
                   !.status = IF x.outcome = x.read.status THEN suggestion[s].status ELSE x.outcome,
                   !.dismissed = (suggestion[s].dismissed \/ x.outcome = "unsubscribed")]]
          BY <1>1, <3>1, <3>3, <4>1, Zenon DEF StoreOutcome
        <5>4. suggestion'[s] =
                [suggestion[s] EXCEPT
                   !.status = IF x.outcome = x.read.status THEN suggestion[s].status ELSE x.outcome,
                   !.dismissed = (suggestion[s].dismissed \/ x.outcome = "unsubscribed")]
          BY <1>1, <3>1, <5>3, Zenon
        <5>5. suggestion'[s].dismissed = (suggestion[s].dismissed \/ x.outcome = "unsubscribed")
          BY <5>2, <5>4, Zenon DEF Suggestions
        <5>6. suggestion'[s].status =
                IF x.outcome = x.read.status THEN suggestion[s].status ELSE x.outcome
          BY <5>2, <5>4, Zenon DEF Suggestions
        <5>7. suggestion'[s] # Unlisted
          <6>1. suggestion[s] # Unlisted
            BY <5>2, Account
          <6> QED BY <3>1, <6>1, RowsStay
        <5> QED BY <5>1, <5>5, <5>6, <5>7, Zenon
      <4> QED BY <2>1, <4>2, <4>4
    <3> QED BY <3>2, <3>3
  <2> QED BY <2>6, Zenon DEF Success
<1> QED BY <1>2, <1>3, <1>4, <1>5 DEF Owns

-----------------------------------------------------------------------------
(* Vetoes.                                                                  *)

LEMMA VetoStep ==
  ASSUME Typed, RowsHeld, VetoHides, [HygieneNext]_hygieneVars
  PROVE  VetoHides'
<1>1. CASE Owns
  <2>1. ASSUME NEW s \in Senders, basis'[s] = "veto" PROVE ~ Shown(suggestion'[s])
    <3>1. ~ Shown(suggestion[s])
      BY <1>1, <2>1, OwnerKeepsRankers DEF VetoHides
    <3> QED BY <1>1, <3>1, OwnerRows DEF Shown
  <2> QED BY <2>1 DEF VetoHides, Shown
<1>2. ASSUME NEW k \in Rankers, CommitRanks(k) PROVE VetoHides'
  <2>1. ASSUME NEW s \in Senders, basis'[s] = "veto" PROVE ~ Shown(suggestion'[s])
    <3> DEFINE w == CHOOSE w \in Written(k, s) : TRUE
    <3>1. /\ basis'[s] = IF Written(k, s) = {} THEN basis[s]
                         ELSE IF w.read # Unlisted /\ w.read.confidence # suggestion[s].confidence
                              THEN "overtaken" ELSE w.new.source
          /\ suggestion'[s] = IF Written(k, s) = {} THEN suggestion[s]
                              ELSE Ranked(suggestion[s], w)
      BY <1>2 DEF CommitRanks
    <3>2. CASE Written(k, s) = {}
      BY <2>1, <3>1, <3>2 DEF VetoHides
    <3>3. CASE Written(k, s) # {}
      <4>1. w \in Writes /\ w \in ranker[k].writes /\ w.sender = s
        BY <3>3, WrittenType
      <4>2. w.new.source = "veto" /\ (w.read = Unlisted \/ w.read.confidence = suggestion[s].confidence)
        BY <2>1, <3>1, <3>3
      <4>3. w.read = Unlisted <=> suggestion[s] = Unlisted
        BY <4>1 DEF RowsHeld
      <4>4. suggestion[s] \in SuggestionRow
        BY DEF Typed
      <4>5. suggestion'[s] = Ranked(suggestion[s], w)
        BY <3>1, <3>3
      <4>6. w.new.confidence <= PolicyGateMin /\ w.new.confidence \in Nat
        BY <4>1, <4>2, Thresholds DEF Writes, Rankings
      <4> HIDE DEF w
      <4>7. suggestion'[s].confidence = w.new.confidence
        BY <4>1, <4>2, <4>3, <4>4, <4>5, RankedRow
      <4>8. ~ (suggestion'[s].confidence >= RecommendationMin)
        BY <4>6, <4>7, Thresholds
      <4> QED BY <4>8 DEF Shown
    <3> QED BY <3>2, <3>3
  <2> QED BY <2>1 DEF VetoHides, Shown
<1>3. CASE ~ Owns /\ \A k \in Rankers : ~ CommitRanks(k)
  <2>1. suggestion' = suggestion /\ basis' = basis
    BY <1>3, OthersKeep
  <2> QED BY <2>1 DEF VetoHides, Shown
<1> QED BY <1>1, <1>2, <1>3

-----------------------------------------------------------------------------
(* Theorems.                                                                *)

(* The inductive invariant: the types, the rows a ranking keeps locked until *)
(* it commits, what a request that executes still knows of its sender, and  *)
(* that no committed ranking shows a sender its own model answer spared.    *)
THEOREM Invariant == HygieneSpec => [](Typed /\ RowsHeld /\ Success /\ VetoHides)
<1>1. HygieneInit => Typed /\ RowsHeld /\ Success /\ VetoHides
  <2>1. HygieneInit => VetoHides
    BY DEF HygieneInit, VetoHides
  <2> QED BY <2>1, InitHygiene
<1>2. Typed /\ RowsHeld /\ Success /\ VetoHides /\ [HygieneNext]_hygieneVars
        => (Typed /\ RowsHeld /\ Success /\ VetoHides)'
  BY HygieneStep, SuccessStep, VetoStep
<1> QED BY <1>1, <1>2, PTL DEF HygieneSpec

(* A ranking, of however many that run, never brings back a suggestion that *)
(* the owner dismissed, confirmed or executed.                              *)
THEOREM DismissalsStay == HygieneSpec => DismissalSurvives
<1>1. Typed /\ RowsHeld /\ [HygieneNext]_hygieneVars =>
        [\A s \in Senders :
           suggestion[s] # Unlisted /\ suggestion[s].dismissed =>
             suggestion'[s].dismissed]_hygieneVars
  BY RowsStay
<1> QED BY <1>1, Invariant, PTL DEF HygieneSpec, DismissalSurvives

(* An unsubscribe that the sender accepted is recorded, hidden and not sent *)
(* again, unless requests for the sender overlap or die.                    *)
THEOREM SuccessStays == HygieneSpec => []SuccessIsKept
<1>1. Success => SuccessIsKept
  BY DEF Success, SuccessIsKept
<1> QED BY <1>1, Invariant, PTL

(* A sender the model spared is not recommended, however rankings and the   *)
(* owner's requests interleave.                                             *)
THEOREM VetoesHide == HygieneSpec => []VetoHides
BY Invariant, PTL
=============================================================================
