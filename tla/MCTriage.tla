------------------------------- MODULE MCTriage -------------------------------
(***************************************************************************)
(* Small instances of the modules about what the owner is shown and         *)
(* chooses: the verdict on an email, the unsubscribe suggestions of an      *)
(* account, and the choices made offline.  They share no state; a behaviour *)
(* runs in one lane, so that the state spaces add up: bucket moves against  *)
(* two workers, rubric edits against two workers, two rankings against each *)
(* other, one ranking against the owner, and the offline queue.             *)
(***************************************************************************)
EXTENDS Triage, Unsubscribe, OfflineQueue, TLC

CONSTANTS w1, w2, p1, d1, k1, k2, q1, q2

VARIABLE lane

Shop ==
  [domain |-> <<"com", "shop">>, sender |-> "news@shop.com", subject |-> {"sale"},
   text |-> {"sale", "today"}, labels |-> {"LIST"}, unsub |-> TRUE]

Rule(match, label, confidence, priority, active) ==
  [match |-> match, label |-> label, confidence |-> confidence, newsletter |-> FALSE,
   priority |-> priority, active |-> active]

Bakery == [Shop EXCEPT !.domain = <<"com", "bakery">>, !.sender = "news@bakery.com"]
Letters == {Shop, Bakery}

(* A rule above the seeds, one below that is unsure, one switched off.      *)
ThreeRules ==
  {Rule([from_domain |-> <<"com">>], "good_to_read", 90, 20000, TRUE),
   Rule([subject_contains |-> "sale", has_label |-> "LIST"], "must_read", 40, 100, TRUE),
   Rule([list_unsubscribe_present |-> TRUE], "ignore", 90, 20000, FALSE)}

ShopIsWaste == {[from_domain |-> <<"com", "shop">>]}

Silent == [hits |-> 1, offer |-> "link"]

allVars == <<vars, hygieneVars, queueVars, lane>>

MCInit ==
  /\ Init /\ HygieneInit /\ QueueInit
  /\ lane \in {"moves", "edits", "ranks", "requests", "offline"}
  /\ lane # "edits" => mail = Bakery
  /\ lane # "ranks" => aggregate[2] = Silent
  /\ lane \notin {"ranks", "requests"} => aggregate[1] = Silent
  /\ lane # "offline" => ~online

RanksBy(k) == Enqueue \/ AggregateChanges \/ Rank(k)

Elsewhere(l, others) == lane = l /\ UNCHANGED <<others, lane>>

MCNext ==
  \/ Elsewhere("moves", <<hygieneVars, queueVars>>) /\ (Classifies \/ Moves)
  \/ Elsewhere("edits", <<hygieneVars, queueVars>>) /\ (Classifies \/ EditRules)
  \/ Elsewhere("ranks", <<vars, queueVars>>) /\ (Ranks \/ Dismiss)
  \/ Elsewhere("requests", <<vars, queueVars>>) /\ (RanksBy(k1) \/ Owns)
  \/ Elsewhere("offline", <<vars, hygieneVars>>) /\ QueueNext

ClassifiesInLane(w) == lane \in {"moves", "edits"} /\ Handle(w)
RanksInLane(k) == (lane = "ranks" \/ (lane = "requests" /\ k = k1)) /\ Rank(k)

MCSpec ==
  /\ MCInit /\ [][MCNext]_allVars
  /\ \A w \in Workers : WF_vars(ClassifiesInLane(w))
  /\ \A k \in Rankers : WF_hygieneVars(RanksInLane(k))
=============================================================================
