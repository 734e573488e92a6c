-------------------------------- MODULE Rubric --------------------------------
(***************************************************************************)
(* The rule engine: what a rule predicate matches, and which of the matching *)
(* rules and known waste senders decides.  Pure operators.                  *)
(*                                                                         *)
(* An email is a record: domain, the labels of its sender's domain from the *)
(* top one down (<<"com", "shop">>); sender, its address; subject and text, *)
(* the set of fragments found in its subject and in subject or snippet;     *)
(* labels, its Gmail labels; unsub, whether it has List-Unsubscribe.        *)
(***************************************************************************)
EXTENDS Integers, Sequences, SequencesExt

MatchKeys ==
  {"from_domain", "from_email", "subject_contains", "subject_regex", "topic_keyword",
   "has_label", "list_unsubscribe_present", "header_equals"}

ListLabels == {"LIST", "Precedence:bulk"}

(* Headers of which the boundary model keeps enough to decide.              *)
HeaderHolds(name, expected, mail) ==
  \/ name = "list-unsubscribe" /\ expected = mail.unsub
  \/ name = "precedence" /\ expected = "bulk" /\ ListLabels \cap mail.labels # {}

(* An empty needle is the empty string: it matches nothing.                 *)
Clause(key, value, mail) ==
  CASE key = "from_domain" -> IsPrefix(value, mail.domain)
    [] key = "from_email" -> value = mail.sender
    [] key \in {"subject_contains", "subject_regex"} -> value \in mail.subject
    [] key = "topic_keyword" -> value \cap mail.text # {}
    [] key = "has_label" -> value \in mail.labels
    [] key = "list_unsubscribe_present" -> value = mail.unsub
    [] key = "header_equals" -> \A n \in DOMAIN value : HeaderHolds(n, value[n], mail)
    [] OTHER -> FALSE

(* Mutant: a predicate without clauses matches every email.                 *)
MatchesAll(match, mail) == \A k \in DOMAIN match : Clause(k, match[k], mail)

Matches(match, mail) ==
  /\ DOMAIN match # {}
  /\ \A k \in DOMAIN match : Clause(k, match[k], mail)

(* Labels of older fixtures and seeds.                                      *)
NormalLabel(label) ==
  CASE label \in {"newsletter", "job_candidate"} -> "good_to_read"
    [] label = "waste" -> "ignore"
    [] OTHER -> label

LabelRank(label) ==
  CASE label = "must_read" -> 60 [] label = "good_to_read" -> 50
    [] label = "ignore" -> 40 [] OTHER -> 0

WastePriority == 10000
WasteDecision ==
  [label |-> "ignore", confidence |-> 98, version |-> 0, newsletter |-> FALSE]

RuleDecision(rule) ==
  [label |-> NormalLabel(rule.label), confidence |-> rule.confidence,
   version |-> rule.version, newsletter |-> rule.newsletter \/ rule.label = "newsletter"]

(* Every rule and seed that matches, with its priority.                     *)
Candidates(rules, seeds, mail) ==
  {[priority |-> WastePriority, decision |-> WasteDecision] :
     s \in {s \in seeds : Matches(s, mail)}} \cup
  {[priority |-> r.priority, decision |-> RuleDecision(r)] :
     r \in {r \in rules : r.active /\ Matches(r.match, mail)}}

Outranks(a, b) ==
  \/ a.priority > b.priority
  \/ /\ a.priority = b.priority
     /\ LabelRank(a.decision.label) > LabelRank(b.decision.label)

(* Mutant: a label that matters more wins over a higher priority.           *)
EvaluateByLabel(rules, seeds, mail) ==
  LET found == Candidates(rules, seeds, mail) IN
    {c.decision : c \in {c \in found :
       \A o \in found : LabelRank(o.decision.label) <= LabelRank(c.decision.label)}}

(* The decisions the engine may return: none when no rule matches; among    *)
(* candidates that tie, max() takes the one the query happened to list      *)
(* first.                                                                   *)
Evaluate(rules, seeds, mail) ==
  LET found == Candidates(rules, seeds, mail) IN
    {c.decision : c \in {c \in found : ~\E o \in found : Outranks(o, c)}}
=============================================================================
