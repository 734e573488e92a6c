---------------------------- MODULE MCRunPipeline ----------------------------
(***************************************************************************)
(* Small instances of RunPipeline for TLC: one or two accounts, two emails, *)
(* two workers, and the inputs the configurations choose between.          *)
(***************************************************************************)
EXTENDS RunImplements, TLC

CONSTANTS a1, a2, e1, e2, w1, w2

OneAccount == [e \in Emails |-> a1]
OneEach == [e \in Emails |-> IF e = e1 THEN a1 ELSE a2]

MailOf(a) == {e \in Emails : AccountOf[e] = a}
FullScan == [a \in Accounts |-> {MailOf(a)}]
AnyScan == [a \in Accounts |-> SUBSET MailOf(a)]
NothingNew == [a \in Accounts |-> {{}}]

Mail(l) == [label |-> l, newsletter |-> FALSE]
Newsletter(l) == [label |-> l, newsletter |-> TRUE]

MustRead == [e \in Emails |-> {Mail("must_read")}]
FirstVaries ==
  [e \in Emails |-> IF e = e1 THEN {Mail("must_read"), Mail("ignore")}
                    ELSE {Mail("must_read")}]
Mixed ==
  [e \in Emails |-> IF e = e1 THEN {Newsletter("must_read")}
                    ELSE {Newsletter("ignore"), Mail("good_to_read")}]
Ignored == [e \in Emails |-> {Mail("ignore")}]
OnlyNewsletters == [e \in Emails |-> {Newsletter("ignore")}]
FirstListed ==
  [e \in Emails |-> IF e = e1 THEN {Newsletter("must_read"), Newsletter("ignore")}
                    ELSE {Newsletter("ignore")}]

SameKey == [e \in Emails |-> "key"]
OwnKey == [e \in Emails |-> e]

WorkerSym == Permutations(Workers)
=============================================================================
