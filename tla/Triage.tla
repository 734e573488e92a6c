-------------------------------- MODULE Triage --------------------------------
(***************************************************************************)
(* The verdict on one email: classify records in several Lambda workers     *)
(* (first delivery, redelivery, reclassification), the owner moving the     *)
(* email to another bucket, and the owner editing the rubric meanwhile.     *)
(*                                                                         *)
(* PostgreSQL runs at READ COMMITTED.  The ORM keeps a row a session has    *)
(* loaded and still refers to as it was read, and its UPDATE sets only the  *)
(* columns whose new value differs from the one read.                       *)
(***************************************************************************)
EXTENDS Integers, FiniteSets, Rubric

CONSTANTS
  Rules,        \* rule ids
  Contents,     \* what the owner can save as a rule
  Seeds,        \* predicates of the known waste senders
  Mails,        \* what the email may be
  Workers,
  Pages,        \* browser pages that can move the email
  Editors,      \* browser pages that can edit the rubric
  SureEnough,   \* low_confidence_threshold
  MaxRecords,   \* bound: classify records of the email
  MaxMoves,     \* bound: bucket changes
  MaxEdits,     \* bound: rubric changes
  MaxCrashes,   \* bound: crashes of workers
  Nothing       \* no row, no rule, no decision

Buckets == {"must_read", "good_to_read", "ignore"}
Percents == 0 .. 100
PriorityMax == 100000
Priorities == 0 .. PriorityMax

Verdicts ==
  [label : Buckets, source : {"rule", "model", "hybrid"},
   model : {"", "llm", "user_override"}, version : 0 .. MaxEdits,
   newsletter : BOOLEAN, review : BOOLEAN]

RubricDecisions ==
  [label : Buckets, confidence : Percents, version : 0 .. MaxEdits, newsletter : BOOLEAN]

ASSUME ContentsAssumption ==
  \A c \in Contents :
    /\ {"match", "label", "confidence", "newsletter", "priority", "active"} = DOMAIN c
    /\ DOMAIN c.match \subseteq MatchKeys /\ c.label \in Buckets
    /\ c.confidence \in Percents /\ c.priority \in Priorities
    /\ c.newsletter \in BOOLEAN /\ c.active \in BOOLEAN

ASSUME TriageAssumption ==
  /\ MaxRecords \in Nat /\ MaxMoves \in Nat /\ MaxEdits \in Nat /\ MaxCrashes \in Nat
  /\ IsFiniteSet(Workers)
  /\ Nothing \notin Verdicts \cup RubricDecisions

VARIABLES
  rules,   \* rubric_rules rows
  verdict, \* the classifications row
  records, \* classify records on the queue
  work,    \* what each worker holds
  page,    \* what each page's PATCH holds
  editor,  \* what each page's PUT holds
  bounds,  \* bound counters
  choice,  \* history: the bucket the owner chose last
  raced,   \* history: another writer was between its read and its write then
  mail,    \* the email, which never changes
  stale,   \* history: workers whose rules were edited after they were loaded
  reached  \* history: the rules as they are have reached the verdict

vars == <<rules, verdict, records, work, page, editor, bounds, choice, raced, mail, stale, reached>>

Idle == [pc |-> "idle", decision |-> Nothing, payload |-> Nothing, row |-> Nothing]
NoMove == [pc |-> "idle", bucket |-> Nothing, row |-> Nothing, overtaken |-> FALSE]
NoEdit == [rule |-> Nothing, row |-> Nothing]

-----------------------------------------------------------------------------
(* Rows.                                                                    *)

(* The committed row after an UPDATE by a session that read it as read.     *)
Updated(row, read, new) ==
  [f \in DOMAIN row |-> IF new[f] = read[f] THEN row[f] ELSE new[f]]

Verdict(label, source, model, version, newsletter, review) ==
  [label |-> label, source |-> source, model |-> model, version |-> version,
   newsletter |-> newsletter, review |-> review]

UserOverride(bucket) == Verdict(bucket, "rule", "user_override", 0, FALSE, FALSE)
(* Mutant: the label of a rule without one.                                 *)
NeedsReviewLabel == Verdict("needs_review", "model", "", 0, FALSE, TRUE)

NeedsReview == Verdict("ignore", "model", "", 0, FALSE, TRUE)
RuleOnly(d) == Verdict(d.label, "rule", "", d.version, d.newsletter, FALSE)
ByModel(d, label, sure, newsletter) ==
  IF d = Nothing THEN Verdict(label, "model", "llm", 0, newsletter, ~sure)
  ELSE Verdict(label, "hybrid", "llm", d.version, newsletter, ~sure)

(* Mutant: a row that is there is kept.                                     *)
InsertOnly(read, new) == verdict' = IF verdict = Nothing THEN new ELSE verdict

(* The row is inserted unless another session has, updated otherwise.       *)
Conflicts(read) == read = Nothing /\ verdict # Nothing
Upsert(read, new) ==
  verdict' = IF read = Nothing THEN new ELSE Updated(verdict, read, new)

-----------------------------------------------------------------------------
(* A classify record.                                                       *)

At(w, pc) == work[w].pc = pc
Goes(w, pc) == work' = [work EXCEPT ![w].pc = pc]
OnlyWork == UNCHANGED <<rules, verdict, page, editor, bounds, choice, raced, mail, reached>>

Present == {rules[i] : i \in Rules} \ {Nothing}
Sure(d) == d # Nothing /\ d.confidence >= SureEnough
Decisions ==
  LET d == Evaluate(Present, Seeds, mail) IN IF d = {} THEN {Nothing} ELSE d

(* The email is ingested, reclassified, or a record delivered again.        *)
Deliver ==
  /\ bounds.records < MaxRecords
  /\ records' = records + 1
  /\ bounds' = [bounds EXCEPT !.records = @ + 1]
  /\ UNCHANGED <<rules, verdict, work, page, editor, choice, raced, mail, stale, reached>>

(* The rules are loaded before the email is looked at.                      *)
LoadRules(w) ==
  /\ At(w, "idle") /\ records > 0
  /\ records' = records - 1
  /\ \E d \in Decisions :
       work' = [work EXCEPT ![w] = [Idle EXCEPT !.pc = "check", !.decision = d]]
  /\ stale' = stale \ {w}
  /\ OnlyWork

Overridden == verdict # Nothing /\ verdict.model = "user_override"

(* Mutant: a redelivered record classifies again whatever the row says.     *)
CheckNothing(w) ==
  /\ At(w, "check")
  /\ IF Sure(work[w].decision)
     THEN work' = [work EXCEPT ![w].pc = "select", ![w].payload = RuleOnly(work[w].decision)]
     ELSE Goes(w, "model")
  /\ UNCHANGED <<records, stale>> /\ OnlyWork

(* An email the owner has moved keeps its bucket; a rule that is sure       *)
(* decides alone.                                                           *)
CheckOverride(w) ==
  /\ At(w, "check")
  /\ IF Overridden THEN work' = [work EXCEPT ![w] = Idle]
     ELSE IF Sure(work[w].decision)
     THEN work' = [work EXCEPT ![w].pc = "select", ![w].payload = RuleOnly(work[w].decision)]
     ELSE Goes(w, "model")
  /\ UNCHANGED <<records, stale>> /\ OnlyWork

(* Mutant: an exhausted provider chain fails the record.                    *)
AskOnly(w) ==
  /\ At(w, "model")
  /\ \/ \E label \in Buckets, sure \in BOOLEAN :
          work' = [work EXCEPT ![w].pc = "select",
                     ![w].payload = ByModel(work[w].decision, label, sure, FALSE)]
        /\ UNCHANGED records
     \/ work' = [work EXCEPT ![w] = Idle] /\ records' = records + 1
  /\ UNCHANGED stale /\ OnlyWork

(* The model answers, or every provider fails and the row says so.          *)
AskModel(w) ==
  /\ At(w, "model")
  /\ \/ \E label \in Buckets, sure \in BOOLEAN :
          work' = [work EXCEPT ![w].pc = "select",
                     ![w].payload = ByModel(work[w].decision, label, sure, FALSE)]
     \/ work' = [work EXCEPT ![w].pc = "select", ![w].payload = NeedsReview]
  /\ UNCHANGED <<records, stale>> /\ OnlyWork

(* upsert: the row is read, its rationale encrypted ...                     *)
SelectRow(w) ==
  /\ At(w, "select")
  /\ work' = [work EXCEPT ![w].pc = "write", ![w].row = verdict]
  /\ UNCHANGED <<records, stale>> /\ OnlyWork

(* Records that other workers began with rules edited since.                *)
OlderRecords(w) == {v \in Workers \ {w} : ~At(v, "idle") /\ v \in stale}

(* ... and written, up to the record's commit; an INSERT that comes second  *)
(* rolls back and the record is redelivered.                                *)
WriteVerdict(w) ==
  /\ At(w, "write")
  /\ IF Conflicts(work[w].row) THEN records' = records + 1 /\ UNCHANGED <<verdict, page, reached>>
     ELSE /\ Upsert(work[w].row, work[w].payload)
          /\ reached' = /\ work[w].row = verdict
                        /\ reached \/ (w \notin stale /\ OlderRecords(w) = {})
          /\ page' = [p \in Pages |-> IF page[p].pc = "idle" THEN page[p]
                                      ELSE [page[p] EXCEPT !.overtaken = TRUE]]
          /\ UNCHANGED records
  /\ work' = [work EXCEPT ![w] = Idle]
  /\ UNCHANGED <<rules, editor, bounds, choice, raced, mail, stale>>

(* The worker dies, or a database or queue call of its record fails.        *)
Crash(w) ==
  /\ ~At(w, "idle") /\ bounds.crashes < MaxCrashes
  /\ work' = [work EXCEPT ![w] = Idle] /\ records' = records + 1
  /\ bounds' = [bounds EXCEPT !.crashes = @ + 1]
  /\ UNCHANGED <<rules, verdict, page, editor, choice, raced, mail, stale, reached>>

Handle(w) ==
  \/ LoadRules(w) \/ CheckOverride(w) \/ AskModel(w) \/ SelectRow(w) \/ WriteVerdict(w)

-----------------------------------------------------------------------------
(* PATCH /emails/{id}/bucket                                                *)

OnlyPage == UNCHANGED <<rules, records, work, editor, mail, stale>>

(* The first query keeps the row for the whole request.                     *)
LoadOwned(p) ==
  /\ page[p].pc = "idle" /\ bounds.moves < MaxMoves
  /\ \E b \in Buckets :
       page' = [page EXCEPT ![p] = [pc |-> "upsert", bucket |-> b, row |-> verdict,
                                    overtaken |-> FALSE]]
  /\ bounds' = [bounds EXCEPT !.moves = @ + 1]
  /\ UNCHANGED <<verdict, choice, raced, reached>> /\ OnlyPage

(* upsert's own query returns that row, or one inserted since.              *)
SelectOwned(p) ==
  /\ page[p].pc = "upsert"
  /\ page' = [page EXCEPT ![p].pc = "write",
                ![p].row = IF @ = Nothing THEN verdict ELSE @]
  /\ UNCHANGED <<verdict, bounds, choice, raced, reached>> /\ OnlyPage

InFlight == {w \in Workers : work[w].pc \in {"model", "select", "write"}}

(* Written up to the request's commit, or the INSERT comes second: 500.     *)
WriteOverride(p) ==
  /\ page[p].pc = "write"
  /\ IF Conflicts(page[p].row) THEN UNCHANGED <<verdict, choice, raced, reached>>
     ELSE /\ Upsert(page[p].row, UserOverride(page[p].bucket))
          /\ choice' = page[p].bucket
          /\ raced' = (page[p].overtaken \/ InFlight # {})
          /\ reached' = (reached /\ ~page[p].overtaken)
  /\ page' = [q \in Pages |->
                IF q = p THEN NoMove
                ELSE IF page[q].pc = "idle" THEN page[q]
                ELSE [page[q] EXCEPT !.overtaken = TRUE]]
  /\ UNCHANGED bounds /\ OnlyPage

-----------------------------------------------------------------------------
(* /rubric                                                                  *)

OnlyRules == UNCHANGED <<verdict, records, work, page, choice, raced, mail>>

Edits ==
  /\ bounds.edits < MaxEdits
  /\ bounds' = [bounds EXCEPT !.edits = @ + 1]
  /\ stale' = Workers
  /\ reached' = FALSE

Versioned(content, v) ==
  [version |-> v, match |-> content.match, label |-> content.label,
   confidence |-> content.confidence, newsletter |-> content.newsletter,
   priority |-> content.priority, active |-> content.active]

CreateRule ==
  /\ Edits
  /\ \E i \in Rules, c \in Contents :
       rules[i] = Nothing /\ rules' = [rules EXCEPT ![i] = Versioned(c, 1)]
  /\ UNCHANGED editor /\ OnlyRules

LoadRule(q) ==
  /\ editor[q] = NoEdit
  /\ \E i \in Rules :
       rules[i] # Nothing /\ editor' = [editor EXCEPT ![q] = [rule |-> i, row |-> rules[i]]]
  /\ UNCHANGED <<rules, bounds, stale, reached>> /\ OnlyRules

(* The version is counted up from the one that was read.  The UPDATE of a   *)
(* rule deleted since finds no row: 500.                                    *)
UpdateRule(q) ==
  /\ editor[q] # NoEdit
  /\ LET i == editor[q].rule
         read == editor[q].row IN
       IF rules[i] = Nothing THEN UNCHANGED <<rules, bounds, stale, reached>>
       ELSE /\ Edits
            /\ \E c \in Contents :
                 rules' = [rules EXCEPT ![i] =
                             Updated(@, read, Versioned(c, read.version + 1))]
  /\ editor' = [editor EXCEPT ![q] = NoEdit]
  /\ OnlyRules

DeleteRule ==
  /\ Edits
  /\ \E i \in Rules : rules[i] # Nothing /\ rules' = [rules EXCEPT ![i] = Nothing]
  /\ UNCHANGED editor /\ OnlyRules

EditRules == CreateRule \/ DeleteRule \/ \E q \in Editors : LoadRule(q) \/ UpdateRule(q)

-----------------------------------------------------------------------------
Init ==
  /\ rules = [i \in Rules |-> Nothing] /\ verdict = Nothing
  /\ records = 0
  /\ work = [w \in Workers |-> Idle]
  /\ page = [p \in Pages |-> NoMove]
  /\ editor = [q \in Editors |-> NoEdit]
  /\ bounds = [records |-> 0, moves |-> 0, edits |-> 0, crashes |-> 0]
  /\ choice = Nothing /\ raced = FALSE /\ mail \in Mails /\ stale = {} /\ reached = FALSE

Classifies == Deliver \/ \E w \in Workers : Handle(w) \/ Crash(w)
Moves == \E p \in Pages : LoadOwned(p) \/ SelectOwned(p) \/ WriteOverride(p)

Next == Classifies \/ Moves \/ EditRules

Spec == Init /\ [][Next]_vars

(* SQS delivers and Lambda runs what is delivered.                          *)
FairSpec == Spec /\ \A w \in Workers : WF_vars(Handle(w))

-----------------------------------------------------------------------------
(* Properties.                                                              *)

(* Rows and what the sessions hold of them are well typed.  A stored label  *)
(* is one of the three buckets, and every record is on the queue or in a    *)
(* worker's hands at most once.                                             *)
TypeOK ==
  /\ verdict \in Verdicts \cup {Nothing}
  /\ \A w \in Workers : {work[w].row, work[w].payload} \subseteq Verdicts \cup {Nothing}
  /\ records + Cardinality({w \in Workers : ~At(w, "idle")}) <= MaxRecords
  /\ \A i \in Rules : rules[i] # Nothing => rules[i].version \in 1 .. MaxEdits
  /\ choice \in Buckets \cup {Nothing} /\ {raced, reached} \subseteq BOOLEAN /\ mail \in Mails

(* The email stays where its owner moved it (_protected_user_override),     *)
(* through redeliveries, reclassifications and rubric edits, unless another *)
(* session was between its own read and its write when the move was         *)
(* committed.                                                               *)
OverrideHolds ==
  choice # Nothing /\ ~raced =>
    verdict.label = choice /\ verdict.model = "user_override"

(* What the rules and seeds as they are decide of the email: an active rule *)
(* or seed that matches and that no other one outranks by priority, none    *)
(* when nothing matches.                                                    *)
Decides(d) ==
  LET hits == {r \in Present : r.active /\ Matches(r.match, mail)}
      waste == {s \in Seeds : Matches(s, mail)}
      highest(n) == \A r \in hits : r.priority <= n IN
    IF d = Nothing THEN hits = {} /\ waste = {}
    ELSE \/ \E r \in hits :
              /\ d = RuleDecision(r) /\ highest(r.priority)
              /\ waste # {} => r.priority >= WastePriority
         \/ waste # {} /\ d = WasteDecision /\ highest(WastePriority)

Possible == {Nothing, WasteDecision} \cup {RuleDecision(r) : r \in Present}

(* What may be written on a decision: a sure one as it is, else what the    *)
(* model says, or that it said nothing.                                     *)
WrittenOn(d) ==
  IF Sure(d) THEN {RuleOnly(d)}
  ELSE {NeedsReview} \cup {ByModel(d, label, sure, FALSE) : label \in Buckets, sure \in BOOLEAN}

(* The rubric router: an edit is there for the next classify run, within    *)
(* one run.  Once a record that loaded the rules as they are has written    *)
(* its verdict, and no record that loaded older ones was still under way,   *)
(* the email keeps a verdict of these rules or its owner's, through records *)
(* delivered again, crashes, providers that fail and moves, until the next  *)
(* edit.  Left out is a session that wrote over a row changed since it read *)
(* it, for its UPDATE sets some columns only.                               *)
EditsReachVerdict ==
  reached => \/ verdict.model = "user_override"
             \/ \E d \in Possible : Decides(d) /\ verdict \in WrittenOn(d)

(* Known waste senders "are treated as synthetic highest-priority ignore    *)
(* rules" (rubric.py): an email of one is ignored unless its owner moves it.*)
KnownWasteIsIgnored ==
  (\E s \in Seeds : Matches(s, mail)) /\ verdict # Nothing =>
    verdict.label = "ignore" \/ verdict.model = "user_override"

(* Whatever the providers do and whichever writers collide, an email with a *)
(* classify record gets a verdict: an exhausted chain leaves a row flagged  *)
(* for review, and the writer that comes second tries again.                *)
EmailIsTriaged == records > 0 ~> verdict # Nothing

(* "Insert or replace the classifications row" (repository.py, upsert): a   *)
(* write leaves the row one session meant to write.                         *)
VerdictIsOnePayload ==
  [][verdict' # verdict =>
       verdict' \in {work[w].payload : w \in Workers} \cup
                    {UserOverride(page[p].bucket) : p \in {p \in Pages : page[p].pc = "write"}}]_vars
=============================================================================
