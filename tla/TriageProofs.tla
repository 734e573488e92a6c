----------------------------- MODULE TriageProofs -----------------------------
(***************************************************************************)
(* Theorems about the verdict on an email for any rubric, any number of     *)
(* workers and pages, and any number of redeliveries, bucket moves, rubric  *)
(* edits and crashes.                                                       *)
(***************************************************************************)
EXTENDS Triage, FiniteSetTheorems, NaturalFacts, TLAPS

RuleRow ==
  [version : Nat, match : {c.match : c \in Contents}, label : Buckets, confidence : Percents,
   newsletter : BOOLEAN, priority : Priorities, active : BOOLEAN]
VerdictRow == Verdicts \cup {Nothing}
WorkState ==
  [pc : {"idle", "check", "model", "select", "write"},
   decision : RubricDecisions \cup {Nothing}, payload : VerdictRow, row : VerdictRow]
PageState ==
  [pc : {"idle", "upsert", "write"}, bucket : Buckets \cup {Nothing}, row : VerdictRow,
   overtaken : BOOLEAN]
EditState == [rule : Rules, row : RuleRow]
BoundState ==
  [records : 0 .. MaxRecords, moves : 0 .. MaxMoves, edits : 0 .. MaxEdits,
   crashes : 0 .. MaxCrashes]

TypedParts ==
  /\ rules \in [Rules -> RuleRow \cup {Nothing}] /\ verdict \in VerdictRow
  /\ records \in Nat /\ work \in [Workers -> WorkState]
  /\ page \in [Pages -> PageState] /\ editor \in [Editors -> EditState \cup {NoEdit}]
  /\ bounds \in BoundState /\ choice \in Buckets \cup {Nothing} /\ raced \in BOOLEAN

-----------------------------------------------------------------------------
(* The inductive invariants.                                                *)

Busy == {w \in Workers : ~At(w, "idle")}

(* What a session holds: a verdict that is about to be written, and no row  *)
(* but of an email that has one, for a verdict never goes away; a rule no   *)
(* newer than the edits so far.  A record is on the queue or in one         *)
(* worker's hands.                                                          *)
Held ==
  /\ \A w \in Workers :
       /\ work[w].pc \in {"select", "write"} => work[w].payload # Nothing
       /\ work[w].row # Nothing => verdict # Nothing
  /\ \A p \in Pages :
       /\ page[p].pc # "idle" => page[p].bucket \in Buckets
       /\ page[p].row # Nothing => verdict # Nothing
  /\ \A i \in Rules : rules[i] # Nothing => rules[i].version \in 1 .. bounds.edits
  /\ \A q \in Editors : editor[q] # NoEdit => editor[q].row.version \in 1 .. bounds.edits
  /\ records + Cardinality(Busy) <= bounds.records

(* An override nobody raced is the verdict, every classify worker is at or  *)
(* before the check that finds it, and a page that nobody overtook holds    *)
(* the row as it is.                                                        *)
OverrideInv ==
  /\ choice # Nothing /\ ~ raced => InFlight = {} /\ verdict = UserOverride(choice)
  /\ \A p \in Pages : page[p].pc # "idle" /\ ~ page[p].overtaken => page[p].row = verdict

(* The verdict is the owner's, or one that the rules as they are lead to.   *)
Follows(v) ==
  v.model = "user_override" \/ \E d \in Possible : Decides(d) /\ v \in WrittenOn(d)

(* A record in progress holds a decision of the rules it loaded, asks the   *)
(* model only when that is not sure, and will write what it leads to.       *)
Holds(x, fresh) ==
  x.pc # "idle" =>
    /\ fresh => Decides(x.decision)
    /\ x.pc = "model" => ~ Sure(x.decision)
    /\ x.pc \in {"select", "write"} => x.payload \in WrittenOn(x.decision)

(* While the rules are said to have reached the verdict no record with      *)
(* older rules is under way that could write over it.                       *)
CurrentInv ==
  /\ mail \in Mails /\ reached \in BOOLEAN
  /\ \A w \in Workers : Holds(work[w], w \notin stale)
  /\ reached => /\ verdict # Nothing /\ Follows(verdict)
                /\ \A w \in Workers : ~ At(w, "idle") => w \notin stale

-----------------------------------------------------------------------------
(* Operators.                                                               *)

LEMMA Tunables ==
  /\ MaxRecords \in Nat /\ MaxMoves \in Nat /\ MaxEdits \in Nat /\ MaxCrashes \in Nat
  /\ IsFiniteSet(Workers) /\ Nothing \notin Verdicts /\ Nothing \notin RubricDecisions
BY TriageAssumption

(* An UPDATE sets what the session changes and keeps the rest; of a row     *)
(* that is still as it was read it makes exactly the new one.               *)
LEMMA UpdatedType ==
  ASSUME NEW row \in Verdicts, NEW read \in Verdicts, NEW new \in Verdicts
  PROVE  /\ Updated(row, read, new) \in Verdicts
         /\ row = read => Updated(row, read, new) = new
BY ZenonT(30) DEF Updated, Verdicts

LEMMA UpdatedRule ==
  ASSUME NEW row \in RuleRow, NEW read \in RuleRow, NEW new \in RuleRow
  PROVE  /\ Updated(row, read, new) \in RuleRow
         /\ Updated(row, read, new).version \in {row.version, new.version}
BY Zenon DEF Updated, RuleRow

LEMMA VersionedType ==
  ASSUME NEW c \in Contents, NEW v \in Nat
  PROVE  Versioned(c, v) \in RuleRow /\ Versioned(c, v).version = v
<1>1. /\ c.label \in Buckets /\ c.confidence \in Percents /\ c.priority \in Priorities
      /\ c.newsletter \in BOOLEAN /\ c.active \in BOOLEAN /\ c.match \in {d.match : d \in Contents}
  BY ContentsAssumption, Zenon
<1> QED BY <1>1, Zenon DEF Versioned, RuleRow

LEMMA VerdictTypes ==
  /\ NeedsReview \in Verdicts
  /\ \A b \in Buckets : UserOverride(b) \in Verdicts /\ UserOverride(b).label = b
                        /\ UserOverride(b).model = "user_override"
  /\ \A d \in RubricDecisions : RuleOnly(d) \in Verdicts
  /\ \A d \in RubricDecisions \cup {Nothing}, label \in Buckets, sure \in BOOLEAN :
       ByModel(d, label, sure, FALSE) \in Verdicts
<1>0. 0 \in 0 .. MaxEdits
  BY Tunables
<1>n. \A b \in BOOLEAN : (~ b) \in BOOLEAN
  OBVIOUS
<1>1. NeedsReview \in Verdicts
  BY <1>0, Zenon DEF NeedsReview, Verdict, Verdicts, Buckets
<1>2. ASSUME NEW b \in Buckets
      PROVE  UserOverride(b) \in Verdicts /\ UserOverride(b).label = b
             /\ UserOverride(b).model = "user_override"
  BY <1>0, Zenon DEF UserOverride, Verdict, Verdicts
<1>3. ASSUME NEW d \in RubricDecisions PROVE RuleOnly(d) \in Verdicts
  <2>1. d.label \in Buckets /\ d.version \in 0 .. MaxEdits /\ d.newsletter \in BOOLEAN
    BY Zenon DEF RubricDecisions
  <2> QED BY <2>1, Zenon DEF RuleOnly, Verdict, Verdicts
<1>4. ASSUME NEW d \in RubricDecisions \cup {Nothing}, NEW label \in Buckets, NEW sure \in BOOLEAN
      PROVE  ByModel(d, label, sure, FALSE) \in Verdicts
  <2>1. (~ sure) \in BOOLEAN
    BY <1>n
  <2>2. CASE d = Nothing
    <3>1. ByModel(d, label, sure, FALSE) = Verdict(label, "model", "llm", 0, FALSE, ~sure)
      BY <2>2, Zenon DEF ByModel
    <3>2. \A review \in BOOLEAN : Verdict(label, "model", "llm", 0, FALSE, review) \in Verdicts
      BY <1>0, Zenon DEF Verdict, Verdicts
    <3> QED BY <2>1, <3>1, <3>2, Zenon
  <2>3. CASE d # Nothing
    <3>1. d \in RubricDecisions
      BY <2>3
    <3>2. d.version \in 0 .. MaxEdits
      BY <3>1, Zenon DEF RubricDecisions
    <3>3. ByModel(d, label, sure, FALSE) = Verdict(label, "hybrid", "llm", d.version, FALSE, ~sure)
      BY <2>3, Zenon DEF ByModel
    <3>4. \A review \in BOOLEAN :
            Verdict(label, "hybrid", "llm", d.version, FALSE, review) \in Verdicts
      BY <3>2, Zenon DEF Verdict, Verdicts
    <3> QED BY <2>1, <3>3, <3>4, Zenon
  <2> QED BY <2>2, <2>3
<1> QED BY <1>1, <1>2, <1>3, <1>4, Zenon

LEMMA RuleDecisionType ==
  ASSUME NEW r \in RuleRow, r.version \in 0 .. MaxEdits
  PROVE  RuleDecision(r) \in RubricDecisions
<1>1. r.label \in Buckets /\ r.newsletter \in BOOLEAN /\ r.confidence \in Percents
  BY Zenon DEF RuleRow
<1>2. NormalLabel(r.label) = r.label /\ r.label # "newsletter"
  BY <1>1 DEF Buckets, NormalLabel
<1>3. (r.newsletter \/ r.label = "newsletter") \in BOOLEAN
  BY <1>1, <1>2
<1> QED BY <1>1, <1>2, <1>3, Zenon DEF RuleDecision, RubricDecisions

LEMMA WasteDecisionType == WasteDecision \in RubricDecisions
<1>1. 0 \in 0 .. MaxEdits /\ 98 \in Percents /\ "ignore" \in Buckets
  BY Tunables, SMT DEF Percents, Buckets
<1> QED BY <1>1, SMT DEF WasteDecision, RubricDecisions

LEMMA PresentRules ==
  ASSUME TypedParts, Held
  PROVE  \A r \in Present : r \in RuleRow /\ r.version \in 1 .. MaxEdits
<1> SUFFICES ASSUME NEW i \in Rules, rules[i] # Nothing
             PROVE  rules[i] \in RuleRow /\ rules[i].version \in 1 .. MaxEdits
  BY DEF Present
<1>1. rules[i] \in RuleRow
  BY DEF TypedParts
<1>2. rules[i].version \in 1 .. bounds.edits /\ bounds.edits \in 0 .. MaxEdits
  BY DEF Held, TypedParts, BoundState
<1> QED BY <1>1, <1>2, Tunables

LEMMA DecisionsType ==
  ASSUME TypedParts, Held
  PROVE  Decisions \subseteq RubricDecisions \cup {Nothing}
<1>1. \A c \in Candidates(Present, Seeds, mail) : c.decision \in RubricDecisions
  <2>1. ASSUME NEW r \in Present PROVE RuleDecision(r) \in RubricDecisions
    BY <2>1, PresentRules, RuleDecisionType, Tunables
  <2> QED BY <2>1, WasteDecisionType DEF Candidates
<1>2. Evaluate(Present, Seeds, mail) \subseteq RubricDecisions
  BY <1>1 DEF Evaluate
<1> QED BY <1>2 DEF Decisions

-----------------------------------------------------------------------------
(* The engine returns a decision whenever a rule matches.                   *)

LEMMA PriorityBounds ==
  /\ PriorityMax \in Nat /\ WastePriority \in Priorities
  /\ \A p \in Priorities : p \in Nat /\ p <= PriorityMax
<1>1. PriorityMax \in Nat /\ WastePriority \in Nat /\ WastePriority <= PriorityMax
  BY SMT DEF PriorityMax, WastePriority
<1> QED BY <1>1 DEF Priorities

(* One number per candidate that Outranks follows, none above Highest.      *)
Score(c) == 100 * c.priority + LabelRank(c.decision.label)
Highest == 100 * PriorityMax + 100

LEMMA ScoreBounds ==
  ASSUME NEW c, c.priority \in Priorities
  PROVE  /\ Score(c) \in Nat /\ Highest \in Nat /\ Highest - Score(c) \in Nat
         /\ \A o : o.priority \in Priorities /\ Outranks(o, c) => Score(o) > Score(c)
<1>1. \A l : LabelRank(l) \in Nat /\ LabelRank(l) <= 60
  BY SMT DEF LabelRank
<1>2. Score(c) \in Nat /\ Highest \in Nat /\ Highest - Score(c) \in Nat
  <2>1. c.priority \in Nat /\ c.priority <= PriorityMax /\ PriorityMax \in Nat
    BY PriorityBounds
  <2> QED BY <1>1, <2>1, SMT DEF Score, Highest
<1>3. ASSUME NEW o, o.priority \in Priorities, Outranks(o, c) PROVE Score(o) > Score(c)
  <2>1. c.priority \in Nat /\ o.priority \in Nat
    BY <1>3, PriorityBounds
  <2>2. \/ o.priority > c.priority
        \/ o.priority = c.priority /\ LabelRank(o.decision.label) > LabelRank(c.decision.label)
    BY <1>3, Zenon DEF Outranks
  <2> QED BY <1>1, <2>1, <2>2, SMT DEF Score
<1> QED BY <1>2, <1>3, Zenon

LEMMA BestExists ==
  ASSUME TypedParts, Held, Candidates(Present, Seeds, mail) # {}
  PROVE  Evaluate(Present, Seeds, mail) # {}
<1> DEFINE found == Candidates(Present, Seeds, mail)
           ranks == {Highest - Score(c) : c \in found}
<1>1. \A c \in found : c.priority \in Priorities
  <2>1. \A r \in Present : r.priority \in Priorities
    BY PresentRules, Zenon DEF RuleRow
  <2>2. WastePriority \in Priorities
    BY PriorityBounds
  <2> QED BY <2>1, <2>2 DEF Candidates
<1>2. found # {}
  OBVIOUS
<1>3. \A c \in {d \in found : ~\E o \in found : Outranks(o, d)} :
        c.decision \in Evaluate(Present, Seeds, mail)
  BY DEF Evaluate
<1> HIDE DEF found
<1>4. ranks \in SUBSET Nat /\ ranks # {}
  BY <1>1, <1>2, ScoreBounds
<1>5. PICK m \in ranks : \A n \in ranks : m <= n
  BY <1>4, SmallestExists
<1>6. PICK best \in found : m = Highest - Score(best)
  BY <1>5
<1>7. ASSUME NEW o \in found PROVE ~ Outranks(o, best)
  <2>1. Highest - Score(best) <= Highest - Score(o)
    BY <1>5, <1>6
  <2>2. Highest \in Nat /\ Score(o) \in Nat /\ Score(best) \in Nat
    BY <1>1, ScoreBounds
  <2>3. ~ (Score(o) > Score(best))
    BY <2>1, <2>2
  <2> QED BY <1>1, <2>3, ScoreBounds
<1> QED BY <1>3, <1>6, <1>7

(* A decision the engine may return is none, a seed's or a present rule's.  *)
LEMMA DecidesPossible == \A d : Decides(d) => d \in Possible
BY DEF Decides, Possible

LEMMA LoadedDecides ==
  ASSUME TypedParts, Held, NEW d \in Decisions
  PROVE  Decides(d)
<1> DEFINE hits == {r \in Present : r.active /\ Matches(r.match, mail)}
           waste == {s \in Seeds : Matches(s, mail)}
           found == Candidates(Present, Seeds, mail)
           Hit(r) == [priority |-> r.priority, decision |-> RuleDecision(r)]
           Seed == [priority |-> WastePriority, decision |-> WasteDecision]
<1>1. /\ \A r \in hits : Hit(r) \in found
      /\ waste # {} => Seed \in found
      /\ \A c \in found : (c = Seed /\ waste # {}) \/ \E r \in hits : c = Hit(r)
  BY DEF Candidates
<1>2. CASE found = {}
  <2>1. d = Nothing
    BY <1>2 DEF Decisions, Evaluate
  <2>2. hits = {} /\ waste = {}
    BY <1>1, <1>2
  <2> QED BY <2>1, <2>2 DEF Decides
<1>3. CASE found # {}
  <2>1. Evaluate(Present, Seeds, mail) # {}
    BY <1>3, BestExists
  <2>2. d \in Evaluate(Present, Seeds, mail)
    BY <2>1 DEF Decisions
  <2>3. PICK c \in found : d = c.decision /\ ~\E o \in found : Outranks(o, c)
    BY <2>2 DEF Evaluate
  <2>4. d # Nothing
    <3>1. \A r \in Present : RuleDecision(r) \in RubricDecisions
      BY PresentRules, RuleDecisionType, Tunables
    <3>2. d = WasteDecision \/ \E r \in hits : d = RuleDecision(r)
      BY <1>1, <2>3
    <3>3. d \in RubricDecisions
      BY <3>1, <3>2, WasteDecisionType
    <3> QED BY <3>3, Tunables
  <2>5. /\ \A r \in hits : r.priority \in Nat
        /\ WastePriority \in Nat
    <3>1. \A r \in Present : r.priority \in Priorities
      BY PresentRules, Zenon DEF RuleRow
    <3> QED BY <3>1, PriorityBounds
  <2>6. /\ \A r \in hits : ~ (r.priority > c.priority)
        /\ waste # {} => ~ (WastePriority > c.priority)
    <3>1. ASSUME NEW r \in hits PROVE ~ (r.priority > c.priority)
      <4>1. Hit(r) \in found /\ Hit(r).priority = r.priority
        BY <1>1
      <4>2. ~ Outranks(Hit(r), c)
        BY <2>3, <4>1
      <4> QED BY <4>1, <4>2, Zenon DEF Outranks
    <3>2. ASSUME waste # {} PROVE ~ (WastePriority > c.priority)
      <4>1. Seed \in found /\ Seed.priority = WastePriority
        BY <1>1, <3>2
      <4>2. ~ Outranks(Seed, c)
        BY <2>3, <4>1
      <4> QED BY <4>1, <4>2, Zenon DEF Outranks
    <3> QED BY <3>1, <3>2
  <2>7. CASE c = Seed /\ waste # {}
    <3>1. c.priority = WastePriority /\ d = WasteDecision
      BY <2>3, <2>7
    <3>2. \A r \in hits : r.priority <= WastePriority
      BY <2>5, <2>6, <3>1
    <3> QED BY <2>4, <2>7, <3>1, <3>2, Zenon DEF Decides
  <2>8. ASSUME NEW r \in hits, c = Hit(r) PROVE Decides(d)
    <3>1. c.priority = r.priority /\ d = RuleDecision(r)
      BY <2>3, <2>8
    <3>2. /\ \A s \in hits : s.priority <= r.priority
          /\ waste # {} => r.priority >= WastePriority
      BY <2>5, <2>6, <3>1
    <3> QED BY <2>4, <3>1, <3>2, Zenon DEF Decides
  <2> QED BY <1>1, <2>7, <2>8
<1> QED BY <1>2, <1>3

-----------------------------------------------------------------------------
(* Types, and what sessions hold.                                           *)

LEMMA InitTyped == Init => TypedParts /\ Held
<1> SUFFICES ASSUME Init PROVE TypedParts /\ Held
  OBVIOUS
<1>1. /\ Idle \in WorkState /\ NoMove \in PageState
      /\ [records |-> 0, moves |-> 0, edits |-> 0, crashes |-> 0] \in BoundState
  BY Tunables DEF Idle, NoMove, WorkState, PageState, BoundState, VerdictRow
<1>2. TypedParts
  BY <1>1 DEF Init, TypedParts, VerdictRow
<1>3. Busy = {}
  BY DEF Init, Busy, At, Idle
<1>4. Cardinality(Busy) = 0
  BY <1>3, FS_EmptySet
<1>5. records + Cardinality(Busy) <= bounds.records
  BY <1>4 DEF Init
<1> QED BY <1>2, <1>5 DEF Init, Held, Idle, NoMove, NoEdit

(* The records in workers' hands, when one worker takes up, drops or goes   *)
(* on with its own.                                                         *)
LEMMA BusyCount ==
  ASSUME TypedParts, NEW w \in Workers, NEW x \in WorkState, work' = [work EXCEPT ![w] = x]
  PROVE  /\ Cardinality(Busy) \in Nat /\ Cardinality(Busy') \in Nat
         /\ (x.pc = "idle" <=> At(w, "idle")) => Cardinality(Busy') = Cardinality(Busy)
         /\ x.pc # "idle" /\ At(w, "idle") => Cardinality(Busy') = Cardinality(Busy) + 1
         /\ x.pc = "idle" /\ ~ At(w, "idle") => Cardinality(Busy') = Cardinality(Busy) - 1
<1>1. work \in [Workers -> WorkState]
  BY DEF TypedParts
<1>2. IsFiniteSet(Busy) /\ IsFiniteSet(Busy')
  BY Tunables, FS_Subset DEF Busy
<1>3. Cardinality(Busy) \in Nat /\ Cardinality(Busy') \in Nat
  BY <1>2, FS_CardinalityType
<1>4. \A v \in Workers : work'[v].pc = IF v = w THEN x.pc ELSE work[v].pc
  BY <1>1
<1>5. /\ (x.pc = "idle" <=> At(w, "idle")) => Busy' = Busy
      /\ x.pc # "idle" /\ At(w, "idle") => Busy' = Busy \cup {w} /\ w \notin Busy
      /\ x.pc = "idle" /\ ~ At(w, "idle") => Busy' = Busy \ {w} /\ w \in Busy
  BY <1>4 DEF Busy, At
<1>6. Cardinality(Busy \cup {w}) = IF w \in Busy THEN Cardinality(Busy) ELSE Cardinality(Busy) + 1
  BY <1>2, FS_AddElement
<1>7. Cardinality(Busy \ {w}) = IF w \in Busy THEN Cardinality(Busy) - 1 ELSE Cardinality(Busy)
  BY <1>2, FS_RemoveElement
<1> QED BY <1>3, <1>5, <1>6, <1>7

(* A step of one worker, whatever it writes to the row.                     *)
LEMMA WorkerStep ==
  ASSUME TypedParts, Held, NEW w \in Workers, NEW x \in WorkState,
         work' = [work EXCEPT ![w] = x],
         x.pc \in {"select", "write"} => x.payload # Nothing,
         x.row # Nothing => verdict' # Nothing,
         \/ x.pc = "idle" /\ ~ At(w, "idle") /\ records' \in {records, records + 1}
         \/ x.pc # "idle" /\ ~ At(w, "idle") /\ records' = records
         \/ x.pc # "idle" /\ At(w, "idle") /\ records > 0 /\ records' = records - 1,
         verdict' \in VerdictRow, verdict # Nothing => verdict' # Nothing,
         page' \in [Pages -> PageState],
         \A p \in Pages : page'[p].pc = page[p].pc /\ page'[p].bucket = page[p].bucket
                          /\ page'[p].row = page[p].row,
         bounds' \in BoundState,
         bounds'.records = bounds.records /\ bounds'.edits = bounds.edits,
         UNCHANGED <<rules, editor, choice, raced>>
  PROVE  TypedParts' /\ Held'
<1>1. records \in Nat /\ work \in [Workers -> WorkState] /\ bounds.records \in Nat
  BY DEF TypedParts, BoundState
<1>2. records' \in Nat /\ work' \in [Workers -> WorkState]
  BY <1>1
<1>3. TypedParts'
  BY <1>2 DEF TypedParts
<1>4. ASSUME NEW v \in Workers
      PROVE  /\ work'[v].pc \in {"select", "write"} => work'[v].payload # Nothing
             /\ work'[v].row # Nothing => verdict' # Nothing
  <2>1. CASE v = w
    BY <1>1, <2>1
  <2>2. CASE v # w
    <3>1. work'[v] = work[v]
      BY <1>1, <2>2
    <3> QED BY <3>1 DEF Held
  <2> QED BY <2>1, <2>2
<1>5. ASSUME NEW p \in Pages
      PROVE  /\ page'[p].pc # "idle" => page'[p].bucket \in Buckets
             /\ page'[p].row # Nothing => verdict' # Nothing
  BY DEF Held
<1>6. /\ \A i \in Rules : rules'[i] # Nothing => rules'[i].version \in 1 .. bounds'.edits
      /\ \A q \in Editors : editor'[q] # NoEdit => editor'[q].row.version \in 1 .. bounds'.edits
  BY DEF Held
<1>7. records' + Cardinality(Busy') <= bounds'.records
  <2>1. records + Cardinality(Busy) <= bounds.records
    BY DEF Held
  <2>2. /\ Cardinality(Busy) \in Nat /\ Cardinality(Busy') \in Nat
        /\ (x.pc = "idle" <=> At(w, "idle")) => Cardinality(Busy') = Cardinality(Busy)
        /\ x.pc # "idle" /\ At(w, "idle") => Cardinality(Busy') = Cardinality(Busy) + 1
        /\ x.pc = "idle" /\ ~ At(w, "idle") => Cardinality(Busy') = Cardinality(Busy) - 1
    BY BusyCount, Zenon
  <2>3. records' + Cardinality(Busy') <= records + Cardinality(Busy)
    BY <1>1, <2>2
  <2> QED BY <1>1, <1>2, <2>1, <2>2, <2>3
<1> QED BY <1>3, <1>4, <1>5, <1>6, <1>7, Zenon DEF Held

(* The same of a step that leaves the verdict and the pages alone.          *)
LEMMA QuietStep ==
  ASSUME TypedParts, Held, NEW w \in Workers, NEW x \in WorkState,
         work' = [work EXCEPT ![w] = x],
         x.pc \in {"select", "write"} => x.payload # Nothing,
         x.row # Nothing => verdict # Nothing,
         \/ x.pc = "idle" /\ ~ At(w, "idle") /\ records' \in {records, records + 1}
         \/ x.pc # "idle" /\ ~ At(w, "idle") /\ records' = records
         \/ x.pc # "idle" /\ At(w, "idle") /\ records > 0 /\ records' = records - 1,
         OnlyWork
  PROVE  TypedParts' /\ Held'
<1>1. /\ verdict' = verdict /\ page' = page /\ bounds' = bounds
      /\ UNCHANGED <<rules, editor, choice, raced>>
  BY DEF OnlyWork
<1>2. verdict \in VerdictRow /\ page \in [Pages -> PageState] /\ bounds \in BoundState
  BY DEF TypedParts
<1> QED BY <1>1, <1>2, WorkerStep

LEMMA ClassifyTyped ==
  ASSUME TypedParts, Held, NEW w \in Workers, Handle(w) \/ Crash(w)
  PROVE  TypedParts' /\ Held'
<1>1. /\ work \in [Workers -> WorkState] /\ work[w] \in WorkState /\ verdict \in VerdictRow
      /\ page \in [Pages -> PageState] /\ bounds \in BoundState
  BY DEF TypedParts
<1>2. Idle \in WorkState /\ Idle.pc = "idle" /\ Idle.row = Nothing
  BY DEF Idle, WorkState, VerdictRow
<1>3. CASE LoadRules(w)
  <2>1. PICK d \in Decisions : work' = [work EXCEPT ![w] = [Idle EXCEPT !.pc = "check", !.decision = d]]
    BY <1>3, Zenon DEF LoadRules
  <2>2. d \in RubricDecisions \cup {Nothing}
    BY DecisionsType
  <2> DEFINE x == [Idle EXCEPT !.pc = "check", !.decision = d]
  <2>3. x \in WorkState /\ x.pc = "check" /\ x.row = Nothing
    BY <2>2 DEF Idle, WorkState, VerdictRow
  <2>4. work' = [work EXCEPT ![w] = x]
    BY <2>1
  <2>5. At(w, "idle") /\ records > 0 /\ records' = records - 1 /\ OnlyWork
    BY <1>3 DEF LoadRules
  <2>6. /\ x.pc \in {"select", "write"} => x.payload # Nothing
        /\ x.row # Nothing => verdict # Nothing
        /\ x.pc # "idle"
    BY <2>3
  <2> HIDE DEF x
  <2> QED BY <2>3, <2>4, <2>5, <2>6, QuietStep, Zenon
<1>4. CASE CheckOverride(w)
  <2>1. At(w, "check") /\ ~ At(w, "idle") /\ records' = records /\ OnlyWork
    BY <1>4 DEF CheckOverride, At
  <2>2. CASE Overridden
    <3>1. work' = [work EXCEPT ![w] = Idle]
      BY <1>4, <2>2 DEF CheckOverride
    <3> QED BY <1>2, <2>1, <3>1, QuietStep
  <2>3. CASE ~ Overridden /\ Sure(work[w].decision)
    <3> DEFINE x == [work[w] EXCEPT !.pc = "select", !.payload = RuleOnly(work[w].decision)]
    <3>1. work[w].decision \in RubricDecisions
      BY <1>1, <2>3 DEF Sure, WorkState
    <3>2. RuleOnly(work[w].decision) \in Verdicts
      BY <3>1, VerdictTypes
    <3>3. /\ x \in WorkState /\ x.pc = "select" /\ x.payload \in Verdicts
          /\ x.row = work[w].row
      BY <1>1, <3>2 DEF WorkState, VerdictRow
    <3>4. work' = [work EXCEPT ![w] = x]
      BY <1>1, <1>4, <2>3 DEF CheckOverride
    <3>5. x.row # Nothing => verdict # Nothing
      BY <3>3 DEF Held
    <3> HIDE DEF x
    <3> QED BY <2>1, <3>3, <3>4, <3>5, Tunables, QuietStep
  <2>4. CASE ~ Overridden /\ ~ Sure(work[w].decision)
    <3> DEFINE x == [work[w] EXCEPT !.pc = "model"]
    <3>1. x \in WorkState /\ x.pc = "model" /\ x.row = work[w].row
      BY <1>1 DEF WorkState
    <3>2. work' = [work EXCEPT ![w] = x]
      BY <1>1, <1>4, <2>4 DEF CheckOverride, Goes
    <3>3. x.row # Nothing => verdict # Nothing
      BY <3>1 DEF Held
    <3> HIDE DEF x
    <3> QED BY <2>1, <3>1, <3>2, <3>3, QuietStep
  <2> QED BY <2>2, <2>3, <2>4
<1>5. CASE AskModel(w)
  <2>1. At(w, "model") /\ ~ At(w, "idle") /\ records' = records /\ OnlyWork
    BY <1>5 DEF AskModel, At
  <2>2. PICK answer \in Verdicts : work' = [work EXCEPT ![w].pc = "select", ![w].payload = answer]
    <3>1. work[w].decision \in RubricDecisions \cup {Nothing}
      BY <1>1 DEF WorkState
    <3>2. \A label \in Buckets, sure \in BOOLEAN : ByModel(work[w].decision, label, sure, FALSE) \in Verdicts
      BY <3>1, VerdictTypes, Zenon
    <3>3. NeedsReview \in Verdicts
      BY VerdictTypes
    <3>4. \/ \E label \in Buckets, sure \in BOOLEAN :
               work' = [work EXCEPT ![w].pc = "select",
                          ![w].payload = ByModel(work[w].decision, label, sure, FALSE)]
          \/ work' = [work EXCEPT ![w].pc = "select", ![w].payload = NeedsReview]
      BY <1>5, Zenon DEF AskModel
    <3> QED BY <3>2, <3>3, <3>4, Zenon
  <2> DEFINE x == [work[w] EXCEPT !.pc = "select", !.payload = answer]
  <2>3. /\ x \in WorkState /\ x.pc = "select" /\ x.payload = answer
        /\ x.row = work[w].row
    BY <1>1 DEF WorkState, VerdictRow
  <2>4. work' = [work EXCEPT ![w] = x]
    BY <1>1, <2>2
  <2>5. x.row # Nothing => verdict # Nothing
    BY <2>3 DEF Held
  <2> HIDE DEF x
  <2> QED BY <2>1, <2>3, <2>4, <2>5, Tunables, QuietStep
<1>6. CASE SelectRow(w)
  <2> DEFINE x == [work[w] EXCEPT !.pc = "write", !.row = verdict]
  <2>1. At(w, "select") /\ ~ At(w, "idle") /\ records' = records /\ OnlyWork
    BY <1>6 DEF SelectRow, At
  <2>2. /\ x \in WorkState /\ x.pc = "write" /\ x.payload = work[w].payload
        /\ x.row = verdict
    BY <1>1 DEF WorkState, VerdictRow
  <2>3. work' = [work EXCEPT ![w] = x]
    BY <1>1, <1>6 DEF SelectRow
  <2>4. x.payload # Nothing
    BY <2>1, <2>2 DEF Held, At
  <2> HIDE DEF x
  <2> QED BY <2>1, <2>2, <2>3, <2>4, QuietStep
<1>7. CASE WriteVerdict(w)
  <2>1. /\ At(w, "write") /\ ~ At(w, "idle") /\ work' = [work EXCEPT ![w] = Idle]
        /\ UNCHANGED <<rules, editor, bounds, choice, raced>>
    BY <1>7 DEF WriteVerdict, At
  <2>2. bounds' \in BoundState /\ bounds'.records = bounds.records /\ bounds'.edits = bounds.edits
    BY <1>1, <2>1
  <2>3. CASE Conflicts(work[w].row)
    <3>1. verdict' = verdict /\ page' = page /\ records' = records + 1
      BY <1>7, <2>3 DEF WriteVerdict
    <3> QED BY <1>1, <1>2, <2>1, <2>2, <3>1, WorkerStep
  <2>4. CASE ~ Conflicts(work[w].row)
    <3>1. /\ Upsert(work[w].row, work[w].payload) /\ records' = records
          /\ page' = [p \in Pages |-> IF page[p].pc = "idle" THEN page[p]
                                      ELSE [page[p] EXCEPT !.overtaken = TRUE]]
      BY <1>7, <2>4 DEF WriteVerdict
    <3>2. work[w].payload \in Verdicts /\ work[w].row \in VerdictRow
      BY <1>1, <2>1 DEF Held, At, WorkState, VerdictRow
    <3>3. verdict' \in Verdicts
      <4>1. CASE work[w].row = Nothing
        BY <3>1, <3>2, <4>1 DEF Upsert
      <4>2. CASE work[w].row # Nothing
        <5>1. verdict \in Verdicts /\ work[w].row \in Verdicts
          BY <1>1, <3>2, <4>2 DEF Held, VerdictRow
        <5>2. verdict' = Updated(verdict, work[w].row, work[w].payload)
          BY <3>1, <4>2 DEF Upsert
        <5> QED BY <3>2, <5>1, <5>2, UpdatedType
      <4> QED BY <4>1, <4>2
    <3>4. page' \in [Pages -> PageState]
      <4>1. \A p \in Pages : page[p] \in PageState /\ [page[p] EXCEPT !.overtaken = TRUE] \in PageState
        BY <1>1 DEF PageState
      <4> QED BY <3>1, <4>1
    <3>5. \A p \in Pages : page'[p].pc = page[p].pc /\ page'[p].bucket = page[p].bucket
                           /\ page'[p].row = page[p].row
      <4>1. \A p \in Pages : page[p] \in PageState
        BY <1>1
      <4> QED BY <3>1, <4>1 DEF PageState
    <3>6. verdict' \in VerdictRow /\ verdict' # Nothing
      BY <3>3, Tunables DEF VerdictRow
    <3> QED BY <1>2, <2>1, <2>2, <3>1, <3>4, <3>5, <3>6, WorkerStep
  <2> QED BY <2>3, <2>4
<1>8. CASE Crash(w)
  <2>1. /\ ~ At(w, "idle") /\ work' = [work EXCEPT ![w] = Idle] /\ records' = records + 1
        /\ bounds.crashes < MaxCrashes /\ bounds' = [bounds EXCEPT !.crashes = @ + 1]
        /\ verdict' = verdict /\ page' = page /\ UNCHANGED <<rules, editor, choice, raced>>
    BY <1>8 DEF Crash
  <2>2. bounds' \in BoundState /\ bounds'.records = bounds.records /\ bounds'.edits = bounds.edits
    BY <1>1, <2>1, Tunables DEF BoundState
  <2> QED BY <1>1, <1>2, <2>1, <2>2, WorkerStep
<1> QED BY <1>3, <1>4, <1>5, <1>6, <1>7, <1>8 DEF Handle

LEMMA MoveTyped ==
  ASSUME TypedParts, Held, NEW p \in Pages, LoadOwned(p) \/ SelectOwned(p) \/ WriteOverride(p)
  PROVE  TypedParts' /\ Held'
<1>1. /\ page \in [Pages -> PageState] /\ page[p] \in PageState /\ verdict \in VerdictRow
      /\ bounds \in BoundState
  BY DEF TypedParts
<1>2. UNCHANGED <<rules, records, work, editor>> /\ Busy' = Busy
  BY DEF LoadOwned, SelectOwned, WriteOverride, OnlyPage, Busy, At
<1>3. SUFFICES /\ page' \in [Pages -> PageState] /\ bounds' \in BoundState
               /\ bounds'.records = bounds.records /\ bounds'.edits = bounds.edits
               /\ verdict' \in VerdictRow /\ (verdict # Nothing => verdict' # Nothing)
               /\ choice' \in Buckets \cup {Nothing} /\ raced' \in BOOLEAN
               /\ \A q \in Pages : /\ page'[q].pc # "idle" => page'[q].bucket \in Buckets
                                   /\ page'[q].row # Nothing => verdict' # Nothing
  <2>1. TypedParts'
    BY <1>2, <1>3, Zenon DEF TypedParts
  <2>2. Cardinality(Busy') = Cardinality(Busy)
    BY <1>2
  <2>3. records' + Cardinality(Busy') <= bounds'.records
    BY <1>2, <1>3, <2>2 DEF Held
  <2>4. /\ \A w \in Workers : /\ work'[w].pc \in {"select", "write"} => work'[w].payload # Nothing
                              /\ work'[w].row # Nothing => verdict' # Nothing
        /\ \A i \in Rules : rules'[i] # Nothing => rules'[i].version \in 1 .. bounds'.edits
        /\ \A q \in Editors : editor'[q] # NoEdit => editor'[q].row.version \in 1 .. bounds'.edits
    BY <1>2, <1>3, Zenon DEF Held
  <2> QED BY <1>3, <2>1, <2>3, <2>4, Zenon DEF Held
<1>4. CASE LoadOwned(p)
  <2>1. PICK b \in Buckets :
          page' = [page EXCEPT ![p] = [pc |-> "upsert", bucket |-> b, row |-> verdict,
                                       overtaken |-> FALSE]]
    BY <1>4, Zenon DEF LoadOwned
  <2>2. /\ bounds.moves < MaxMoves /\ bounds' = [bounds EXCEPT !.moves = @ + 1]
        /\ verdict' = verdict /\ choice' = choice /\ raced' = raced
    BY <1>4 DEF LoadOwned
  <2>3. [pc |-> "upsert", bucket |-> b, row |-> verdict, overtaken |-> FALSE] \in PageState
    BY <1>1, Zenon DEF PageState
  <2>4. page' \in [Pages -> PageState]
    BY <1>1, <2>1, <2>3, Zenon
  <2>5. bounds' \in BoundState /\ bounds'.records = bounds.records /\ bounds'.edits = bounds.edits
    BY <1>1, <2>2, Tunables DEF BoundState
  <2>6. ASSUME NEW q \in Pages
        PROVE  /\ page'[q].pc # "idle" => page'[q].bucket \in Buckets
               /\ page'[q].row # Nothing => verdict' # Nothing
    <3>1. CASE q = p
      BY <1>1, <2>1, <2>2, <3>1
    <3>2. CASE q # p
      <4>1. page'[q] = page[q]
        BY <1>1, <2>1, <3>2, Zenon
      <4> QED BY <2>2, <4>1 DEF Held
    <3> QED BY <3>1, <3>2
  <2> QED BY <1>1, <2>2, <2>4, <2>5, <2>6 DEF TypedParts
<1>5. CASE SelectOwned(p)
  <2> DEFINE x == [page[p] EXCEPT !.pc = "write",
                     !.row = IF page[p].row = Nothing THEN verdict ELSE page[p].row]
  <2>1. /\ page[p].pc = "upsert"
        /\ bounds' = bounds /\ verdict' = verdict /\ choice' = choice /\ raced' = raced
    BY <1>5 DEF SelectOwned
  <2>2. page' = [page EXCEPT ![p] = x]
    BY <1>1, <1>5 DEF SelectOwned
  <2>3. /\ x \in PageState /\ x.bucket = page[p].bucket
        /\ x.row = IF page[p].row = Nothing THEN verdict ELSE page[p].row
    BY <1>1 DEF PageState
  <2> HIDE DEF x
  <2>4. page' \in [Pages -> PageState]
    BY <1>1, <2>2, <2>3
  <2>5. page[p].bucket \in Buckets
    BY <2>1 DEF Held
  <2>6. ASSUME NEW q \in Pages
        PROVE  /\ page'[q].pc # "idle" => page'[q].bucket \in Buckets
               /\ page'[q].row # Nothing => verdict' # Nothing
    <3>1. CASE q = p
      <4>1. page'[q] = x
        BY <1>1, <2>2, <3>1
      <4> QED BY <2>1, <2>3, <2>5, <4>1 DEF Held
    <3>2. CASE q # p
      <4>1. page'[q] = page[q]
        BY <1>1, <2>2, <3>2
      <4> QED BY <2>1, <4>1 DEF Held
    <3> QED BY <3>1, <3>2
  <2> QED BY <1>1, <2>1, <2>4, <2>6 DEF TypedParts
<1>6. CASE WriteOverride(p)
  <2>1. /\ page[p].pc = "write" /\ bounds' = bounds
        /\ page' = [q \in Pages |->
                      IF q = p THEN NoMove
                      ELSE IF page[q].pc = "idle" THEN page[q]
                      ELSE [page[q] EXCEPT !.overtaken = TRUE]]
    BY <1>6 DEF WriteOverride
  <2>2. ASSUME NEW q \in Pages
        PROVE  /\ page'[q] \in PageState
               /\ page'[q].pc # "idle" => page'[q].bucket \in Buckets
               /\ page'[q].row # Nothing => verdict # Nothing
    <3>1. page[q] \in PageState
      BY <1>1
    <3>2. CASE q = p
      BY <2>1, <3>2 DEF NoMove, PageState, VerdictRow
    <3>3. CASE q # p /\ page[q].pc = "idle"
      <4>1. page'[q] = page[q]
        BY <2>1, <3>3
      <4> QED BY <3>1, <4>1 DEF Held
    <3>4. CASE q # p /\ page[q].pc # "idle"
      <4>1. page'[q] = [page[q] EXCEPT !.overtaken = TRUE]
        BY <2>1, <3>4
      <4>2. /\ page'[q] \in PageState /\ page'[q].bucket = page[q].bucket
            /\ page'[q].row = page[q].row
        BY <3>1, <4>1 DEF PageState
      <4> QED BY <3>4, <4>2 DEF Held
    <3> QED BY <3>2, <3>3, <3>4
  <2>3. page' \in [Pages -> PageState]
    BY <2>1, <2>2
  <2>4. CASE Conflicts(page[p].row)
    <3>1. verdict' = verdict /\ choice' = choice /\ raced' = raced
      BY <1>6, <2>4 DEF WriteOverride
    <3> QED BY <1>1, <2>1, <2>2, <2>3, <3>1 DEF TypedParts
  <2>5. CASE ~ Conflicts(page[p].row)
    <3>1. /\ Upsert(page[p].row, UserOverride(page[p].bucket))
          /\ choice' = page[p].bucket /\ raced' = (page[p].overtaken \/ InFlight # {})
      BY <1>6, <2>5, Zenon DEF WriteOverride
    <3>2. page[p].bucket \in Buckets /\ page[p].row \in VerdictRow
      BY <1>1, <2>1 DEF Held, PageState
    <3>3. UserOverride(page[p].bucket) \in Verdicts
      BY <3>2, VerdictTypes
    <3>4. verdict' \in Verdicts
      <4>1. CASE page[p].row = Nothing
        BY <3>1, <3>3, <4>1 DEF Upsert
      <4>2. CASE page[p].row # Nothing
        <5>1. verdict \in Verdicts /\ page[p].row \in Verdicts
          BY <1>1, <3>2, <4>2 DEF Held, VerdictRow
        <5>2. verdict' = Updated(verdict, page[p].row, UserOverride(page[p].bucket))
          BY <3>1, <4>2 DEF Upsert
        <5> QED BY <3>3, <5>1, <5>2, UpdatedType
      <4> QED BY <4>1, <4>2
    <3>5. verdict' \in VerdictRow /\ verdict' # Nothing
      BY <3>4, Tunables DEF VerdictRow
    <3>6. raced' \in BOOLEAN
      <4>1. page[p].overtaken \in BOOLEAN
        BY <1>1 DEF PageState
      <4> QED BY <3>1, <4>1, Zenon
    <3> QED BY <1>1, <2>1, <2>2, <2>3, <3>1, <3>2, <3>5, <3>6
  <2> QED BY <2>4, <2>5
<1> QED BY <1>4, <1>5, <1>6

(* A rubric edit leaves the verdict, the workers and the pages alone.       *)
LEMMA EditTyped ==
  ASSUME TypedParts, Held, EditRules
  PROVE  TypedParts' /\ Held'
<1>1. /\ rules \in [Rules -> RuleRow \cup {Nothing}] /\ bounds \in BoundState
      /\ editor \in [Editors -> EditState \cup {NoEdit}]
  BY DEF TypedParts
<1>2. UNCHANGED <<verdict, records, work, page, choice, raced>> /\ Busy' = Busy
  BY DEF EditRules, CreateRule, DeleteRule, LoadRule, UpdateRule, OnlyRules, Busy, At
<1> DEFINE Kept ==
             /\ rules' \in [Rules -> RuleRow \cup {Nothing}]
             /\ editor' \in [Editors -> EditState \cup {NoEdit}]
             /\ bounds' \in BoundState /\ bounds'.records = bounds.records
             /\ \A i \in Rules : rules'[i] # Nothing => rules'[i].version \in 1 .. bounds'.edits
             /\ \A q \in Editors :
                  editor'[q] # NoEdit => editor'[q].row.version \in 1 .. bounds'.edits
<1>3. SUFFICES Kept
  <2>1. TypedParts'
    BY <1>2, <1>3, Zenon DEF TypedParts
  <2>2. Cardinality(Busy') = Cardinality(Busy)
    BY <1>2
  <2>3. records' + Cardinality(Busy') <= bounds'.records
    BY <1>2, <1>3, <2>2 DEF Held
  <2>4. /\ \A w \in Workers : /\ work'[w].pc \in {"select", "write"} => work'[w].payload # Nothing
                              /\ work'[w].row # Nothing => verdict' # Nothing
        /\ \A p \in Pages : /\ page'[p].pc # "idle" => page'[p].bucket \in Buckets
                            /\ page'[p].row # Nothing => verdict' # Nothing
    BY <1>2, Zenon DEF Held
  <2> QED BY <1>3, <2>1, <2>3, <2>4, Zenon DEF Held
<1>4. ASSUME Edits
      PROVE  /\ bounds' \in BoundState /\ bounds'.records = bounds.records
             /\ bounds.edits \in Nat /\ bounds'.edits = bounds.edits + 1
             /\ \A v \in 1 .. bounds.edits : v \in 1 .. bounds'.edits /\ v + 1 \in 1 .. bounds'.edits
             /\ 1 \in 1 .. bounds'.edits
  <2>1. /\ bounds.edits \in 0 .. MaxEdits /\ bounds.edits < MaxEdits
        /\ bounds' = [bounds EXCEPT !.edits = @ + 1]
    BY <1>1, <1>4 DEF Edits, BoundState
  <2>2. bounds' \in BoundState /\ bounds'.records = bounds.records /\ bounds'.edits = bounds.edits + 1
    BY <1>1, <2>1, Tunables DEF BoundState
  <2> QED BY <2>1, <2>2
<1>5. /\ \A i \in Rules : rules[i] # Nothing => rules[i].version \in 1 .. bounds.edits
      /\ \A q \in Editors : editor[q] # NoEdit => editor[q].row.version \in 1 .. bounds.edits
  BY DEF Held
<1>6. CASE CreateRule
  <2>1. Edits /\ editor' = editor
    BY <1>6 DEF CreateRule
  <2>2. PICK i \in Rules, c \in Contents : rules' = [rules EXCEPT ![i] = Versioned(c, 1)]
    BY <1>6, Zenon DEF CreateRule
  <2>3. Versioned(c, 1) \in RuleRow /\ Versioned(c, 1).version = 1
    BY VersionedType
  <2>4. rules' \in [Rules -> RuleRow \cup {Nothing}]
    BY <1>1, <2>2, <2>3
  <2>5. \A j \in Rules : rules'[j] # Nothing => rules'[j].version \in 1 .. bounds'.edits
    BY <1>1, <1>4, <1>5, <2>1, <2>2, <2>3
  <2>6. \A q \in Editors : editor'[q] # NoEdit => editor'[q].row.version \in 1 .. bounds'.edits
    BY <1>4, <1>5, <2>1
  <2> QED BY <1>1, <1>4, <2>1, <2>4, <2>5, <2>6
<1>7. CASE DeleteRule
  <2>1. Edits /\ editor' = editor
    BY <1>7 DEF DeleteRule
  <2>2. PICK i \in Rules : rules' = [rules EXCEPT ![i] = Nothing]
    BY <1>7, Zenon DEF DeleteRule
  <2>4. rules' \in [Rules -> RuleRow \cup {Nothing}]
    BY <1>1, <2>2
  <2>5. \A j \in Rules : rules'[j] # Nothing => rules'[j].version \in 1 .. bounds'.edits
    BY <1>1, <1>4, <1>5, <2>1, <2>2
  <2>6. \A q \in Editors : editor'[q] # NoEdit => editor'[q].row.version \in 1 .. bounds'.edits
    BY <1>4, <1>5, <2>1
  <2> QED BY <1>1, <1>4, <2>1, <2>4, <2>5, <2>6
<1>8. ASSUME NEW e \in Editors, LoadRule(e) PROVE Kept
  <2>1. PICK i \in Rules :
          rules[i] # Nothing /\ editor' = [editor EXCEPT ![e] = [rule |-> i, row |-> rules[i]]]
    BY <1>8, Zenon DEF LoadRule
  <2>2. rules' = rules /\ bounds' = bounds
    BY <1>8 DEF LoadRule
  <2>3. rules[i] \in RuleRow /\ [rule |-> i, row |-> rules[i]] \in EditState
    BY <1>1, <2>1 DEF EditState
  <2>4. editor' \in [Editors -> EditState \cup {NoEdit}]
    BY <1>1, <2>1, <2>3
  <2>5. \A q \in Editors : editor'[q] # NoEdit => editor'[q].row.version \in 1 .. bounds'.edits
    BY <1>1, <1>5, <2>1, <2>2
  <2> QED BY <1>1, <1>5, <2>2, <2>4, <2>5
<1>9. ASSUME NEW e \in Editors, UpdateRule(e) PROVE Kept
  <2> DEFINE i == editor[e].rule
             read == editor[e].row
  <2>1. editor[e] \in EditState /\ editor[e] # NoEdit /\ editor' = [editor EXCEPT ![e] = NoEdit]
    BY <1>1, <1>9 DEF UpdateRule
  <2>2. i \in Rules /\ read \in RuleRow /\ read.version \in 1 .. bounds.edits
    BY <1>5, <2>1 DEF EditState
  <2>3. editor' \in [Editors -> EditState \cup {NoEdit}]
    BY <1>1, <2>1
  <2>4. \A q \in Editors : editor'[q] # NoEdit => editor[q] # NoEdit /\ editor'[q] = editor[q]
    BY <1>1, <2>1
  <2>5. CASE rules[i] = Nothing
    <3>1. rules' = rules /\ bounds' = bounds
      BY <1>9, <2>5 DEF UpdateRule
    <3>2. \A q \in Editors : editor'[q] # NoEdit => editor'[q].row.version \in 1 .. bounds'.edits
      BY <1>5, <2>4, <3>1
    <3> QED BY <1>1, <1>5, <2>3, <3>1, <3>2
  <2>6. CASE rules[i] # Nothing
    <3>1. Edits
      BY <1>9, <2>6 DEF UpdateRule
    <3>2. PICK c \in Contents :
            rules' = [rules EXCEPT ![i] = Updated(rules[i], read, Versioned(c, read.version + 1))]
      <4>1. \E c \in Contents :
              rules' = [rules EXCEPT ![i] = Updated(@, read, Versioned(c, read.version + 1))]
        BY <1>9, <2>6, Zenon DEF UpdateRule
      <4> QED BY <4>1, Zenon
    <3> DEFINE next == Updated(rules[i], read, Versioned(c, read.version + 1))
    <3>3. read.version \in Nat /\ rules[i] \in RuleRow
      BY <1>1, <2>2, <2>6 DEF RuleRow
    <3>4. /\ Versioned(c, read.version + 1) \in RuleRow
          /\ Versioned(c, read.version + 1).version = read.version + 1
      BY <3>3, VersionedType
    <3>5. next \in RuleRow /\ next.version \in {rules[i].version, read.version + 1}
      <4>1. next.version \in {rules[i].version, Versioned(c, read.version + 1).version}
        BY <2>2, <3>3, <3>4, UpdatedRule
      <4> QED BY <2>2, <3>3, <3>4, <4>1, UpdatedRule
    <3>6. rules' = [rules EXCEPT ![i] = next]
      BY <3>2
    <3> HIDE DEF i, read, next
    <3>7. rules' \in [Rules -> RuleRow \cup {Nothing}]
      BY <1>1, <3>5, <3>6
    <3>8. next.version \in 1 .. bounds'.edits
      BY <1>4, <1>5, <2>2, <2>6, <3>1, <3>5
    <3>9. \A j \in Rules : rules'[j] # Nothing => rules'[j].version \in 1 .. bounds'.edits
      BY <1>1, <1>4, <1>5, <3>1, <3>6, <3>8
    <3>10. \A q \in Editors : editor'[q] # NoEdit => editor'[q].row.version \in 1 .. bounds'.edits
      BY <1>4, <1>5, <2>4, <3>1
    <3> QED BY <1>4, <2>3, <3>1, <3>7, <3>9, <3>10
  <2> QED BY <2>5, <2>6
<1> QED BY <1>6, <1>7, <1>8, <1>9 DEF EditRules

LEMMA TypedStep == TypedParts /\ Held /\ [Next]_vars => TypedParts' /\ Held'
<1> SUFFICES ASSUME TypedParts, Held, [Next]_vars PROVE TypedParts' /\ Held'
  OBVIOUS
<1>1. CASE Deliver
  <2>1. /\ bounds.records < MaxRecords /\ records' = records + 1
        /\ bounds' = [bounds EXCEPT !.records = @ + 1]
        /\ UNCHANGED <<rules, verdict, work, page, editor, choice, raced>> /\ Busy' = Busy
    BY <1>1 DEF Deliver, Busy, At
  <2>2. bounds \in BoundState /\ records \in Nat
    BY DEF TypedParts
  <2>3. /\ bounds' \in BoundState /\ bounds'.edits = bounds.edits
        /\ bounds'.records = bounds.records + 1 /\ bounds.records \in Nat
    BY <2>1, <2>2, Tunables DEF BoundState
  <2>4. TypedParts'
    BY <2>1, <2>2, <2>3 DEF TypedParts
  <2>5. Cardinality(Busy) \in Nat /\ Cardinality(Busy') = Cardinality(Busy)
    BY <2>1, Tunables, FS_Subset, FS_CardinalityType DEF Busy
  <2>6. records' + Cardinality(Busy') <= bounds'.records
    BY <2>1, <2>2, <2>3, <2>5 DEF Held
  <2> QED BY <2>1, <2>3, <2>4, <2>6 DEF Held
<1>2. ASSUME NEW w \in Workers, Handle(w) \/ Crash(w) PROVE TypedParts' /\ Held'
  BY <1>2, ClassifyTyped
<1>3. CASE Moves
  BY <1>3, MoveTyped DEF Moves
<1>4. CASE EditRules
  BY <1>4, EditTyped
<1>5. CASE UNCHANGED vars
  <2>1. Busy' = Busy
    BY <1>5 DEF Busy, At, vars
  <2>2. TypedParts'
    BY <1>5 DEF TypedParts, vars
  <2>3. Cardinality(Busy') = Cardinality(Busy)
    BY <2>1
  <2> QED BY <1>5, <2>2, <2>3 DEF Held, vars
<1> QED BY <1>1, <1>2, <1>3, <1>4, <1>5 DEF Next, Classifies

-----------------------------------------------------------------------------
(* The owner's bucket.                                                      *)

LEMMA InitOverride == Init => OverrideInv
BY DEF Init, OverrideInv, NoMove

LEMMA OverrideStep ==
  ASSUME TypedParts, Held, OverrideInv, [Next]_vars
  PROVE  OverrideInv'
<1>1. /\ work \in [Workers -> WorkState] /\ page \in [Pages -> PageState]
      /\ verdict \in VerdictRow /\ choice \in Buckets \cup {Nothing}
  BY DEF TypedParts
<1> DEFINE Stands == choice # Nothing /\ ~ raced
<1>2. Stands => InFlight = {} /\ verdict = UserOverride(choice)
  BY DEF OverrideInv
<1>3. Stands => Overridden
  <2>1. ASSUME Stands PROVE Overridden
    <3>1. verdict = UserOverride(choice) /\ choice \in Buckets
      BY <1>1, <1>2, <2>1
    <3>2. verdict \in Verdicts /\ verdict.model = "user_override"
      BY <3>1, VerdictTypes
    <3> QED BY <3>2, Tunables DEF Overridden
  <2> QED BY <2>1
<1>4. ASSUME UNCHANGED <<verdict, page, choice, raced>>, Stands => InFlight' = {}
      PROVE  OverrideInv'
  <2>1. Stands' => InFlight' = {} /\ verdict' = UserOverride(choice')
    BY <1>2, <1>4
  <2>2. \A p \in Pages : page'[p].pc # "idle" /\ ~ page'[p].overtaken => page'[p].row = verdict'
    BY <1>4 DEF OverrideInv
  <2> QED BY <2>1, <2>2 DEF OverrideInv
<1>5. ASSUME NEW w \in Workers, NEW x, work' = [work EXCEPT ![w] = x],
             x.pc \in {"idle", "check"} \/ w \in InFlight
      PROVE  Stands => InFlight' = {}
  <2>1. \A v \in Workers : work'[v].pc = IF v = w THEN x.pc ELSE work[v].pc
    BY <1>1, <1>5
  <2> QED BY <1>2, <1>5, <2>1 DEF InFlight
<1>6. ASSUME NEW w \in Workers, Handle(w) \/ Crash(w)
      PROVE  OverrideInv'
  <2>1. CASE LoadRules(w)
    <3>1. PICK d \in Decisions : work' = [work EXCEPT ![w] = [Idle EXCEPT !.pc = "check", !.decision = d]]
      BY <2>1, Zenon DEF LoadRules
    <3>2. [Idle EXCEPT !.pc = "check", !.decision = d].pc = "check"
      BY DEF Idle
    <3>3. UNCHANGED <<verdict, page, choice, raced>>
      BY <2>1 DEF LoadRules, OnlyWork
    <3>4. Stands => InFlight' = {}
      BY <1>5, <3>1, <3>2
    <3> QED BY <1>4, <3>3, <3>4
  <2>2. CASE CheckOverride(w)
    <3>1. UNCHANGED <<verdict, page, choice, raced>>
      BY <2>2 DEF CheckOverride, OnlyWork
    <3>2. Overridden => work' = [work EXCEPT ![w] = Idle] /\ Idle.pc = "idle"
      BY <2>2 DEF CheckOverride, Idle
    <3>3. Stands => InFlight' = {}
      BY <1>3, <1>5, <3>2
    <3> QED BY <1>4, <3>1, <3>3
  <2>3. CASE AskModel(w) \/ SelectRow(w)
    <3>1. UNCHANGED <<verdict, page, choice, raced>>
      BY <2>3 DEF AskModel, SelectRow, OnlyWork
    <3>2. w \in InFlight
      BY <2>3 DEF AskModel, SelectRow, At, InFlight
    <3>3. ~ Stands
      BY <1>2, <3>2
    <3> QED BY <1>4, <3>1, <3>3
  <2>4. CASE WriteVerdict(w)
    <3>1. w \in InFlight /\ UNCHANGED <<choice, raced>>
      BY <2>4 DEF WriteVerdict, At, InFlight
    <3>2. ~ Stands /\ ~ Stands'
      BY <1>2, <3>1
    <3>3. \A p \in Pages : page'[p].pc # "idle" /\ ~ page'[p].overtaken => page'[p].row = verdict'
      <4>1. CASE Conflicts(work[w].row)
        <5>1. verdict' = verdict /\ page' = page
          BY <2>4, <4>1 DEF WriteVerdict
        <5> QED BY <5>1 DEF OverrideInv
      <4>2. CASE ~ Conflicts(work[w].row)
        <5>1. page' = [p \in Pages |-> IF page[p].pc = "idle" THEN page[p]
                                       ELSE [page[p] EXCEPT !.overtaken = TRUE]]
          BY <2>4, <4>2, Zenon DEF WriteVerdict
        <5>2. ASSUME NEW p \in Pages, page'[p].pc # "idle" PROVE page'[p].overtaken
          <6>1. page[p] \in PageState
            BY <1>1
          <6>2. CASE page[p].pc = "idle"
            BY <5>1, <5>2, <6>2
          <6>3. CASE page[p].pc # "idle"
            <7>1. page'[p] = [page[p] EXCEPT !.overtaken = TRUE]
              BY <5>1, <6>3, Zenon
            <7> QED BY <6>1, <7>1, Zenon DEF PageState
          <6> QED BY <6>2, <6>3
        <5> QED BY <5>2
      <4> QED BY <4>1, <4>2
    <3> QED BY <3>2, <3>3 DEF OverrideInv
  <2>5. CASE Crash(w)
    <3>1. work' = [work EXCEPT ![w] = Idle] /\ Idle.pc = "idle"
          /\ UNCHANGED <<verdict, page, choice, raced>>
      BY <2>5 DEF Crash, Idle
    <3>2. Stands => InFlight' = {}
      BY <1>5, <3>1
    <3> QED BY <1>4, <3>1, <3>2
  <2> QED BY <1>6, <2>1, <2>2, <2>3, <2>4, <2>5 DEF Handle
<1>7. ASSUME NEW p \in Pages, LoadOwned(p) \/ SelectOwned(p) \/ WriteOverride(p)
      PROVE  OverrideInv'
  <2>1. InFlight' = InFlight
    BY <1>7 DEF LoadOwned, SelectOwned, WriteOverride, OnlyPage, InFlight
  <2>2. ASSUME UNCHANGED <<verdict, choice, raced>>,
               \A q \in Pages \ {p} : page'[q] = page[q],
               page'[p].pc # "idle" /\ ~ page'[p].overtaken => page'[p].row = verdict
        PROVE  OverrideInv'
    <3>1. \A q \in Pages : page'[q].pc # "idle" /\ ~ page'[q].overtaken => page'[q].row = verdict'
      BY <2>2 DEF OverrideInv
    <3>2. Stands' => InFlight' = {} /\ verdict' = UserOverride(choice')
      BY <1>2, <2>1, <2>2
    <3> QED BY <3>1, <3>2 DEF OverrideInv
  <2>3. CASE LoadOwned(p)
    <3>1. PICK b \in Buckets :
            page' = [page EXCEPT ![p] = [pc |-> "upsert", bucket |-> b, row |-> verdict,
                                         overtaken |-> FALSE]]
      BY <2>3, Zenon DEF LoadOwned
    <3>2. UNCHANGED <<verdict, choice, raced>>
      BY <2>3 DEF LoadOwned
    <3> QED BY <1>1, <2>2, <3>1, <3>2
  <2>4. CASE SelectOwned(p)
    <3> DEFINE x == [page[p] EXCEPT !.pc = "write",
                       !.row = IF page[p].row = Nothing THEN verdict ELSE page[p].row]
    <3>1. page[p] \in PageState /\ page[p].pc = "upsert" /\ UNCHANGED <<verdict, choice, raced>>
      BY <1>1, <2>4 DEF SelectOwned
    <3>2. page' = [page EXCEPT ![p] = x]
      BY <1>1, <2>4 DEF SelectOwned
    <3>3. /\ x.overtaken = page[p].overtaken
          /\ x.row = IF page[p].row = Nothing THEN verdict ELSE page[p].row
      BY <3>1, Zenon DEF PageState
    <3> HIDE DEF x
    <3>4. /\ \A q \in Pages \ {p} : page'[q] = page[q]
          /\ page'[p] = x
      BY <1>1, <3>2
    <3>5. ~ page[p].overtaken => page[p].row = verdict
      BY <3>1 DEF OverrideInv
    <3>6. page'[p].pc # "idle" /\ ~ page'[p].overtaken => page'[p].row = verdict
      BY <3>3, <3>4, <3>5, Zenon
    <3> QED BY <2>2, <3>1, <3>4, <3>6
  <2>5. CASE WriteOverride(p)
    <3>1. page[p].pc = "write" /\ page[p] \in PageState
      BY <1>1, <2>5 DEF WriteOverride
    <3>2. ASSUME NEW q \in Pages, page'[q].pc # "idle" PROVE page'[q].overtaken
      <4>1. page' = [r \in Pages |->
                       IF r = p THEN NoMove
                       ELSE IF page[r].pc = "idle" THEN page[r]
                       ELSE [page[r] EXCEPT !.overtaken = TRUE]]
        BY <2>5, Zenon DEF WriteOverride
      <4>2. page[q] \in PageState
        BY <1>1
      <4>3. q # p /\ page[q].pc # "idle"
        BY <3>2, <4>1 DEF NoMove
      <4>4. page'[q] = [page[q] EXCEPT !.overtaken = TRUE]
        BY <4>1, <4>3, Zenon
      <4> QED BY <4>2, <4>4, Zenon DEF PageState
    <3>3. CASE Conflicts(page[p].row)
      <4>1. UNCHANGED <<verdict, choice, raced>>
        BY <2>5, <3>3 DEF WriteOverride
      <4>2. Stands' => InFlight' = {} /\ verdict' = UserOverride(choice')
        BY <1>2, <2>1, <4>1
      <4> QED BY <3>2, <4>2 DEF OverrideInv
    <3>4. CASE ~ Conflicts(page[p].row)
      <4>1. /\ Upsert(page[p].row, UserOverride(page[p].bucket))
            /\ choice' = page[p].bucket /\ raced' = (page[p].overtaken \/ InFlight # {})
        BY <2>5, <3>4, Zenon DEF WriteOverride
      <4>2. ASSUME Stands' PROVE InFlight' = {} /\ verdict' = UserOverride(choice')
        <5>1. ~ page[p].overtaken /\ InFlight = {}
          BY <4>1, <4>2, Zenon
        <5>2. page[p].row = verdict
          BY <3>1, <5>1 DEF OverrideInv
        <5>3. UserOverride(page[p].bucket) \in Verdicts
          <6>1. page[p].bucket \in Buckets
            BY <3>1 DEF Held
          <6> QED BY <6>1, VerdictTypes
        <5>4. verdict' = UserOverride(page[p].bucket)
          <6>1. CASE verdict = Nothing
            BY <4>1, <5>2, <6>1 DEF Upsert
          <6>2. CASE verdict # Nothing
            <7>1. verdict \in Verdicts
              BY <1>1, <6>2 DEF VerdictRow
            <7>2. verdict' = Updated(verdict, verdict, UserOverride(page[p].bucket))
              BY <4>1, <5>2, <6>2 DEF Upsert
            <7> QED BY <5>3, <7>1, <7>2, UpdatedType
          <6> QED BY <6>1, <6>2
        <5> QED BY <2>1, <4>1, <5>1, <5>4
      <4> QED BY <3>2, <4>2 DEF OverrideInv
    <3> QED BY <3>3, <3>4
  <2> QED BY <1>7, <2>3, <2>4, <2>5
<1>8. CASE Deliver \/ EditRules \/ UNCHANGED vars
  <2>1. UNCHANGED <<verdict, page, choice, raced>> /\ InFlight' = InFlight
    BY <1>8 DEF Deliver, EditRules, CreateRule, DeleteRule, LoadRule, UpdateRule, OnlyRules,
                InFlight, vars
  <2> QED BY <1>2, <1>4, <2>1
<1> QED BY <1>6, <1>7, <1>8 DEF Next, Classifies, Moves

-----------------------------------------------------------------------------
(* The rules reach the verdict.                                             *)

LEMMA InitCurrent == Init => CurrentInv
<1> SUFFICES ASSUME Init PROVE CurrentInv
  OBVIOUS
<1>1. mail \in Mails /\ reached = FALSE
  BY Zenon DEF Init
<1>2. ASSUME NEW w \in Workers PROVE work[w].pc = "idle"
  BY DEF Init, Idle
<1>3. \A w \in Workers : Holds(work[w], w \notin stale)
  BY <1>2, Zenon DEF Holds
<1> QED BY <1>1, <1>3, Zenon DEF CurrentInv

(* What each branch of classify_one writes is what its decision leads to.   *)
LEMMA BranchesWrite ==
  ASSUME NEW d
  PROVE  /\ Sure(d) => RuleOnly(d) \in WrittenOn(d)
         /\ ~ Sure(d) => /\ NeedsReview \in WrittenOn(d)
                         /\ \A label \in Buckets, sure \in BOOLEAN :
                              ByModel(d, label, sure, FALSE) \in WrittenOn(d)
<1>1. CASE Sure(d)
  <2>1. WrittenOn(d) = {RuleOnly(d)}
    BY <1>1 DEF WrittenOn
  <2> QED BY <1>1, <2>1
<1>2. CASE ~ Sure(d)
  <2> DEFINE answers == {ByModel(d, label, sure, FALSE) : label \in Buckets, sure \in BOOLEAN}
  <2>1. WrittenOn(d) = {NeedsReview} \cup answers
    BY <1>2 DEF WrittenOn
  <2>2. ASSUME NEW label \in Buckets, NEW sure \in BOOLEAN
        PROVE  ByModel(d, label, sure, FALSE) \in answers
    <3>1. \A x : x \in answers <=> \E b \in Buckets, c \in BOOLEAN : x = ByModel(d, b, c, FALSE)
      BY SMT
    <3>2. \E b \in Buckets, c \in BOOLEAN :
            ByModel(d, label, sure, FALSE) = ByModel(d, b, c, FALSE)
      BY Zenon
    <3> HIDE DEF answers
    <3> QED BY <3>1, <3>2, Zenon
  <2> HIDE DEF answers
  <2> QED BY <1>2, <2>1, <2>2
<1> QED BY <1>1, <1>2

(* With the same rules and email, what records hold and the row follows is  *)
(* judged as before.                                                        *)
LEMMA SameRules ==
  ASSUME UNCHANGED <<rules, mail>>, reached' \in BOOLEAN, mail \in Mails,
         \A w \in Workers : Holds(work'[w], w \notin stale'),
         reached' => /\ verdict' # Nothing /\ Follows(verdict')
                     /\ \A w \in Workers : work'[w].pc # "idle" => w \notin stale'
  PROVE  CurrentInv'
<1>1. Present' = Present
  BY DEF Present
<1>2. Possible' = Possible
  BY <1>1, Zenon DEF Possible
<1>3. ASSUME NEW w \in Workers PROVE Holds(work[w], w \notin stale)'
  <2>1. Holds(work'[w], w \notin stale')
    OBVIOUS
  <2> QED BY <1>1, <2>1, Zenon DEF Holds, Decides
<1>4. ASSUME reached' PROVE Follows(verdict)'
  <2>1. Follows(verdict')
    BY <1>4
  <2>2. CASE verdict'.model = "user_override"
    BY <2>2, Zenon DEF Follows
  <2>3. CASE \E d \in Possible : Decides(d) /\ verdict' \in WrittenOn(d)
    <3>1. PICK d \in Possible : Decides(d) /\ verdict' \in WrittenOn(d)
      BY <2>3
    <3>2. d \in Possible' /\ Decides(d)'
      BY <1>1, <1>2, <3>1, Zenon DEF Decides
    <3> QED BY <3>1, <3>2, Zenon DEF Follows
  <2> QED BY <2>1, <2>2, <2>3, Zenon DEF Follows
<1>5. reached' => \A w \in Workers : ~ At(w, "idle")' => w \notin stale'
  BY DEF At
<1> QED BY <1>3, <1>4, <1>5, Zenon DEF CurrentInv

(* A step of one worker that leaves the rules alone.                        *)
LEMMA WorkerCurrent ==
  ASSUME TypedParts, CurrentInv, NEW w \in Workers, NEW x, work' = [work EXCEPT ![w] = x],
         UNCHANGED <<rules, mail, stale>>, reached' \in BOOLEAN, ~ At(w, "idle"),
         Holds(x, w \notin stale),
         reached' => /\ verdict' # Nothing /\ Follows(verdict')
                     /\ \A v \in Workers : ~ At(v, "idle") => v \notin stale
  PROVE  CurrentInv'
<1>1. work \in [Workers -> WorkState]
  BY DEF TypedParts
<1>2. \A v \in Workers : work'[v] = IF v = w THEN x ELSE work[v]
  BY <1>1
<1>3. \A v \in Workers : Holds(work'[v], v \notin stale')
  <2> TAKE v \in Workers
  <2>1. CASE v = w
    BY <1>2, <2>1
  <2>2. CASE v # w
    <3>1. work'[v] = work[v] /\ stale' = stale
      BY <1>2, <2>2
    <3>2. Holds(work[v], v \notin stale)
      BY DEF CurrentInv
    <3> QED BY <3>1, <3>2, Zenon
  <2> QED BY <2>1, <2>2
<1>4. reached' => \A v \in Workers : work'[v].pc # "idle" => v \notin stale'
  BY <1>2 DEF At
<1> QED BY <1>3, <1>4, SameRules DEF CurrentInv

LEMMA ClassifyCurrent ==
  ASSUME TypedParts, Held, CurrentInv, NEW w \in Workers, Handle(w) \/ Crash(w)
  PROVE  CurrentInv'
<1>1. work \in [Workers -> WorkState] /\ work[w] \in WorkState
  BY DEF TypedParts
<1>2. Holds(Idle, w \notin stale)
  BY DEF Holds, Idle
<1>3. Holds(work[w], w \notin stale)
  BY DEF CurrentInv
<1>4. ASSUME NEW x, work' = [work EXCEPT ![w] = x], ~ At(w, "idle"), Holds(x, w \notin stale),
             UNCHANGED <<rules, mail, stale, verdict, reached>>
      PROVE  CurrentInv'
  BY <1>4, WorkerCurrent DEF CurrentInv
<1>5. CASE LoadRules(w)
  <2>1. PICK d \in Decisions : work' = [work EXCEPT ![w] = [Idle EXCEPT !.pc = "check", !.decision = d]]
    BY <1>5, Zenon DEF LoadRules
  <2>2. UNCHANGED <<rules, mail, verdict, reached>> /\ stale' = stale \ {w}
    BY <1>5 DEF LoadRules, OnlyWork
  <2>3. work'[w].pc = "check" /\ work'[w].decision = d /\ \A v \in Workers \ {w} : work'[v] = work[v]
    BY <1>1, <2>1 DEF Idle
  <2>4. Decides(d)
    BY LoadedDecides
  <2>5. ASSUME NEW v \in Workers PROVE Holds(work'[v], v \notin stale')
    <3>1. CASE v = w
      BY <2>3, <2>4, <3>1 DEF Holds
    <3>2. CASE v # w
      <4>1. work'[v] = work[v] /\ (v \notin stale' <=> v \notin stale)
        BY <2>2, <2>3, <3>2
      <4>2. Holds(work[v], v \notin stale)
        BY DEF CurrentInv
      <4> QED BY <4>1, <4>2 DEF Holds
    <3> QED BY <3>1, <3>2
  <2>6. reached' => \A v \in Workers : work'[v].pc # "idle" => v \notin stale'
    BY <2>2, <2>3 DEF CurrentInv, At
  <2> QED BY <2>2, <2>5, <2>6, SameRules DEF CurrentInv
<1>6. CASE CheckOverride(w)
  <2>1. At(w, "check") /\ ~ At(w, "idle") /\ UNCHANGED <<rules, mail, stale, verdict, reached>>
    BY <1>6 DEF CheckOverride, OnlyWork, At
  <2>2. w \notin stale => Decides(work[w].decision)
    BY <1>3, <2>1 DEF Holds, At
  <2>3. CASE Overridden
    <3>1. work' = [work EXCEPT ![w] = Idle]
      BY <1>6, <2>3 DEF CheckOverride
    <3> QED BY <1>2, <1>4, <2>1, <3>1
  <2>4. CASE ~ Overridden /\ Sure(work[w].decision)
    <3> DEFINE x == [work[w] EXCEPT !.pc = "select", !.payload = RuleOnly(work[w].decision)]
    <3>1. work' = [work EXCEPT ![w] = x]
      BY <1>1, <1>6, <2>4 DEF CheckOverride
    <3>2. x.pc = "select" /\ x.payload = RuleOnly(work[w].decision) /\ x.decision = work[w].decision
      BY <1>1, Zenon DEF WorkState
    <3> HIDE DEF x
    <3>3. x.payload \in WrittenOn(x.decision)
      BY <2>4, <3>2, BranchesWrite, Zenon
    <3>4. Holds(x, w \notin stale)
      BY <2>2, <3>2, <3>3 DEF Holds
    <3> QED BY <1>4, <2>1, <3>1, <3>4
  <2>5. CASE ~ Overridden /\ ~ Sure(work[w].decision)
    <3> DEFINE x == [work[w] EXCEPT !.pc = "model"]
    <3>1. work' = [work EXCEPT ![w] = x]
      BY <1>1, <1>6, <2>5 DEF CheckOverride, Goes
    <3>2. x.pc = "model" /\ x.decision = work[w].decision
      BY <1>1, Zenon DEF WorkState
    <3> HIDE DEF x
    <3>3. Holds(x, w \notin stale)
      BY <2>2, <2>5, <3>2, Zenon DEF Holds
    <3> QED BY <1>4, <2>1, <3>1, <3>3
  <2> QED BY <2>3, <2>4, <2>5
<1>7. CASE AskModel(w)
  <2>1. At(w, "model") /\ ~ At(w, "idle") /\ UNCHANGED <<rules, mail, stale, verdict, reached>>
    BY <1>7 DEF AskModel, OnlyWork, At
  <2>2. ~ Sure(work[w].decision) /\ (w \notin stale => Decides(work[w].decision))
    BY <1>3, <2>1, Zenon DEF Holds, At
  <2>3. \/ \E label \in Buckets, sure \in BOOLEAN :
             work' = [work EXCEPT ![w].pc = "select",
                        ![w].payload = ByModel(work[w].decision, label, sure, FALSE)]
        \/ work' = [work EXCEPT ![w].pc = "select", ![w].payload = NeedsReview]
    BY <1>7, Zenon DEF AskModel
  <2>4. /\ NeedsReview \in WrittenOn(work[w].decision)
        /\ \A label \in Buckets, sure \in BOOLEAN :
             ByModel(work[w].decision, label, sure, FALSE) \in WrittenOn(work[w].decision)
    BY <2>2, BranchesWrite
  <2>5. PICK answer \in WrittenOn(work[w].decision) :
          work' = [work EXCEPT ![w].pc = "select", ![w].payload = answer]
    BY <2>3, <2>4, Zenon
  <2> DEFINE x == [work[w] EXCEPT !.pc = "select", !.payload = answer]
  <2>6. work' = [work EXCEPT ![w] = x]
    BY <1>1, <2>5
  <2>7. x.pc = "select" /\ x.payload = answer /\ x.decision = work[w].decision
    BY <1>1, Zenon DEF WorkState
  <2> HIDE DEF x
  <2>8. Holds(x, w \notin stale)
    BY <2>2, <2>5, <2>7 DEF Holds
  <2> QED BY <1>4, <2>1, <2>6, <2>8
<1>8. CASE SelectRow(w)
  <2>1. At(w, "select") /\ ~ At(w, "idle") /\ UNCHANGED <<rules, mail, stale, verdict, reached>>
    BY <1>8 DEF SelectRow, OnlyWork, At
  <2> DEFINE x == [work[w] EXCEPT !.pc = "write", !.row = verdict]
  <2>2. work' = [work EXCEPT ![w] = x]
    BY <1>1, <1>8 DEF SelectRow
  <2>3. x.pc = "write" /\ x.decision = work[w].decision /\ x.payload = work[w].payload
    BY <1>1, Zenon DEF WorkState
  <2> HIDE DEF x
  <2>4. Holds(x, w \notin stale)
    BY <1>3, <2>1, <2>3 DEF Holds, At
  <2> QED BY <1>4, <2>1, <2>2, <2>4
<1>9. CASE WriteVerdict(w)
  <2>1. /\ At(w, "write") /\ ~ At(w, "idle") /\ UNCHANGED <<rules, mail, stale>>
        /\ work' = [work EXCEPT ![w] = Idle]
    BY <1>9 DEF WriteVerdict, At
  <2>2. CASE Conflicts(work[w].row)
    <3>1. UNCHANGED <<verdict, reached>>
      BY <1>9, <2>2 DEF WriteVerdict
    <3> QED BY <1>2, <1>4, <2>1, <3>1
  <2>3. CASE ~ Conflicts(work[w].row)
    <3>1. /\ Upsert(work[w].row, work[w].payload)
          /\ reached' = /\ work[w].row = verdict
                        /\ reached \/ (w \notin stale /\ OlderRecords(w) = {})
      BY <1>9, <2>3, Zenon DEF WriteVerdict
    <3>2. ASSUME reached'
          PROVE  /\ verdict' # Nothing /\ Follows(verdict')
                 /\ \A v \in Workers : ~ At(v, "idle") => v \notin stale
      <4>1. work[w].row = verdict /\ (reached \/ (w \notin stale /\ OlderRecords(w) = {}))
        BY <3>1, <3>2, Zenon
      <4>2. \A v \in Workers : ~ At(v, "idle") => v \notin stale
        <5>1. CASE reached
          BY <5>1 DEF CurrentInv
        <5>2. CASE w \notin stale /\ OlderRecords(w) = {}
          BY <5>2 DEF OlderRecords
        <5> QED BY <4>1, <5>1, <5>2
      <4>3. work[w].payload \in Verdicts /\ work[w].payload # Nothing
        <5>1. work[w].payload # Nothing
          BY <2>1 DEF Held, At
        <5>2. work[w].payload \in VerdictRow
          BY <1>1 DEF WorkState
        <5> QED BY <5>1, <5>2 DEF VerdictRow
      <4>4. verdict' = work[w].payload
        <5>1. CASE verdict = Nothing
          BY <3>1, <4>1, <5>1 DEF Upsert
        <5>2. CASE verdict # Nothing
          <6>1. verdict \in Verdicts
            BY <5>2 DEF TypedParts, VerdictRow
          <6>2. verdict' = Updated(verdict, verdict, work[w].payload)
            BY <3>1, <4>1, <5>2 DEF Upsert
          <6> QED BY <4>3, <6>1, <6>2, UpdatedType
        <5> QED BY <5>1, <5>2
      <4>5. Decides(work[w].decision) /\ work[w].payload \in WrittenOn(work[w].decision)
        BY <1>3, <2>1, <4>2 DEF Holds, At
      <4>6. Follows(work[w].payload)
        BY <4>5, DecidesPossible, Zenon DEF Follows
      <4> QED BY <4>2, <4>3, <4>4, <4>6
    <3>3. reached \in BOOLEAN
      BY DEF CurrentInv
    <3>4. reached' \in BOOLEAN
      BY <3>1
    <3> QED BY <1>2, <2>1, <3>2, <3>4, WorkerCurrent
  <2> QED BY <2>2, <2>3
<1>10. CASE Crash(w)
  <2>1. work' = [work EXCEPT ![w] = Idle] /\ ~ At(w, "idle")
        /\ UNCHANGED <<rules, mail, stale, verdict, reached>>
    BY <1>10 DEF Crash
  <2> QED BY <1>2, <1>4, <2>1
<1> QED BY <1>5, <1>6, <1>7, <1>8, <1>9, <1>10 DEF Handle

LEMMA CurrentStep ==
  ASSUME TypedParts, Held, OverrideInv, CurrentInv, [Next]_vars
  PROVE  CurrentInv'
<1>1. ASSUME UNCHANGED <<rules, mail, work, stale>>, reached' \in BOOLEAN,
             reached' => reached /\ verdict' # Nothing /\ Follows(verdict')
      PROVE  CurrentInv'
  <2>1. \A w \in Workers : Holds(work'[w], w \notin stale')
    BY <1>1 DEF CurrentInv
  <2>2. reached' => \A w \in Workers : work'[w].pc # "idle" => w \notin stale'
    BY <1>1 DEF CurrentInv, At
  <2> QED BY <1>1, <2>1, <2>2, SameRules DEF CurrentInv
<1>2. ASSUME UNCHANGED <<rules, mail, work, stale, verdict, reached>> PROVE CurrentInv'
  BY <1>1, <1>2 DEF CurrentInv
<1>3. CASE Deliver \/ UNCHANGED vars
  BY <1>2, <1>3 DEF Deliver, vars
<1>4. ASSUME NEW p \in Pages, LoadOwned(p) \/ SelectOwned(p) PROVE CurrentInv'
  BY <1>2, <1>4 DEF LoadOwned, SelectOwned, OnlyPage
<1>5. ASSUME NEW p \in Pages, WriteOverride(p) PROVE CurrentInv'
  <2>1. UNCHANGED <<rules, mail, work, stale>> /\ page[p].pc = "write" /\ page[p] \in PageState
    BY <1>5 DEF WriteOverride, OnlyPage, TypedParts
  <2>2. CASE Conflicts(page[p].row)
    BY <1>2, <1>5, <2>1, <2>2 DEF WriteOverride
  <2>3. CASE ~ Conflicts(page[p].row)
    <3>1. /\ Upsert(page[p].row, UserOverride(page[p].bucket))
          /\ reached' = (reached /\ ~ page[p].overtaken)
      BY <1>5, <2>3, Zenon DEF WriteOverride
    <3>2. ASSUME reached' PROVE verdict' # Nothing /\ Follows(verdict')
      <4>1. ~ page[p].overtaken /\ verdict # Nothing
        BY <3>1, <3>2, Zenon DEF CurrentInv
      <4>2. page[p].row = verdict
        BY <2>1, <4>1 DEF OverrideInv
      <4>3. page[p].bucket \in Buckets
        BY <2>1 DEF Held
      <4>4. UserOverride(page[p].bucket) \in Verdicts
            /\ UserOverride(page[p].bucket).model = "user_override"
        BY <4>3, VerdictTypes
      <4>5. verdict \in Verdicts
        BY <4>1 DEF TypedParts, VerdictRow
      <4>6. verdict' = Updated(verdict, verdict, UserOverride(page[p].bucket))
        BY <3>1, <4>1, <4>2 DEF Upsert
      <4>7. verdict' = UserOverride(page[p].bucket)
        BY <4>4, <4>5, <4>6, UpdatedType
      <4>8. verdict' # Nothing
        BY <4>4, <4>7, Tunables
      <4> QED BY <4>4, <4>7, <4>8, Zenon DEF Follows
    <3>3. (reached' => reached) /\ reached' \in BOOLEAN
      BY <3>1 DEF CurrentInv
    <3> QED BY <1>1, <2>1, <3>2, <3>3
  <2> QED BY <2>2, <2>3
<1>6. CASE EditRules
  <2>1. UNCHANGED <<mail, work, verdict>>
    BY <1>6 DEF EditRules, CreateRule, DeleteRule, LoadRule, UpdateRule, OnlyRules
  <2>2. (stale' = Workers /\ reached' = FALSE) \/ UNCHANGED <<rules, stale, reached>>
    BY <1>6 DEF EditRules, CreateRule, DeleteRule, LoadRule, UpdateRule, Edits
  <2>3. ASSUME stale' = Workers, reached' = FALSE PROVE CurrentInv'
    <3>1. ASSUME NEW w \in Workers PROVE Holds(work[w], w \notin stale)'
      <4>1. Holds(work[w], w \notin stale)
        BY DEF CurrentInv
      <4>2. work' = work /\ ~ (w \notin stale')
        BY <2>1, <2>3
      <4> QED BY <4>1, <4>2, Zenon DEF Holds
    <3>2. mail' \in Mails
      BY <2>1 DEF CurrentInv
    <3> QED BY <2>3, <3>1, <3>2, Zenon DEF CurrentInv
  <2> QED BY <1>2, <2>1, <2>2, <2>3
<1> QED BY <1>3, <1>4, <1>5, <1>6, ClassifyCurrent DEF Next, Classifies, Moves

-----------------------------------------------------------------------------
(* Theorems.                                                                *)

(* The inductive invariant: the types, what a worker, an owner and an editor *)
(* still hold of the row and of the rules they read, and the two properties *)
(* below in the form that every step of classify_one, of the bucket PATCH   *)
(* and of the rubric API keeps.                                             *)
THEOREM Invariant == Spec => [](TypedParts /\ Held /\ OverrideInv /\ CurrentInv)
<1>1. Init => TypedParts /\ Held /\ OverrideInv /\ CurrentInv
  BY InitTyped, InitOverride, InitCurrent
<1>2. TypedParts /\ Held /\ OverrideInv /\ CurrentInv /\ [Next]_vars
        => (TypedParts /\ Held /\ OverrideInv /\ CurrentInv)'
  BY TypedStep, OverrideStep, CurrentStep
<1> QED BY <1>1, <1>2, PTL DEF Spec

(* The row, what sessions hold of it and the rules are well typed for any   *)
(* rubric and any number of writers, no rule is newer than the edits, and   *)
(* a classify record is on the queue or with one worker, never with two.    *)
THEOREM TypeCorrect == Spec => []TypeOK
<1>1. TypedParts /\ Held /\ CurrentInv => TypeOK
  <2> SUFFICES ASSUME TypedParts, Held, CurrentInv PROVE TypeOK
    OBVIOUS
  <2>1. \A w \in Workers : {work[w].row, work[w].payload} \subseteq Verdicts \cup {Nothing}
    BY DEF TypedParts, WorkState, VerdictRow
  <2>2. records + Cardinality(Busy) <= MaxRecords
    <3>1. Cardinality(Busy) \in Nat
      BY Tunables, FS_Subset, FS_CardinalityType DEF Busy
    <3>2. records \in Nat /\ bounds.records \in 0 .. MaxRecords
      BY DEF TypedParts, BoundState
    <3>3. records + Cardinality(Busy) <= bounds.records
      BY DEF Held
    <3> QED BY <3>1, <3>2, <3>3, Tunables
  <2>3. ASSUME NEW i \in Rules, rules[i] # Nothing PROVE rules[i].version \in 1 .. MaxEdits
    <3>1. rules[i].version \in 1 .. bounds.edits
      BY <2>3 DEF Held
    <3>2. bounds.edits \in 0 .. MaxEdits
      BY DEF TypedParts, BoundState
    <3> QED BY <3>1, <3>2, Tunables
  <2>4. /\ verdict \in Verdicts \cup {Nothing} /\ choice \in Buckets \cup {Nothing}
        /\ {raced, reached} \subseteq BOOLEAN /\ mail \in Mails
    BY DEF TypedParts, VerdictRow, CurrentInv
  <2> QED BY <2>1, <2>2, <2>3, <2>4 DEF TypeOK, Busy
<1> QED BY <1>1, Invariant, PTL

(* The email stays in the bucket its owner chose, through any number of     *)
(* redeliveries, crashes, reclassifications and rubric edits, unless        *)
(* another writer was between its read and its write at the commit.         *)
THEOREM OverrideStays == Spec => []OverrideHolds
<1>1. TypedParts /\ OverrideInv => OverrideHolds
  BY VerdictTypes DEF TypedParts, OverrideInv, OverrideHolds
<1> QED BY <1>1, Invariant, PTL

(* Once a record with the rules as they are has written its verdict and no   *)
(* older record was under way, the email keeps a verdict that the current   *)
(* rules and known waste senders lead to, or its owner's, until the next    *)
(* edit: no redelivery, crash, exhausted provider or move brings an older   *)
(* decision back, for any rules, seeds, emails and number of workers.       *)
THEOREM EditsArrive == Spec => []EditsReachVerdict
<1>1. CurrentInv => EditsReachVerdict
  BY Zenon DEF CurrentInv, Follows, EditsReachVerdict
<1> QED BY <1>1, Invariant, PTL
=============================================================================
