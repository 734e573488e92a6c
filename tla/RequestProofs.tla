----------------------------- MODULE RequestProofs -----------------------------
(***************************************************************************)
(* What the user's own requests may rely on: a link goes to the identity    *)
(* that started it (SignIn, any number of identities and tabs), a mail is    *)
(* read locally only if it is read at Gmail (MarkRead, any number of tabs,   *)
(* mails, accounts and failing calls, and any batch size), and a choice      *)
(* made offline is kept until it is applied or cancelled (OfflineQueue, any  *)
(* number of choices, of drains and of attempts).                           *)
(***************************************************************************)
EXTENDS SignIn, MarkRead, OfflineQueue, FiniteSetTheorems, TLAPS

-----------------------------------------------------------------------------
(* SignIn                                                                   *)

SignTypes ==
  /\ \E n \in Nat : Started = 1 .. n
  /\ flows = [f \in Started |-> flows[f]]
  /\ \A f \in Started :
       flows[f] = [for |-> flows[f].for, step |-> flows[f].step]

(* The cookie holds a started flow and the user that flow is for.           *)
CookieIsOfItsFlow ==
  state # NoState => state.flow \in Started /\ state.user = flows[state.flow].for

SignInv == SignTypes /\ CookieIsOfItsFlow /\ LinkGoesToStarter

(* Flows are numbered in the order they start.                              *)
LEMMA FreshFlow ==
  ASSUME SignTypes
  PROVE  /\ Cardinality(Started) \in Nat
         /\ Cardinality(Started) + 1 \notin Started
         /\ \E n \in Nat : Started \cup {Cardinality(Started) + 1} = 1 .. n
<1>1. PICK n \in Nat : Started = 1 .. n
  BY DEF SignTypes
<1>2. Cardinality(1 .. n) = n
  BY FS_Interval
<1>3. Cardinality(Started) = n
  BY <1>1, <1>2
<1>4. Started \cup {n + 1} = 1 .. n + 1
  BY <1>1
<1> QED BY <1>1, <1>3, <1>4

LEMMA SignInvInit == SignInit => SignInv
<1> SUFFICES ASSUME SignInit PROVE SignInv
  OBVIOUS
<1>1. Started = {}
  BY DEF SignInit, Started
<1>2. Started = 1 .. 0
  BY <1>1
<1> QED BY <1>1, <1>2 DEF SignInit, SignInv, SignTypes, CookieIsOfItsFlow, LinkGoesToStarter, Started

(* A step that ends a flow without a user keeps who each flow is for.       *)
LEMMA OverKeeps ==
  ASSUME SignInv, NEW f \in Started, Over(f), state' = NoState \/ state' = state
  PROVE  SignInv'
<1>1. /\ flows' = [g \in Started |->
           IF g = f THEN [for |-> flows[g].for, step |-> "over"] ELSE flows[g]]
      /\ Started' = Started
  <2>1. flows' = [flows EXCEPT ![f] = [flows[f] EXCEPT !.step = "over"]]
    BY DEF Over
  <2>2. [flows[f] EXCEPT !.step = "over"] = [for |-> flows[f].for, step |-> "over"]
    BY DEF SignInv, SignTypes
  <2>3. flows' = [flows EXCEPT ![f] = [for |-> flows[f].for, step |-> "over"]]
    BY <2>1, <2>2
  <2> QED BY <2>3 DEF SignInv, SignTypes, Started
<1>2. \A g \in Started : flows'[g].for = flows[g].for /\ flows'[g].step \in {flows[g].step, "over"}
  BY <1>1
<1>3. SignTypes'
  BY <1>1 DEF SignInv, SignTypes, Started
<1>4. CookieIsOfItsFlow'
  BY <1>1, <1>2 DEF SignInv, CookieIsOfItsFlow
<1>5. LinkGoesToStarter'
  BY <1>1, <1>2, SignInAssumption DEF SignInv, LinkGoesToStarter
<1> QED BY <1>3, <1>4, <1>5 DEF SignInv

LEMMA SignInvStep == SignInv /\ [SignNext]_signVars => SignInv'
<1> SUFFICES ASSUME SignInv, [SignNext]_signVars PROVE SignInv'
  OBVIOUS
<1>1. ASSUME NEW link \in BOOLEAN, Start(link) PROVE SignInv'
  <2> DEFINE f == Cardinality(Started) + 1
             user == IF link THEN session ELSE Nothing
  <2>1. /\ flows' = [g \in Started \cup {f} |->
              IF g = f THEN [for |-> user, step |-> "consent"] ELSE flows[g]]
        /\ state' = [flow |-> f, user |-> user]
    BY <1>1 DEF Start
  <2>2. f \notin Started /\ \E n \in Nat : Started \cup {f} = 1 .. n
    BY FreshFlow DEF SignInv
  <2> HIDE DEF f, user
  <2>3. Started' = Started \cup {f}
    BY <2>1 DEF Started
  <2>4. flows'[f] = [for |-> user, step |-> "consent"] /\ \A g \in Started : flows'[g] = flows[g]
    BY <2>1, <2>2
  <2>5. SignTypes'
    BY <2>1, <2>2, <2>3, <2>4 DEF SignInv, SignTypes
  <2>6. CookieIsOfItsFlow'
    BY <2>1, <2>3, <2>4 DEF CookieIsOfItsFlow
  <2>7. LinkGoesToStarter'
    BY <2>3, <2>4, SignInAssumption DEF SignInv, LinkGoesToStarter
  <2> QED BY <2>5, <2>6, <2>7 DEF SignInv
<1>2. ASSUME NEW f \in Started, Deny(f) \/ StateRejected(f) \/ ExchangeFails(f) PROVE SignInv'
  BY <1>2, OverKeeps DEF Deny, StateRejected, ExchangeFails
<1>3. ASSUME NEW f \in Started, NEW email \in Identities, Connect(f, email) PROVE SignInv'
  <2> DEFINE user == IF state.user = Nothing THEN email ELSE state.user
  <2>1. /\ flows' = [flows EXCEPT ![f] = [for |-> flows[f].for, step |-> user]]
        /\ state' = NoState /\ state.flow = f
    BY <1>3 DEF Connect, ResolvedUser
  <2>2. state # NoState => flows[f].for = Nothing \/ user = flows[f].for
    BY <2>1 DEF SignInv, CookieIsOfItsFlow
  <2>3. state # NoState
    <3>1. f \in Nat \ {0}
      BY DEF SignInv, SignTypes
    <3> QED BY <2>1, <3>1 DEF NoState
  <2> HIDE DEF user
  <2>4. /\ Started' = Started
        /\ flows' = [g \in Started |->
              IF g = f THEN [for |-> flows[g].for, step |-> user] ELSE flows[g]]
    BY <2>1 DEF SignInv, SignTypes, Started
  <2>5. SignTypes'
    BY <2>4 DEF SignInv, SignTypes
  <2>6. LinkGoesToStarter'
    BY <2>2, <2>3, <2>4 DEF SignInv, LinkGoesToStarter
  <2> QED BY <2>1, <2>5, <2>6 DEF SignInv, CookieIsOfItsFlow
<1>4. CASE Logout \/ SessionExpires \/ StateExpires \/ UNCHANGED signVars
  <2>1. flows' = flows /\ (state' = NoState \/ state' = state)
    BY <1>4 DEF Logout, SessionExpires, StateExpires, signVars
  <2> QED BY <2>1 DEF SignInv, SignTypes, CookieIsOfItsFlow, LinkGoesToStarter, Started
<1> QED BY <1>1, <1>2, <1>3, <1>4 DEF SignNext

(* Whatever tabs, logouts and other sign-ins come before the callback of a  *)
(* link, the mailbox and the session it makes are those of the user who     *)
(* began it.                                                                *)
THEOREM StarterKept == SignSpec => []LinkGoesToStarter
<1>1. SignInit => SignInv
  BY SignInvInit
<1>2. SignInv /\ [SignNext]_signVars => SignInv'
  BY SignInvStep
<1>3. SignInv => LinkGoesToStarter
  BY DEF SignInv
<1> QED BY <1>1, <1>2, <1>3, PTL DEF SignSpec

-----------------------------------------------------------------------------
(* MarkRead                                                                 *)

Request ==
  [pc : {"idle", "call"}, todo : SUBSET Mails, queue : SUBSET Mails,
   singles : SUBSET Mails, marked : SUBSET Mails, failed : SUBSET Mails,
   targets : SUBSET Mails, answer : {"none", "ok", "unavailable", "lost"}]

(* The parts a request's targets are in: not begun, queued for a batch, to  *)
(* be tried singly, confirmed, refused.                                     *)
Sorted(r) ==
  /\ r.todo \cup r.queue \cup r.singles \cup r.marked \cup r.failed = r.targets
  /\ r.failed \cap (r.todo \cup r.queue \cup r.singles \cup r.marked) = {}
  /\ r.marked \cap (r.todo \cup r.queue \cup r.singles) = {}
  /\ r.singles \cap (r.todo \cup r.queue) = {}
  /\ r.todo \cap r.queue = {}

MarkTypes == tab \in [Tabs -> Request]
Partition == \A t \in Tabs : tab[t].answer \in {"none", "ok"} => Sorted(tab[t])
OverOnlyWhenSorted ==
  \A t \in Tabs : /\ tab[t].pc = "call" => tab[t].answer = "none"
                  /\ tab[t].answer = "ok" => tab[t].todo \cup tab[t].queue \cup tab[t].singles = {}
ConfirmedIsRemoved == \A t \in Tabs : tab[t].marked \subseteq removed

MarkInv ==
  MarkTypes /\ Partition /\ OverOnlyWhenSorted /\ ConfirmedIsRemoved /\ LocalReadIsGmailRead

LEMMA MarkInvInit == MarkInit => MarkInv
BY DEF MarkInit, MarkInv, MarkTypes, Partition, OverOnlyWhenSorted, ConfirmedIsRemoved,
  LocalReadIsGmailRead, Quiet, Request, Sorted

(* A step of one request keeps the invariant when its new record is of its  *)
(* type, its targets are still sorted and what it confirms is removed.      *)
LEMMA OneRequest ==
  ASSUME MarkInv, NEW t \in Tabs, NEW r \in Request, tab' = [tab EXCEPT ![t] = r],
         r.answer \in {"none", "ok"} => Sorted(r),
         r.pc = "call" => r.answer = "none",
         r.answer = "ok" => r.todo \cup r.queue \cup r.singles = {},
         r.marked \subseteq removed', removed \subseteq removed',
         localRead' \subseteq removed'
  PROVE  MarkInv'
<1>1. tab' \in [Tabs -> Request] /\ tab'[t] = r /\ \A u \in Tabs \ {t} : tab'[u] = tab[u]
  BY DEF MarkInv, MarkTypes
<1>2. Partition' /\ OverOnlyWhenSorted'
  BY <1>1 DEF MarkInv, Partition, OverOnlyWhenSorted
<1>3. ConfirmedIsRemoved'
  BY <1>1 DEF MarkInv, ConfirmedIsRemoved
<1> QED BY <1>1, <1>2, <1>3 DEF MarkInv, MarkTypes, LocalReadIsGmailRead

(* A batch is a part of the queue.                                          *)
LEMMA BatchInQueue == \A Q \in SUBSET Mails : \A B \in Batches(Q) : B \subseteq Q
BY DEF Batches

(* Beginning an account moves its mails from `todo` to the queue.           *)
LEMMA AccountBegun ==
  ASSUME NEW r \in Request, r.queue = {}, Sorted(r), NEW s \in WithAccount(r)
  PROVE  /\ s \in Request /\ Sorted(s)
         /\ s.pc = r.pc /\ s.answer = r.answer /\ s.marked = r.marked
<1>1. PICK a : s = [r EXCEPT !.todo = {m \in r.todo : MailAccount[m] # a},
                             !.queue = {m \in r.todo : MailAccount[m] = a}]
  BY DEF WithAccount
<1>2. /\ s \in Request
      /\ s.todo = {m \in r.todo : MailAccount[m] # a}
      /\ s.queue = {m \in r.todo : MailAccount[m] = a}
      /\ s.pc = r.pc /\ s.answer = r.answer /\ s.marked = r.marked
      /\ s.singles = r.singles /\ s.failed = r.failed /\ s.targets = r.targets
  BY <1>1 DEF Request
<1>3. s.todo \cup s.queue = r.todo /\ s.todo \cap s.queue = {}
  BY <1>2
<1> QED BY <1>2, <1>3 DEF Sorted

LEMMA MarkInvStep == MarkInv /\ [MarkNext]_markVars => MarkInv'
<1> SUFFICES ASSUME MarkInv, [MarkNext]_markVars PROVE MarkInv'
  OBVIOUS
<1>1. ASSUME NEW t \in Tabs,
             \/ Select(t) \/ BatchDone(t) \/ BatchDenied(t) \/ BatchRefused(t)
             \/ SingleDone(t) \/ SingleRefused(t) \/ NextAccount(t) \/ Finish(t)
             \/ Busy(t) \/ Lost(t)
      PROVE  MarkInv'
  <2>0. /\ tab[t] \in Request /\ tab[t].marked \subseteq removed /\ localRead \subseteq removed
        /\ tab[t].answer \in {"none", "ok"} => Sorted(tab[t])
        /\ tab[t].pc = "call" => tab[t].answer = "none"
    BY DEF MarkInv, MarkTypes, Partition, OverOnlyWhenSorted, ConfirmedIsRemoved, LocalReadIsGmailRead
  <2>00. tab[t].pc = "call" => Sorted(tab[t])
    BY <2>0
  <2>1. CASE Select(t)
    <3>1. PICK targets \in SUBSET Mails :
            \E r \in WithAccount([Quiet EXCEPT !.pc = "call", !.todo = targets, !.targets = targets]) :
              tab' = [tab EXCEPT ![t] = r]
      BY <2>1 DEF Select
    <3> DEFINE q == [Quiet EXCEPT !.pc = "call", !.todo = targets, !.targets = targets]
    <3>2. /\ q \in Request /\ Sorted(q) /\ q.queue = {}
          /\ q.pc = "call" /\ q.answer = "none" /\ q.marked = {}
      BY DEF Quiet, Request, Sorted
    <3>3. PICK r \in WithAccount(q) : tab' = [tab EXCEPT ![t] = r]
      BY <3>1
    <3> HIDE DEF q
    <3>4. /\ r \in Request /\ Sorted(r)
          /\ r.pc = "call" /\ r.answer = "none" /\ r.marked = {}
      BY <3>2, <3>3, AccountBegun
    <3>5. removed' = removed /\ localRead' = localRead
      BY <2>1 DEF Select
    <3> QED BY <2>0, <3>3, <3>4, <3>5, OneRequest
  <2>2. CASE BatchDone(t)
    <3>1. PICK B \in Batches(tab[t].queue) :
            /\ removed' = removed \cup B
            /\ tab' = [tab EXCEPT ![t] = [tab[t] EXCEPT !.queue = @ \ B, !.marked = @ \cup B]]
      BY <2>2 DEF BatchDone, MarkInv, MarkTypes
    <3> DEFINE r == [tab[t] EXCEPT !.queue = @ \ B, !.marked = @ \cup B]
    <3>2. B \subseteq tab[t].queue
      BY <2>0, BatchInQueue DEF Request
    <3>3. /\ r \in Request /\ r.queue = tab[t].queue \ B /\ r.marked = tab[t].marked \cup B
          /\ r.todo = tab[t].todo /\ r.singles = tab[t].singles /\ r.failed = tab[t].failed
          /\ r.targets = tab[t].targets /\ r.pc = tab[t].pc /\ r.answer = tab[t].answer
      BY <2>0, <3>2 DEF Request
    <3> HIDE DEF r
    <3>4. Sorted(r) /\ r.answer = "none"
      BY <2>0, <2>00, <2>2, <3>2, <3>3 DEF Sorted, BatchDone, Calling
    <3>5. localRead' = localRead
      BY <2>2 DEF BatchDone
    <3>6. tab' = [tab EXCEPT ![t] = r]
      BY <3>1 DEF r
    <3> QED BY <2>0, <3>1, <3>3, <3>4, <3>5, <3>6, OneRequest
  <2>3. CASE BatchDenied(t) \/ BatchRefused(t)
    <3>1. PICK B \in Batches(tab[t].queue) :
            \/ tab' = [tab EXCEPT ![t] = [tab[t] EXCEPT !.queue = @ \ B, !.failed = @ \cup B]]
            \/ /\ tab[t].singles = {}
               /\ tab' = [tab EXCEPT ![t] = [tab[t] EXCEPT !.queue = @ \ B, !.singles = B]]
      BY <2>3 DEF BatchDenied, BatchRefused, MarkInv, MarkTypes
    <3>2. B \subseteq tab[t].queue
      BY <2>0, BatchInQueue DEF Request
    <3>3. removed' = removed /\ localRead' = localRead /\ tab[t].pc = "call"
      BY <2>3 DEF BatchDenied, BatchRefused, Calling
    <3>4. PICK r \in Request :
            /\ tab' = [tab EXCEPT ![t] = r]
            /\ r.queue = tab[t].queue \ B /\ r.marked = tab[t].marked
            /\ r.todo = tab[t].todo /\ r.targets = tab[t].targets
            /\ r.pc = tab[t].pc /\ r.answer = tab[t].answer
            /\ \/ r.failed = tab[t].failed \cup B /\ r.singles = tab[t].singles
               \/ r.failed = tab[t].failed /\ r.singles = B /\ tab[t].singles = {}
      <4>1. /\ [tab[t] EXCEPT !.queue = @ \ B, !.failed = @ \cup B] \in Request
            /\ [tab[t] EXCEPT !.queue = @ \ B, !.singles = B] \in Request
        BY <2>0, <3>2 DEF Request
      <4>2. CASE tab' = [tab EXCEPT ![t] = [tab[t] EXCEPT !.queue = @ \ B, !.failed = @ \cup B]]
        <5> USE <4>1
        <5> WITNESS [tab[t] EXCEPT !.queue = @ \ B, !.failed = @ \cup B] \in Request
        <5> QED BY <2>0, <4>2 DEF Request
      <4>3. CASE /\ tab[t].singles = {}
                 /\ tab' = [tab EXCEPT ![t] = [tab[t] EXCEPT !.queue = @ \ B, !.singles = B]]
        <5> USE <4>1
        <5> WITNESS [tab[t] EXCEPT !.queue = @ \ B, !.singles = B] \in Request
        <5> QED BY <2>0, <4>3 DEF Request
      <4> QED BY <3>1, <4>2, <4>3
    <3>5. Sorted(r)
      BY <2>00, <3>2, <3>3, <3>4 DEF Sorted
    <3> QED BY <2>0, <3>3, <3>4, <3>5, OneRequest
  <2>4. CASE SingleDone(t) \/ SingleRefused(t)
    <3>1. PICK m \in tab[t].singles :
            \/ /\ removed' = removed \cup {m}
               /\ tab' = [tab EXCEPT ![t] = [tab[t] EXCEPT !.singles = @ \ {m}, !.marked = @ \cup {m}]]
            \/ /\ removed' = removed
               /\ tab' = [tab EXCEPT ![t] = [tab[t] EXCEPT !.singles = @ \ {m}, !.failed = @ \cup {m}]]
      BY <2>4 DEF SingleDone, SingleRefused, MarkInv, MarkTypes
    <3>2. m \in Mails /\ localRead' = localRead /\ tab[t].pc = "call"
      BY <2>0, <2>4 DEF Request, SingleDone, SingleRefused, Calling
    <3>3. PICK r \in Request :
            /\ tab' = [tab EXCEPT ![t] = r]
            /\ r.queue = tab[t].queue /\ r.singles = tab[t].singles \ {m}
            /\ r.todo = tab[t].todo /\ r.targets = tab[t].targets
            /\ r.pc = tab[t].pc /\ r.answer = tab[t].answer
            /\ \/ r.failed = tab[t].failed /\ r.marked = tab[t].marked \cup {m} /\ m \in removed'
               \/ r.failed = tab[t].failed \cup {m} /\ r.marked = tab[t].marked
      <4>1. /\ [tab[t] EXCEPT !.singles = @ \ {m}, !.marked = @ \cup {m}] \in Request
            /\ [tab[t] EXCEPT !.singles = @ \ {m}, !.failed = @ \cup {m}] \in Request
        BY <2>0, <3>2 DEF Request
      <4>2. CASE /\ removed' = removed \cup {m}
                 /\ tab' = [tab EXCEPT ![t] =
                              [tab[t] EXCEPT !.singles = @ \ {m}, !.marked = @ \cup {m}]]
        <5> USE <4>1
        <5> WITNESS [tab[t] EXCEPT !.singles = @ \ {m}, !.marked = @ \cup {m}] \in Request
        <5> QED BY <2>0, <4>2 DEF Request
      <4>3. CASE tab' = [tab EXCEPT ![t] =
                           [tab[t] EXCEPT !.singles = @ \ {m}, !.failed = @ \cup {m}]]
        <5> USE <4>1
        <5> WITNESS [tab[t] EXCEPT !.singles = @ \ {m}, !.failed = @ \cup {m}] \in Request
        <5> QED BY <2>0, <4>3 DEF Request
      <4> QED BY <3>1, <4>2, <4>3
    <3>4. Sorted(r) /\ removed \subseteq removed' /\ r.marked \subseteq removed'
      BY <2>0, <2>00, <3>1, <3>2, <3>3 DEF Sorted
    <3> QED BY <2>0, <3>2, <3>3, <3>4, OneRequest
  <2>5. CASE NextAccount(t)
    <3>1. PICK r \in WithAccount(tab[t]) : tab' = [tab EXCEPT ![t] = r]
      BY <2>5 DEF NextAccount
    <3>2. /\ removed' = removed /\ localRead' = localRead
          /\ tab[t].pc = "call" /\ tab[t].queue = {}
      BY <2>5 DEF NextAccount, AccountDone, Calling
    <3>3. /\ r \in Request /\ Sorted(r)
          /\ r.pc = "call" /\ r.answer = "none" /\ r.marked = tab[t].marked
      BY <2>0, <2>00, <3>1, <3>2, AccountBegun
    <3> QED BY <2>0, <3>1, <3>2, <3>3, OneRequest
  <2>6. ASSUME NEW status \in {"ok", "unavailable", "lost"}, tab' = Answer(t, status),
               removed \subseteq removed', localRead' \subseteq removed',
               status = "ok" => /\ Sorted(tab[t])
                                /\ tab[t].todo \cup tab[t].queue \cup tab[t].singles = {}
        PROVE  MarkInv'
    <3> DEFINE r == [Quiet EXCEPT !.answer = status, !.marked = tab[t].marked,
                                  !.failed = tab[t].failed, !.targets = tab[t].targets]
    <3>1. /\ r \in Request /\ r.marked = tab[t].marked /\ r.failed = tab[t].failed
          /\ r.targets = tab[t].targets /\ r.pc = "idle" /\ r.answer = status
          /\ r.todo = {} /\ r.queue = {} /\ r.singles = {}
      BY <2>0 DEF Quiet, Request
    <3>2. tab' = [tab EXCEPT ![t] = r]
      BY <2>6 DEF Answer
    <3> HIDE DEF r
    <3>3. r.answer \in {"none", "ok"} => Sorted(r)
      BY <2>6, <3>1 DEF Sorted
    <3> QED BY <2>0, <2>6, <3>1, <3>2, <3>3, OneRequest
  <2>7. Changed(t) \subseteq removed
    BY <2>0 DEF Changed
  <2>8. CASE Finish(t)
    <3>1. /\ removed' = removed /\ localRead' = localRead \cup Changed(t)
          /\ tab' = Answer(t, "ok") /\ Sorted(tab[t])
          /\ tab[t].todo \cup tab[t].queue \cup tab[t].singles = {}
      BY <2>00, <2>8 DEF Finish, AccountDone, Calling
    <3> QED BY <2>0, <2>6, <2>7, <3>1
  <2>9. CASE Busy(t)
    BY <2>0, <2>6, <2>7, <2>9 DEF Busy
  <2>10. CASE Lost(t)
    <3>1. tab' = Answer(t, "lost") /\ removed \subseteq removed' /\ localRead' = localRead
      BY <2>10 DEF Lost
    <3> QED BY <2>0, <2>6, <3>1
  <2> QED BY <1>1, <2>1, <2>2, <2>3, <2>4, <2>5, <2>8, <2>9, <2>10
<1>2. CASE UNCHANGED markVars
  BY <1>2 DEF markVars, MarkInv, MarkTypes, Partition, OverOnlyWhenSorted, ConfirmedIsRemoved,
    LocalReadIsGmailRead
<1> QED BY <1>1, <1>2 DEF MarkNext

(* Labels change only for what Gmail confirmed, however requests overlap    *)
(* and fail.                                                                *)
THEOREM ReadLocallyIsRead == MarkSpec => []LocalReadIsGmailRead
<1>1. MarkInit => MarkInv
  BY MarkInvInit
<1>2. MarkInv /\ [MarkNext]_markVars => MarkInv'
  BY MarkInvStep
<1>3. MarkInv => LocalReadIsGmailRead
  BY DEF MarkInv
<1> QED BY <1>1, <1>2, <1>3, PTL DEF MarkSpec

(* An answer of 200 sorts every selected email into marked or failed, not   *)
(* both.                                                                    *)
THEOREM AnswerIsComplete == MarkSpec => []AnswerCoversSelection
<1>1. MarkInit => MarkInv
  BY MarkInvInit
<1>2. MarkInv /\ [MarkNext]_markVars => MarkInv'
  BY MarkInvStep
<1>3. MarkInv => AnswerCoversSelection
  BY DEF MarkInv, Partition, OverOnlyWhenSorted, AnswerCoversSelection, Sorted
<1> QED BY <1>1, <1>2, <1>3, PTL DEF MarkSpec

-----------------------------------------------------------------------------
(* OfflineQueue                                                             *)

(* A caller that is about to remove a record has applied it: what two       *)
(* callers read may be old, what they delete is not lost.                   *)
RemovesApplied ==
  /\ drain = [d \in Drainers |-> drain[d]]
  /\ \A d \in Drainers : drain[d] = [pc |-> drain[d].pc, rest |-> drain[d].rest]
  /\ \A d \in Drainers : drain[d].pc = "remove" => Record(d) \in applied

QueueInv == RemovesApplied /\ QueuedIsNotLost

(* A step that leaves the tables alone but may apply a record and moves one *)
(* caller.                                                                  *)
LEMMA CallerMoves ==
  ASSUME QueueInv, NEW d \in Drainers, NEW v, drain' = [drain EXCEPT ![d] = v],
         v = [pc |-> v.pc, rest |-> v.rest],
         applied \subseteq applied', queued' = queued, cancelled' = cancelled,
         DOMAIN queue' = DOMAIN queue,
         v.pc = "remove" => First(v.rest) \in applied'
  PROVE  QueueInv'
<1>1. \A o \in Drainers : drain'[o] = IF o = d THEN v ELSE drain[o]
  BY DEF QueueInv, RemovesApplied
<1>2. drain' = [o \in Drainers |-> drain'[o]]
  BY DEF QueueInv, RemovesApplied
<1>3. RemovesApplied'
  BY <1>1, <1>2 DEF QueueInv, RemovesApplied, Record
<1>4. QueuedIsNotLost'
  BY DEF QueueInv, QueuedIsNotLost
<1> QED BY <1>3, <1>4 DEF QueueInv

(* A choice made offline is not lost, however many callers replay the       *)
(* queue, whatever fails and whenever the tab is closed.                    *)
THEOREM ChoicesAreKept == QueueInit /\ [][QueueNext]_queueVars => []QueuedIsNotLost
<1>1. QueueInit => QueueInv
  BY DEF QueueInit, QueueInv, RemovesApplied, QueuedIsNotLost, NotDraining
<1>2. QueueInv /\ [QueueNext]_queueVars => QueueInv'
  <2> SUFFICES ASSUME QueueInv, [QueueNext]_queueVars PROVE QueueInv'
    OBVIOUS
  <2>1. CASE ConnectivityChanges \/ ChooseOnline \/ UNCHANGED queueVars
    <3>1. drain' = drain /\ queue' = queue /\ queued' = queued /\ cancelled' = cancelled
          /\ applied \subseteq applied'
      BY <2>1 DEF ConnectivityChanges, ChooseOnline, queueVars
    <3> QED BY <3>1 DEF QueueInv, RemovesApplied, QueuedIsNotLost, Record
  <2>2. CASE EnqueueMutation
    <3>1. DOMAIN queue' = DOMAIN queue \cup {made'} /\ queued' = queued \cup {made'}
          /\ UNCHANGED <<drain, applied, cancelled>>
      BY <2>2 DEF EnqueueMutation
    <3> QED BY <3>1 DEF QueueInv, RemovesApplied, QueuedIsNotLost, Record
  <2>3. CASE CloseTab
    BY <2>3 DEF CloseTab, QueueInv, RemovesApplied, QueuedIsNotLost, NotDraining
  <2>4. ASSUME NEW id, CancelMutation(id) PROVE QueueInv'
    <3>1. DOMAIN queue' = DOMAIN queue \ {id} /\ cancelled' = cancelled \cup {id}
          /\ UNCHANGED <<drain, queued, applied>>
      BY <2>4 DEF CancelMutation, Without
    <3> QED BY <3>1 DEF QueueInv, RemovesApplied, QueuedIsNotLost, Record
  <2>5. ASSUME NEW d \in Drainers, ListPending(d) PROVE QueueInv'
    <3> DEFINE v == [pc |-> "replay", rest |-> queue]
    <3>1. v = [pc |-> v.pc, rest |-> v.rest] /\ v.pc # "remove"
      OBVIOUS
    <3>2. drain' = [drain EXCEPT ![d] = v] /\ UNCHANGED <<queue, queued, applied, cancelled>>
      BY <2>5 DEF ListPending
    <3> HIDE DEF v
    <3> QED BY <3>1, <3>2, CallerMoves
  <2>6. ASSUME NEW d \in Drainers, SkipExhausted(d) PROVE QueueInv'
    <3> DEFINE v == [pc |-> drain[d].pc, rest |-> Without(drain[d].rest, Record(d))]
    <3>1. v = [pc |-> v.pc, rest |-> v.rest] /\ v.pc # "remove"
      BY <2>6 DEF SkipExhausted, Replaying
    <3>2. drain' = [drain EXCEPT ![d] = v]
      <4>1. drain[d] = [pc |-> drain[d].pc, rest |-> drain[d].rest]
        BY DEF QueueInv, RemovesApplied
      <4>2. [drain[d] EXCEPT !.rest = Without(drain[d].rest, Record(d))] = v
        BY <4>1
      <4>3. drain' = [drain EXCEPT ![d] = [drain[d] EXCEPT !.rest = Without(drain[d].rest, Record(d))]]
        BY <2>6 DEF SkipExhausted
      <4> QED BY <4>2, <4>3
    <3>3. UNCHANGED <<queue, queued, applied, cancelled>>
      BY <2>6 DEF SkipExhausted
    <3> HIDE DEF v
    <3> QED BY <3>1, <3>2, <3>3, CallerMoves
  <2>7. ASSUME NEW d \in Drainers, Replay(d) PROVE QueueInv'
    <3>1. PICK pc \in {"remove", "note"} :
            /\ drain' = [drain EXCEPT ![d].pc = pc]
            /\ applied \subseteq applied' /\ (pc = "remove" => Record(d) \in applied')
      BY <2>7 DEF Replay
    <3> DEFINE v == [pc |-> pc, rest |-> drain[d].rest]
    <3>2. v = [pc |-> v.pc, rest |-> v.rest] /\ v.pc = pc /\ v.rest = drain[d].rest
      OBVIOUS
    <3>3. drain' = [drain EXCEPT ![d] = v]
      <4>1. drain[d] = [pc |-> drain[d].pc, rest |-> drain[d].rest]
        BY DEF QueueInv, RemovesApplied
      <4>2. [drain[d] EXCEPT !.pc = pc] = v
        BY <4>1
      <4>3. drain' = [drain EXCEPT ![d] = [drain[d] EXCEPT !.pc = pc]]
        BY <3>1
      <4> QED BY <4>2, <4>3
    <3>4. UNCHANGED <<queue, queued, cancelled>>
      BY <2>7 DEF Replay
    <3>5. v.pc = "remove" => First(v.rest) \in applied'
      BY <3>1, <3>2 DEF Record
    <3> HIDE DEF v
    <3> QED BY <3>1, <3>2, <3>3, <3>4, <3>5, CallerMoves
  <2>8. ASSUME NEW d \in Drainers, RemoveReplayed(d) PROVE QueueInv'
    <3>1. Record(d) \in applied /\ DOMAIN queue' = DOMAIN queue \ {Record(d)}
          /\ UNCHANGED <<queued, applied, cancelled>>
      BY <2>8 DEF RemoveReplayed, Without, QueueInv, RemovesApplied
    <3>2. \A o \in Drainers :
            drain'[o] = IF o = d THEN [pc |-> "replay", rest |-> Without(drain[d].rest, Record(d))]
                        ELSE drain[o]
      BY <2>8 DEF RemoveReplayed, QueueInv, RemovesApplied
    <3>3. drain' = [o \in Drainers |-> drain'[o]]
      BY <2>8 DEF RemoveReplayed, QueueInv, RemovesApplied
    <3>4. RemovesApplied'
      BY <3>1, <3>2, <3>3 DEF QueueInv, RemovesApplied, Record
    <3>5. QueuedIsNotLost'
      BY <3>1 DEF QueueInv, QueuedIsNotLost
    <3> QED BY <3>4, <3>5 DEF QueueInv
  <2>9. ASSUME NEW d \in Drainers, NoteFailure(d) \/ EndDrain(d) PROVE QueueInv'
    <3>1. drain' = [drain EXCEPT ![d] = NotDraining] /\ DOMAIN queue' = DOMAIN queue
          /\ UNCHANGED <<queued, applied, cancelled>>
      BY <2>9 DEF NoteFailure, EndDrain, WithAttempt
    <3>2. NotDraining = [pc |-> NotDraining.pc, rest |-> NotDraining.rest]
          /\ NotDraining.pc # "remove"
      BY DEF NotDraining
    <3> QED BY <3>1, <3>2, CallerMoves
  <2> QED
    BY <2>1, <2>2, <2>3, <2>4, <2>5, <2>6, <2>7, <2>8, <2>9 DEF QueueNext, Drain
<1> QED BY <1>1, <1>2, PTL DEF QueueInv
=============================================================================
